\* Two processes, each other's state overwritten; a failing call, a killed process.
\* Two operators on an app that may be there already, with two machines.
SPECIFICATION MCSpec
CONSTANTS
    Processes = {p1, p2}
    Workloads = {w1}
    Enabled = {"planOutput", "deploy", "apply", "exact", "scale", "scaleApply", "destroy", "edit"}
    Releases = {r1, r2}
    Scales = {s1, s2}
    NoRelease = NoRelease
    NoScale = NoScale
    NoPlan = NoPlan
    MaxCommands = 3
    MaxFaults = 1
    MaxCrashes = 1
    Nil = Nil
    App = App
    Operators = {o1, o2}
    Ids = {1, 2}
    Inhabited = {1, 2}
    Secrets = {1, 2}
    Configs = {c1, c2}
    Commands = {"deploy", "destroy", "status", "suspend", "start"}
    Tries = 2
    MaxStarted = 2
    MaxTroubles = 2
SYMMETRY Symmetry
INVARIANTS RolloutAfterRelease ApplyObeysScale SecretsFirst SuccessIsReal FailsOnlyWhenDisturbed NothingMadeTwice
PROPERTIES ReleaseOnlyOnChange LossesAreMeant
CHECK_DEADLOCK FALSE
