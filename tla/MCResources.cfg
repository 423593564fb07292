\* Two processes, two databases, a cluster and a static resource; a failing call and a kill.
SPECIFICATION Spec
CONSTANTS
    Processes = {p1, p2}
    Databases = {d1, d2}
    Clusters = {c1}
    Statics = {s1}
    Enabled = {"generate", "apply", "look", "deprovision"}
    Apps = {a1, a2, a3}
    Names = {n1, n2, n3}
    None = None
    MaxCommands = 3
    MaxLooks = 1
    MaxFaults = 1
    MaxCrashes = 1
CONSTRAINT Bounded
VIEW View
SYMMETRY Symmetry
INVARIANTS BooksAgree RecordedExist NothingLeaks
PROPERTIES OthersKept
CHECK_DEADLOCK FALSE
