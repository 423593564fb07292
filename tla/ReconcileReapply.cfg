\* A release machine that survives its apply, then the same plan again.
CONSTANTS
    Runners = {r1}
    MachineIds = {1, 2, 3, 4, 5, 6, 7, 8, 9}
    Offered <- MCOffered
    GroupNames = {1, 2, 3}
    Hashes = {"h1", "h2"}
    Regions = {"ams", "lhr"}
    Plans <- MCPlans
    InitialFleets <- MCFleets
    ReleaseGroup = 3
    NoGroup = NoGroup
    NoHash = NoHash
    NoRegion = NoRegion
    NoMachine = NoMachine
    NoPlan = NoPlan
    MaxApplies = 2
    MaxFaults = 1
    MaxCrashes = 0
    MaxVanished = 0
SPECIFICATION Spec
INVARIANTS SafeToReapply
CHECK_DEADLOCK FALSE
