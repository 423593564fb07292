\* One operator re-applying plans: failed calls, also in the rollback after another,
\* lost answers, a killed process.
CONSTANTS
    Runners = {r1}
    MachineIds = {1, 2, 3, 4, 5, 6, 7, 8, 9}
    Offered <- MCOffered
    GroupNames = {1, 2, 3}
    Hashes = {"h1", "h2"}
    Regions = {"ams", "lhr"}
    Plans <- MCPlans
    InitialFleets <- MCFleets
    ReleaseGroup = 3
    NoGroup = NoGroup
    NoHash = NoHash
    NoRegion = NoRegion
    NoMachine = NoMachine
    NoPlan = NoPlan
    MaxApplies = 3
    MaxFaults = 2
    MaxCrashes = 1
    MaxVanished = 0
SPECIFICATION Spec
INVARIANTS SuccessIsInSync NoSilentLeftovers OnlyReleaseWedges
PROPERTIES CapacityBeforeDelete
CHECK_DEADLOCK FALSE
