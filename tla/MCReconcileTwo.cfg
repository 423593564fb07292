\* Two operators at once: interleaved applies, failed calls, refused updates, machines
\* destroyed from outside.
CONSTANTS
    Runners = {r1, r2}
    MachineIds = {1, 2, 3, 4, 5, 6, 7, 8, 9}
    Offered <- MCOffered
    GroupNames = {1, 2, 3}
    Hashes = {"h1", "h2"}
    Regions = {"ams", "lhr"}
    Plans <- TwoPlans
    InitialFleets <- TwoFleets
    ReleaseGroup = 3
    NoGroup = NoGroup
    NoHash = NoHash
    NoRegion = NoRegion
    NoMachine = NoMachine
    NoPlan = NoPlan
    MaxApplies = 2
    MaxFaults = 1
    MaxCrashes = 0
    MaxVanished = 1
SPECIFICATION FairSpec
PROPERTIES UnmanagedUntouched OldKeptUntilVerified ImplementsContract Terminates
CHECK_DEADLOCK FALSE
