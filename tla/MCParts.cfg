\* Every plan of the set executed on every small fleet, again and again.
\* The waits with the defaults in proportion: two requests to the deadline, three
\* attempts.  Loads and persists of two processes, a failing call, a killed process.
SPECIFICATION MCSpec
CONSTANTS
    NoGroup = NoGroup
    NoRegion = NoRegion
    Plans <- MCPlans
    Fleets <- MCFleets
    Slots <- MCSlots
    Hashes = {"h1", "h2"}
    Regions = {"ams", "lhr"}
    StateTimeout = 4
    HealthTimeout = 3
    StatePoll = 1
    HealthPoll = 2
    WaitCap = 2
    MaxAttempts = 3
    Backoff <- MCBackoff
    Latency = 1
    Codes = {zero, one}
    None = None
    Processes = {p1, p2}
    Inodes = {i1, i2, i3}
    Payloads = {"a", "b"}
    Newest = 1
    InitialFiles <- MCFiles
    NoFile = NoFile
    Unread = Unread
    NoInode = NoInode
    NoProcess = NoProcess
    Empty = Empty
    Partial = Partial
    MaxPersists = 2
    MaxFaults = 1
    MaxCrashes = 1
INVARIANTS ExecutedIsInSync ExecutedIsInBounds OneChangePerMachine OvershootBounded PatientWait NoMissedAnswer ReadyIsReal ExitIsReal NeverTorn
PROPERTIES WaitEnds NewerKept ImplementsRegister PersistEnds
CHECK_DEADLOCK FALSE
