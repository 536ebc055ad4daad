CONSTANTS
    Messages = {m1}
    Snapshots = {}
    Expiring = {m1}
    Drainers = {p1, p2}
    NoMessage = none
    MaxAttempts = 2
    Capacity = 2
    Backoff = 1
    Ceiling = 2
    HasProvisioner = TRUE
    MaxRows = 2
    MaxFaults = 1
    MaxRestarts = 1
    Owners = {w1, w2}
    NoOwner = none
    MemCalls = {q1, q2}
    LegacyRows = {w2}
    NotACopy = none
    ChainDepth = 3
    FailuresToOpen = 2
    MaxMemCalls = 3
    MaxMemFaults = 1
    KeyWriters = {k1, k2}
    MaxKeyWrites = 5
SPECIFICATION KeeperSpec
CHECK_DEADLOCK FALSE
SYMMETRY Symmetry
INVARIANTS OneOfEach AttemptsCountFailures NothingLost MemoriesAreKept
PROPERTIES DropsOnlyPastCeiling
