CONSTANTS
    OtherKeys = {k1}
    Greet = g
    WakeBeats = {h1}
    MaxRedrives = 1
    MaxWakeFaults = 1
    ReqCalls = {q1, q2}
    MaxReqFaults = 1
    ApprovalRows = {r1, r2, r3}
    Callers = {c1, c2}
    NoRow = none
    MaxGrantFaults = 1
    FileCalls = {f1, f2}
    Config = cfg
    Note = note
    Window = 2
    Retries = 2
    MaxFileCalls = 3
    MaxFileFaults = 1
    SecretCalls = {s1, s2}
    CacheTTL = 1
    CallTime = 1
    MaxSecrets = 2
    MaxClock = 4
SPECIFICATION MessagesSpec
CHECK_DEADLOCK FALSE
INVARIANTS ApprovalsAreSpentOnce FilesArrive
PROPERTIES WakesAreKept RequestsAreAnswered
