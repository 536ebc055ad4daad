CONSTANTS
    Creates = {c1}
    Restarts = {}
    NoStart = none
    MaxFaults = 2
    Boots = {b1, b2}
    FirstBoot = b1
    NoInstance = none
    MaxCPFaults = 1
    Beats = {h1}
    Runtimes = {"container", "native", "external"}
    MaxUpsets = 1
    MaxTokens = 3
    Boxes = {b1, b2}
    FirstBox = b1
    RegCalls = {r1, r2}
    FailClosed = FALSE
    AdminSecret = TRUE
    MaxRegFaults = 1
    Sessions = {v1, v2}
    TTLOk = 2
    TTLFail = 1
    CPTimeout = 1
    MaxTime = 5
INVARIANT AccessIsCurrent
SPECIFICATION LifecycleSpec
CHECK_DEADLOCK FALSE
PROPERTIES OrphansAreReaped MachinesAreAccounted StatusFollowsAgent
