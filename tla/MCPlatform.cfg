CONSTANTS
    Creates = {c1}
    Restarts = {r1}
    NoStart = none
    MaxFaults = 0
    Sends = {s1, s2}
    FirstSend = s1
    MaxTroubles = 1
    Keys = {"mini", "auth", "oauth", "usage", "operator", "admin"}
    BypassKeys = {"mini", "auth", "oauth"}
    OperatorKeys = {"operator"}
    AdminKeys = {"admin"}
    ProxyKey = "auth"
    Vendors = {"platform", "minimax", "oauth"}
    Platform = "platform"
    AuthEnv <- RegAuth
    TokenEnv <- RegToken
    Models = {"mm", "pl", "cl", "any"}
    Exact <- RegExact
    Prefix <- RegPrefix
    Bare <- RegBare
    Nothing = "nothing"
    MaxWrites = 1
    MaxEnvFaults = 1
SPECIFICATION PlatformSpec
CHECK_DEADLOCK FALSE
INVARIANTS NoOrphanLeft CredentialsAreRight
PROPERTIES TeardownIsJust MessagesAreKept
