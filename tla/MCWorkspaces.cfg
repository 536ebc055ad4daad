CONSTANTS
    GateBeats = {h1, h2}
    MaxGateFaults = 1
    MaxWatchFaults = 1
    MaxInbound = 1
    Nodes = {"r", "a", "b", "c", "d"}
    NoNode = "-"
    Movers = {"m1", "m2"}
    OrgTokens = {"k"}
    MintCeiling = 1
    MaxTreeFaults = 1
SPECIFICATION WorkspacesSpec
CHECK_DEADLOCK FALSE
INVARIANTS TreeIsSound
PROPERTIES GateHolds WatchdogsAreJust MovesAreJust
