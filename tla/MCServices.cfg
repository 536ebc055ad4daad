CONSTANTS
    DesktopCalls = {c1, c2}
    People = {p1}
    MaxDesktopFaults = 1
    Channels = {h1, h2}
    ChannelCalls = {c1, c2}
    MaxChannelFaults = 1
    Instances = {i1, i2}
    Users = {u1, u2}
    Tunnels = {t1, t2, t3}
    Nil = none
    poolMaxEntries = 1
    Files = {f1, f2}
    MaxUploadFaults = 2
    Seeds = {s1, s2, s3, s4}
    NoSeed = none
    MaxCodexFaults = 1
SPECIFICATION ServicesSpec
CHECK_DEADLOCK FALSE
INVARIANTS PollersMatchChannels
PROPERTIES DesktopIsKept TunnelsAreShared UploadsAreKept SeedIsKept
