CONSTANTS
    Messages = {m1, s1}
    Snapshots = {s1}
    Expiring = {s1}
    Drainers = {p1}
    NoMessage = none
    MaxAttempts = 1
    Capacity = 1
    Backoff = 1
    Ceiling = 2
    HasProvisioner = TRUE
    MaxRows = 2
    MaxFaults = 0
    MaxRestarts = 0
    MaxUpstream = 2
    MaxOtherFetches = 1
    MaxPluginFaults = 1
SPECIFICATION DeliveriesSpec
CHECK_DEADLOCK FALSE
PROPERTIES SnapshotsSettle PluginsArrive
