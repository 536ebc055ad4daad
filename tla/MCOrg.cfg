CONSTANTS
    Delegations = {d1}
    Writers = {w1}
    Sweeper = sw
    NoDelegation = nil
    Routes = {"record", "sweep", "restart", "quiet"}
    MaxReports = 0
    MaxFaults = 2
    MaxRestarts = 1
    Canonical = canonical
    Foreign = foreign
    Team = team
    Fresh = fresh
    NoRow = none
    MaxConciergeFaults = 1
    Importers = {i1, i2}
    Concurrency = 1
    MaxSchedules = 2
    MaxImports = 2
    MaxImportRows = 6
    MaxRefs = 2
    MaxOrgDeletes = 1
    MaxImportFaults = 1
SPECIFICATION OrgSpec
CHECK_DEADLOCK FALSE
PROPERTIES OverdueIsSettled ConciergeIsKept ImportsAreKept
