CONSTANTS
    Delegations = {d1}
    Writers = {w1, w2}
    Sweeper = sw
    NoDelegation = nil
    Routes = {"delegate", "report", "sweep", "restart", "dark"}
    MaxReports = 1
    MaxFaults = 1
    MaxRestarts = 1
    MaxEntries = 3
    MaxStamp = 2
    PageLimit = 2
SPECIFICATION RecordSpec
SYMMETRY Symmetry
CHECK_DEADLOCK FALSE
INVARIANTS NoDoubleReply RepliesAreLicensed
PROPERTIES SingleReply FeedIsComplete
