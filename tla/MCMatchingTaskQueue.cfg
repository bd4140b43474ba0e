SPECIFICATION FairSpec
CONSTANTS
    Managers = {m1}
    Tasks = {a, b}
    Expiring = {}
    RangeSize = 2
    BatchSize = 2
    ReadsPerPump = 2
    MaxRange = 2
    MaxTimeouts = 0
    MaxRewrites = 1
INVARIANTS
    TypeOK
    NoTaskLost
PROPERTY TasksStarted
CHECK_DEADLOCK FALSE
