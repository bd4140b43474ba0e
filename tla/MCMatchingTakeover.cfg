SPECIFICATION Spec
CONSTANTS
    Managers = {m1, m2}
    Tasks = {a}
    Expiring = {a}
    RangeSize = 2
    BatchSize = 2
    ReadsPerPump = 2
    MaxRange = 2
    MaxTimeouts = 1
    MaxRewrites = 1
SYMMETRY Symmetry
CONSTRAINTS TimeoutOrDeletion RewriteBound
INVARIANTS
    NothingOwedBelowAck
    UniqueTaskIDs
CHECK_DEADLOCK FALSE
