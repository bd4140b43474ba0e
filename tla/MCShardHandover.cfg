SPECIFICATION Spec
CONSTANTS
    c1 = c1
    c2 = c2
    RangeSize = 2
    MaxRangeID = 2
    MaxBatch = 1
    MaxGenerate = 0
    MaxQueueState = 0
    MaxLate = 1
    HandoverContexts = {c1}
    OtherWriters = {c1}
    Contexts = {c1}
INVARIANTS
    HandoverIsFinal
CHECK_DEADLOCK FALSE
