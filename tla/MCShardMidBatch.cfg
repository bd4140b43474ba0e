SPECIFICATION Spec
CONSTANTS
    c1 = c1
    c2 = c2
    RangeSize = 1
    MaxRangeID = 2
    MaxBatch = 2
    MaxGenerate = 0
    MaxQueueState = 0
    MaxLate = 1
    HandoverContexts = {}
    OtherWriters = {}
    Contexts = {c1}
PROPERTIES
    QueueSeesEveryWrite
CHECK_DEADLOCK FALSE
