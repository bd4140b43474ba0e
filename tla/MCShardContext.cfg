SPECIFICATION Spec
CONSTANTS
    c1 = c1
    c2 = c2
    Contexts = {c1, c2}
    RangeSize = 1
    MaxRangeID = 2
    MaxBatch = 2
    MaxGenerate = 1
    MaxQueueState = 2
    MaxLate = 1
    HandoverContexts = {}
    OtherWriters = {}
SYMMETRY ContextSymmetry
CONSTRAINTS OneConcern OneLate
INVARIANTS
    SingleWriter
    UniqueTaskIDs
    LevelCoversRows
    SavedStateDurable
    Inv
PROPERTIES
    ReadLevelMonotonic
    NoRowBelowRead
CHECK_DEADLOCK FALSE
