SPECIFICATION Spec
CONSTANTS
    Namespaces = {"a", "b"}
    NamespaceOf <- TwoTasks
    MaxShrinkNamespaces = 1
    Categories = {"immediate", "scheduled"}
    KeysPerFireTime = 2
    KeysPerPeriod = 1
    MaxKey = 2
    MaxReaderCount = 2
    MaxReaderID = 1
    BatchSize = 1
    MaxPending = 2
    OtherMaxPending = 1
    CriticalPending = 1
    CriticalSlices = 1
    MoveMinPending = 1
    MoveMinSlices = 1
    MaxSlices = 2
    MaxAlerts = 1
    MaxReloads = 1
INVARIANT WellFormed
INVARIANT CountsExact
INVARIANT OneSlicePerTask
INVARIANT NoTaskLost
PROPERTY ImplementsTaskQueue
