SPECIFICATION Spec
CONSTANTS
    Namespaces = {"a", "b"}
    NamespaceOf <- ThreeTasks
    MaxShrinkNamespaces = 1
    Categories = {"immediate"}
    KeysPerFireTime = 1
    KeysPerPeriod = 1
    MaxKey = 3
    MaxReaderCount = 2
    MaxReaderID = 1
    BatchSize = 1
    MaxPending = 3
    OtherMaxPending = 1
    CriticalPending = 1
    CriticalSlices = 4
    MoveMinPending = 1
    MoveMinSlices = 1
    MaxSlices = 0
    MaxAlerts = 1
    MaxReloads = 0
INVARIANT NothingLeftToLoad
