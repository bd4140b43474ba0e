SPECIFICATION FairSpec
CONSTANTS
    Namespaces = {"a", "b"}
    NamespaceOf <- TwoTasks
    MaxShrinkNamespaces = 1
    Categories = {"immediate"}
    KeysPerFireTime = 1
    KeysPerPeriod = 1
    MaxKey = 2
    MaxReaderCount = 1
    MaxReaderID = 0
    BatchSize = 1
    MaxPending = 2
    OtherMaxPending = 1
    CriticalPending = 1
    CriticalSlices = 1
    MoveMinPending = 1
    MoveMinSlices = 1
    MaxSlices = 1
    MaxAlerts = 1
    MaxReloads = 1
PROPERTY AllExecuted
