SPECIFICATION Spec
CONSTANTS
    Tasks = {t1, t2}
    high = high
    low = low
    Keys = {high, low}
    Workers = {w1}
    Namespaces <- OneNamespace
    Weights <- HighTwice
    QueueSize = 1
    ChannelSize = 1
    ResubmitMaxAttempts = 2
    MaxFailures = 1
CONSTRAINTS OneConcern OneBusy FailedApart HighToStart
SYMMETRY Interchangeable
INVARIANTS NeverTwice NotLost InflightExact DispatcherAwake GateArmed StoppedIsDrained ReschedulerDrained
CHECK_DEADLOCK FALSE
