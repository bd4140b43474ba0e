SPECIFICATION Spec
CONSTANTS
    g1 = g1
    Callers = {g1}
    MaxContexts = 2
    MaxTries = 0
INVARIANTS
    TypeOK
    AcquiringIsDriven
    ServedHasEngine
    NoOrphan
    MapHasNoStopped
    NoEngineLeft
    NothingAfterShutdown
