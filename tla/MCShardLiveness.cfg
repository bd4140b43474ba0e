SPECIFICATION FairSpec
CONSTANTS
    g1 = g1
    Callers = {g1}
    MaxContexts = 1
    MaxTries = 1
PROPERTIES
    AcquiringEnds
    ShutdownReleasesAll
    LostOwnershipUnloads
    RemovedIsReleased
