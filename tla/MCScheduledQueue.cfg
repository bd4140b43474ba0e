SPECIFICATION FairSpec
CONSTANTS
    MaxTime = 2
    MaxTimers = 1
    Shift = 1
    MaxPoll = 2
    Delay = 1
    MaxLosses = 1
    MaxRestarts = 1
INVARIANTS
    ArmedInTime
    NoTimerSkipped
PROPERTY TimersLoaded
