SPECIFICATION KeepAliveSpec
CONSTANTS
    Interval = 3
    MaxMissed = 3
    Deadline = 18
    MaxDelay = 1
    MaxBusy = 1
    MaxConns = 3
    MaxCalls = 2
INVARIANT SilenceIsNoticed
PROPERTY WorkingIsKept
CHECK_DEADLOCK FALSE
