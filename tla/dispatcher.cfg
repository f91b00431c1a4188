SPECIFICATION DispatcherSpec
CONSTANTS
    engine1 = engine1
    engine2 = engine2
    add = add
    echo = echo
    Nothing = Nothing
    Threads <- TwoThreads
    Names <- TwoNames
    MaxServes = 2
    MaxRequests = 2
SYMMETRY Symmetry
INVARIANTS
    AnsweredOnce
    RegisteredIsCalled
CHECK_DEADLOCK FALSE
