SPECIFICATION LiveSpec
CONSTANT MaxFrames = 3
INVARIANTS
    OneReadOneWrite
    NoStall
    RepliesInOrder
PROPERTIES
    SilentIsClosed
    ClosedIsFreed
CHECK_DEADLOCK FALSE
