SPECIFICATION LiveSpec
CONSTANTS
    plainInvoke = plainInvoke
    timedInvoke = timedInvoke
    timedAsync = timedAsync
    Null = Null
    MaxOtherId = 1
    Calls <- AllCalls
    Timed <- AllTimed
    Sync <- AllSync
INVARIANTS
    TypeOK
    CallbackInOnePlace
    ResponseFindsEntry
    OwnReply
    NoGhostEntry
PROPERTIES
    KeepsPromise
    SyncInvokeReturns
    TimedEntryLeaves
CHECK_DEADLOCK FALSE
