SPECIFICATION LiveSpec
CONSTANTS
    user = user
    Users <- OneUser
    MaxReconnects = 1
    MaxMissed = 2
    MaxBeats = 1
    MaxDone = 2
INVARIANTS
    NeverStranded
    ConnectionWatched
    NoRequestLost
    RequestsMove
PROPERTIES
    ReadyReturnsAtLast
    Recovers
CHECK_DEADLOCK FALSE
