SPECIFICATION Spec
CONSTANTS
    user = user
    Users <- OneUser
    MaxReconnects = 1
    MaxMissed = 2
    MaxBeats = 1
    MaxDone = 2
INVARIANT FrontExists
CHECK_DEADLOCK FALSE
