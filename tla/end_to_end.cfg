SPECIFICATION LiveSpec
CONSTANTS
    call = call
    timed = timed
    oneway = oneway
    beat = beat
    Requests <- MCRequests
    Heartbeats <- MCHeartbeats
    Oneway <- MCOneway
    Timed <- MCTimed
    MaxConns = 2
INVARIANTS
    RequestAccountedFor
    ResponseAccountedFor
PROPERTIES
    KeepsRpcPromise
    AnsweredUnlessLost
CHECK_DEADLOCK FALSE
