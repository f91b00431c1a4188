SPECIFICATION LiveSpec
CONSTANTS
    left = left
    right = right
    Servers <- TwoServers
    EngineCount = 2
    MaxListens = 3
    MaxConnections = 2
    MaxErrors = 1
INVARIANTS
    GetStaysBalanced
    OneLoopNeverRaces
PROPERTY BacklogServed
CHECK_DEADLOCK FALSE
