SPECIFICATION LiveSpec
CONSTANTS
    first = first
    second = second
    third = third
    Nobody = Nobody
    Users <- ThreeUsers
    Milliseconds <- ThreeWaits
INVARIANTS
    TypeOK
    NoEarlyReturn
PROPERTY LateWaiterReturns
CHECK_DEADLOCK FALSE
