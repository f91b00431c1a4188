SPECIFICATION LiveSpec
CONSTANTS
    first = first
    second = second
    third = third
    Nobody = Nobody
    Users <- TwoUsers
    Milliseconds <- TwoWaits
PROPERTY ReadyTimesOut
CHECK_DEADLOCK FALSE
