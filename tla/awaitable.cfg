SPECIFICATION LiveSpec
CONSTANTS
    timed = timed
    plain = plain
    Coroutines <- BothCoroutines
    Timed <- TimedCoroutine
    Awaits = 2
INVARIANTS
    SuspendedCanBeResumed
    OvertakenAtFirstOnly
PROPERTY ResponseResumes
CHECK_DEADLOCK FALSE
