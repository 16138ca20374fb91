SPECIFICATION Spec
CONSTANTS
    MSG_MAXCOUNT = 2
    INT16_MAX = 5
    NULL = NULL
    STRAY = STRAY
    Message = {m1, m2}
    MAXPUSH = 7
INVARIANT
    PopReturnsMessages
CHECK_DEADLOCK FALSE
