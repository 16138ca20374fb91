SPECIFICATION Spec
CONSTANTS
    MSG_MAXCOUNT = 2
    INT16_MAX = 5
    NULL = NULL
    STRAY = STRAY
    Message = {m1, m2}
    MAXPUSH = 7
INVARIANTS
    TypeOK
    FifoUntilWrap
    CountIsBacklog
PROPERTY
    FifoStepsUntilWrap
CHECK_DEADLOCK FALSE
