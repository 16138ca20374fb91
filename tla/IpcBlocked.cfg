SPECIFICATION LiveSpec
CONSTANTS
    MSG_MAXCOUNT = 2
    INT16_MAX = 4
    NULL = NULL
    STRAY = STRAY
    MAXPROCS = 3
    MAXMSGS = 4
PROPERTY
    BlockedSenderResumes
