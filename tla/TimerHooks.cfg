SPECIFICATION Spec
CONSTANTS
    ONE_TICK = 7
    TIME_SLICE_MAX = 2
    LATER = {1, 6}
    ms_1ms = 1000
    MAXCLOCKS = 3
    MAXTASKS = 3
    MAXDRIFT = 8
INVARIANTS
    NullNeverFollowed
    Punctual
