SPECIFICATION Spec
CONSTANTS
    TOTAL = 5
    PAST = 1
    WORD = 7
    BOOT = {0}
    Device = {1, 3}
    NVIRT = 3
    LIMIT = 2
    TSIZE = 2
    MAXCNT = 2
INVARIANTS
    FramesExclusive
    InUseIsMarked
    CountersUntilDrift
