SPECIFICATION Spec
CONSTANTS
    Files <- TwoFiles
    PROCSVR <- ServerPath
    INITNAME <- InitName
    BYTE = 3
    ZERO = 1
    MAXPROCS = 4
    NBUF = 2
    MAXMSGS = 5
INVARIANT
    FindsOwnSpawn
