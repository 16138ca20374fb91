SPECIFICATION LiveSpec
CONSTANTS
    Files <- TwoFiles
    PROCSVR <- ServerPath
    INITNAME <- InitName
    BYTE = 3
    ZERO = 1
    MAXPROCS = 4
    NBUF = 3
    MAXMSGS = 3
INVARIANTS
    RegisteredUnderCreator
    NamesDistinct
    FindsOwnUntilStale
PROPERTY
    LookupEnds
