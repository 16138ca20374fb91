SPECIFICATION ListSpec
CONSTANTS
    Data = {a, b}
    MAXNODES = 4
INVARIANT
    RemovedIsGone
