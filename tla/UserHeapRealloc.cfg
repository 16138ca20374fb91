SPECIFICATION HeapSpec
CONSTANTS
    INITIAL = 12
    Sizes = {3, 10}
    MAXBINS = 5
    HEAPMAX = 16
INVARIANT
    ReallocGrows
