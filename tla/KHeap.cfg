CONSTANTS
    PAGE = 32
    HEAPMAX = 96
    Request <- TwoGrainRequest
SPECIFICATION Spec
INVARIANTS BinsTileHeap Coalesced HeadersConserved
PROPERTIES ImplementsAllocator
