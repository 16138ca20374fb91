CONSTANTS
    PAGE = 64
    HEAPMAX = 192
    Request <- FourGrainRequest
SPECIFICATION Spec
INVARIANT
    BlocksMapped
