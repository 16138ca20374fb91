SPECIFICATION Spec
CONSTANTS
    MaxTask = 2
    Body = {b1, b2}
    PAGE = 2
    MSG_MAXSZ = 4
    Size = {1, 3, 4, 5}
    MAXPORT = 1
    NONE = NONE
    ALIEN = ALIEN
SYMMETRY Bodies
INVARIANT
    FreedIsUnmapped
