SPECIFICATION Spec
CONSTANTS
    PAGE = 4
    Rsdt <- MCRsdt
INVARIANT
    RevertsToPic
