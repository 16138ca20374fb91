SPECIFICATION LiveSpec
CONSTANTS
    PAGE = 4
    Rsdt <- MCRsdt
PROPERTY
    GoesOnWithoutCpuid
