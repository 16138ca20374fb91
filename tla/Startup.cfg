SPECIFICATION LiveSpec
CONSTANTS
    PAGE = 4
    Rsdt <- MCRsdt
INVARIANTS
    SupportedRuns
    NoneInService
    TimerGetsThrough
PROPERTY
    SystemStarts
