SPECIFICATION ListSpec
CONSTANTS
    Data = {a, b}
    MAXNODES = 4
INVARIANTS
    LinksSpellContent
