CONSTANTS
    TERM_NUM = 2
    KBD_BUF_SIZE = 2
    Keys <- MCKeys
    ReadSizes <- MCReadSizes
    TypeAhead = FALSE
SPECIFICATION Spec
INVARIANT
    ReadReturnsOwnLine
