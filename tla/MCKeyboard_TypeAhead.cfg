CONSTANTS
    TERM_NUM = 1
    KBD_BUF_SIZE = 2
    Keys <- MCKeys
    ReadSizes <- MCReadSizes
    TypeAhead = TRUE
SPECIFICATION Spec
INVARIANT
    ReadReturnsOwnLine
