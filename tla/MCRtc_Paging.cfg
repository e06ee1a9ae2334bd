CONSTANTS
    TERM_NUM = 3
    Users = {0}
    Frequencies <- MCFrequencies
SPECIFICATION Spec
INVARIANT UserCannotReachKernel
