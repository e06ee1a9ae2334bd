CONSTANTS
    TERM_NUM = 3
    Users = {0, 1}
    Frequencies <- MCFrequencies
SPECIFICATION Spec
INVARIANT NoLostInterrupt
