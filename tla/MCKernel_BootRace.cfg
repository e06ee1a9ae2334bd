CONSTANTS
    MAX_NUM_PROCESS <- MCMaxProcs
    TERM_NUM <- MCTerms
    BootRace = TRUE
SPECIFICATION Spec
INVARIANT
    NoWildResume
