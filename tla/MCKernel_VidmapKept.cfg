CONSTANTS
    MAX_NUM_PROCESS <- MCMaxProcs
    TERM_NUM <- MCTerms
    BootRace = FALSE
SPECIFICATION Spec
INVARIANT
    VidmapKept
