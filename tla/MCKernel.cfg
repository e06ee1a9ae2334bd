CONSTANTS
    MAX_NUM_PROCESS <- MCMaxProcs
    TERM_NUM <- MCTerms
    BootRace = FALSE
SPECIFICATION Spec
INVARIANTS
    TypeOK
    PidsMatchProcesses
    ContextInstalled
    SuspendedContexts
    ScreenIsolation
    VidmapOnlyIfRequested
PROPERTIES
    TerminalNeverEmpty
    EveryTerminalServed
    ImplementsSessions
