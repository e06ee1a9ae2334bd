CONSTANTS
    TERM_NUM = 3
    Users = {0}
    Frequencies <- MCFrequencies
SPECIFICATION Spec
INVARIANTS TypeOK RateAsRequested IrqVectorsInstalled UserGates KernelIdentity
PROPERTIES RtcReadWaitsForInterrupt RtcReadReturns
