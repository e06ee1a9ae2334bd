CONSTANTS
    Holds = {{"right"}, {"left"}, {"down", "left"}}
    MaxPresses = 2
    MaxResets = 1
    BLOCK_X_DIM = 3
    BLOCK_Y_DIM = 3
    OpenSquares <- MCOpenSquares
    Exit <- MCExit
    MAX_LEVEL = 1
    MaxTicks = 1
    Seconds <- MCSeconds
    Keys <- MCKeys
SPECIFICATION Spec
INVARIANTS TypeOK PlayerOnGrid TimeEncoding LedsShowTime
PROPERTIES SteersAsPressed ResetRecovered GameEnds
