CONSTANTS
    BLOCK_SIZE = 2
    MAX_FILES = 63
    UINT_BITS = 6
    FD_COUNT = 4
    Dentries <- MCDentries
    InodeLen <- MCInodeLen
    InodeBlocks <- MCInodeBlocks
    DataBlocks <- MCDataBlocks
    OpenNames <- MCOpenNames
    ReadSizes <- MCNegativeSizes
SPECIFICATION Spec
INVARIANT
    ReadDataInBounds
