CONSTANTS
    BLOCK_SIZE = 2
    MAX_FILES = 63
    UINT_BITS = 6
    FD_COUNT = 5
    Dentries <- MCDentries
    InodeLen <- MCInodeLen
    InodeBlocks <- MCInodeBlocks
    DataBlocks <- MCDataBlocks
    OpenNames <- MCOpenNames
    ReadSizes <- MCReadSizes
SPECIFICATION Spec
INVARIANTS
    TypeOK
    StreamsFollowFiles
