SPECIFICATION CSpec
CONSTANTS
    Files <- FilesMC
    NBlocks = 5
    BlockSz = 10
    Wrapped = TRUE
    Ascii = 2
INVARIANT WrappersAnswer
