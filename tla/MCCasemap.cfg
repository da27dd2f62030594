SPECIFICATION CSpec
CONSTANTS
    Files <- FilesMC
    NBlocks = 5
    BlockSz = 10
    Wrapped = FALSE
    Ascii = 2
INVARIANTS
    CTypeOK
    SearchKeepsHit
    AnswersFile
PROPERTY ImplementsMapping
