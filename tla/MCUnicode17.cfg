SPECIFICATION CSpec
CONSTANTS
    Word = 1073741824
    Case <- Case17
    CaseL <- CaseL17
    Pairs <- Pairs17
    ExclRanges <- exclRanges
    LastCased <- lastCased
    DigraphUp <- digraphUp
    DigraphLow <- digraphLow
    Inputs <- Inputs17
    Locales <- Locales17
    TurkicLocales = {}
    HaveLocaleTr <- TurkishIsOff
    TurkishPairs <- turkishPairs
    Headers = {"linear", "both"}
    CaseUpper <- CaseUpper17
    CaseLUpper <- CaseLUpper17
    PairsUpper <- PairsUpper17
    FoldInputs <- FoldInputs17
    Exchanged <- cherokee
    Apart <- dotted
    Tbl2 <- Tbl2_17
    Tbl3 <- Tbl3_17
    Groups <- Groups17
    Ascii = 128
    Widths = {TRUE}
    Bmp = 65535
    HiBase = 55296
    LoBase = 56320
    LoBits = 1024
    Dmaxes = {4}
    MinDmax = 4
    MaxDmax = 32767
    Garbage <- Unwritten
    Lowered <- Lowered17
    IsUpper <- IsUpper17
    Folds <- Folds17
INVARIANTS
    ReturnsAnswer
    WindowKeepsHit
    FoldStable
    FoldsAlike
    FoldingComplete
CHECK_DEADLOCK FALSE
