SPECIFICATION TSpec
CONSTANTS
    Word = 64
    Case <- SmallCase
    CaseL <- SmallCaseL
    Pairs <- SmallPairs
    ExclRanges <- SmallExcl
    LastCased = 60
    DigraphUp = {18}
    DigraphLow = {16}
    Inputs <- SmallInputs
    Locales = {"C", "tr_TR", "az_AZ"}
    TurkicLocales = {"tr_TR", "az_AZ"}
    HaveLocaleTr = TRUE
    TurkishPairs <- SmallTurkish
    Headers = {"bsearch", "both"}
    CaseUpper <- SmallCaseUpper
    CaseLUpper <- SmallCaseLUpper
    PairsUpper <- SmallPairsUpper
INVARIANTS
    ReturnsAnswer
