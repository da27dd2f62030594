SPECIFICATION Spec
CONSTANTS
    N = 6
    Codes <- Around
    Ucd <- Files
    Word = 64
    MaxUpper = 6
    MaxLower = 6
    MaxLen = 6
    MaxShort = 63
    MinExcl = 1
INVARIANTS
    LeftOutNotNeeded
CHECK_DEADLOCK FALSE
