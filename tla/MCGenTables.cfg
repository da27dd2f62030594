SPECIFICATION Spec
CONSTANTS
    N = 7
    Codes <- Around
    Ucd <- Files
    Word = 64
    MaxUpper = 4
    MaxLower = 3
    MaxLen = 2
    MaxShort = 5
    MinExcl = 0
INVARIANTS
    GTypeOK
    NoneForgotten
    NoneInvented
    LeftOutOpposed
    TablesExact
    LookupReady
CHECK_DEADLOCK FALSE
