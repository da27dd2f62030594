SPECIFICATION FSpec
CONSTANTS
    Swapped = TRUE
    Upper <- AllUpper
    FoldC <- CLines
    FoldF <- FLines
    GroupGap = 2
    MinArith = 4
    Tbl2 <- tbl2
    Tbl3 <- tbl3
    Groups <- groups
    Lowered <- Lc
    IsUpper <- SmallIsUpper
    Folds <- Folding
    FoldInputs <- Letters
    Ascii = 4
    Widths = {TRUE}
    Bmp = 35
    HiBase = 24
    LoBase = 28
    LoBits = 4
    Dmaxes = {3, 4, 9}
    MinDmax = 4
    MaxDmax = 8
    Garbage <- Unwritten
INVARIANTS
    FoldsExactly
