CONSTANTS
    Views <- MCViews
    Hex32 <- MCHex32
    Lower <- MCLower
    Norm <- MCNorm
SPECIFICATION Spec
INVARIANT PrintedAsTree
INVARIANT DupScanCorrect
INVARIANT CollisionsCorrect
CHECK_DEADLOCK FALSE
