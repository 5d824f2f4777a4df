CONSTANTS
    Space <- MCSpace
    AsciiAlnum <- MCAsciiAlnum
    Alnum <- MCAlnum
    Inputs <- MCInputs
SPECIFICATION Spec
INVARIANT DetailsTextKept
CHECK_DEADLOCK FALSE
