CONSTANTS
    Space <- MCSpace
    AsciiAlnum <- MCAsciiAlnum
    Alnum <- MCAlnum
    Inputs <- MCInputs
SPECIFICATION Spec
INVARIANT AsideTextKept
INVARIANT DetailsTextInOrder
CHECK_DEADLOCK FALSE
