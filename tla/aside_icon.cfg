CONSTANTS
    Space <- MCSpace
    AsciiAlnum <- MCAsciiAlnum
    Alnum <- MCAlnum
    Inputs <- MCInputs
SPECIFICATION Spec
INVARIANT IconAsSpecified
CHECK_DEADLOCK FALSE
