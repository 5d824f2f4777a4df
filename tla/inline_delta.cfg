CONSTANTS
    Words <- MCWords
    Newline = nl
    Inputs <- MCInputs
SPECIFICATION Spec
INVARIANT DeltaKeepsContent
CHECK_DEADLOCK FALSE
