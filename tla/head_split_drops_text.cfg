CONSTANTS
    PageId = page
    Docs <- BlockDocs
SPECIFICATION Spec
INVARIANT TextConserved
CHECK_DEADLOCK FALSE
