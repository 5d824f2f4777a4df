CONSTANTS
    PageId = page
    Docs <- TableDocs
SPECIFICATION Spec
INVARIANT ColumnsLayoutAsSpecified
CHECK_DEADLOCK FALSE
