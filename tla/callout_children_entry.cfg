CONSTANTS
    PageId = page
    Docs <- HtmlDocs
SPECIFICATION Spec
INVARIANT EveryBlockHasChildrenEntry
CHECK_DEADLOCK FALSE
