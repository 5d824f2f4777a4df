CONSTANTS
    PageId = page
    Docs <- HtmlDocs
SPECIFICATION FairSpec
INVARIANT TypeOK
INVARIANT SnapshotConsistent
INVARIANT ReadingOrder
PROPERTY ImplementsBlockTree
CHECK_DEADLOCK FALSE
