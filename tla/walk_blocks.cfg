CONSTANTS
    PageId = page
    Docs <- StructureDocs
SPECIFICATION FairSpec
INVARIANT TypeOK
INVARIANT SnapshotConsistent
INVARIANT ReadingOrder
INVARIANT ImagesConserved
PROPERTY ImplementsBlockTree
CHECK_DEADLOCK FALSE
