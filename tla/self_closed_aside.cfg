CONSTANTS
    PageId = page
    Docs <- HtmlDocs
SPECIFICATION Spec
INVARIANT SelfClosedFragmentKeepsSiblings
CHECK_DEADLOCK FALSE
