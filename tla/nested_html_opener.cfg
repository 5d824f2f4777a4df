CONSTANTS
    PageId = page
    Docs <- NestedHtmlDocs
SPECIFICATION Spec
INVARIANT HtmlOpenersRecognised
CHECK_DEADLOCK FALSE
