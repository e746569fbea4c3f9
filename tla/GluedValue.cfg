SPECIFICATION Spec
CONSTANTS
    Rows <- OptionRows
    Pages <- GluedPages
    Posts <- AllPosts
    maxSerializedDepth = 3
INVARIANT
    AllOrNothing
