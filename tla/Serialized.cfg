SPECIFICATION Spec
CONSTANTS
    Rows <- OptionRows
    Pages <- AllPages
    Posts <- AllPosts
    maxSerializedDepth = 3
INVARIANTS
    AllOrNothing
    FieldRepaired
    RowRestored
    HostComesHome
    DetectorsAgree
