CONSTANTS
    OwnLoc = {}
    ForeignLoc = {for1, for2}
    BareLoc = {}
    EmptyLoc = {}
    Abroad = {}
    start = start
    Precollected <- NoStartItem
    MaxCrashes = 2
    MaxDrops = 1
    MaxCollects = 0
    MaxInbox = 1
    Modes <- RemoteItems
    Batching = FALSE
    AllowNil = TRUE
    Chatter = TRUE
SYMMETRY OutSymmetry
SPECIFICATION Spec
INVARIANTS
    NoSentItemLost
    ConstraintOnlyAfterCrash
PROPERTIES
    ImplementsItemExchange
