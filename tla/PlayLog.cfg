CONSTANTS
    OwnLoc = {own}
    ForeignLoc = {}
    BareLoc = {bare}
    EmptyLoc = {}
    Abroad = {abr}
    start = start
    Precollected <- OneStartItem
    MaxCrashes = 1
    MaxDrops = 0
    MaxCollects = 1
    MaxInbox = 1
    Modes <- AllOrNothing
    Batching = TRUE
    AllowNil = FALSE
    Chatter = FALSE
SPECIFICATION Spec
INVARIANTS
    TypeOK
    RemoteClientInSync
PROPERTIES
    ImplementsItemExchange
