CONSTANTS
    OwnLoc = {}
    ForeignLoc = {}
    BareLoc = {}
    EmptyLoc = {}
    Abroad = {abr}
    start = start
    Precollected <- NoStartItem
    MaxCrashes = 1
    MaxDrops = 0
    MaxCollects = 0
    MaxInbox = 1
    Modes <- RemoteItems
    Batching = TRUE
    AllowNil = FALSE
    Chatter = FALSE
SPECIFICATION Spec
INVARIANTS EveryConfirmedItemLogged
