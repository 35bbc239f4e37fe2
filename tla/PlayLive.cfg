CONSTANTS
    OwnLoc = {}
    ForeignLoc = {for}
    BareLoc = {}
    EmptyLoc = {empty}
    Abroad = {abr}
    start = start
    Precollected <- NoStartItem
    MaxCrashes = 0
    MaxDrops = 1
    MaxCollects = 0
    MaxInbox = 1
    Modes <- RemoteItems
    Batching = TRUE
    AllowNil = FALSE
    Chatter = FALSE
SPECIFICATION FairSpec
PROPERTIES
    QueueDrains
    FoundItemLogged
    FoundItemConfirmed
