CONSTANTS
    OwnLoc = {}
    ForeignLoc = {}
    BareLoc = {}
    EmptyLoc = {}
    Abroad = {abr1, abr2}
    start = start
    Precollected <- NoStartItem
    MaxCrashes = 1
    MaxDrops = 1
    MaxCollects = 1
    MaxInbox = 1
    Modes <- RemoteItems
    Batching = TRUE
    AllowNil = FALSE
    Chatter = FALSE
SYMMETRY InSymmetry
SPECIFICATION Spec
INVARIANTS
    ConfirmedItemLogged
    SurplusBounded
PROPERTIES
    SettledOnce
