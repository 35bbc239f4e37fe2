CONSTANTS
    Conn = {c1, c2}
    None = None
    MaxTyped = 2
    MaxAnswers = 2
    MaxItems = 1
    MWMayDrop = TRUE
    chanBufferSize = 1
    reconnectThreshold = 2
    MaxMsgs = 3
    MaxSends = 2
    UserMayLeave = TRUE
    Outages = {"eof", "reset", "silent"}
    MaxCrashes = 2
    MaxLosses = 2
    MaxPlayers = 2
    BadNames = TRUE
    MayDeny = TRUE
SPECIFICATION LinksSpec
INVARIANTS
    OneClient
    ServedInTurn
    InOrder
    NothingCutOff
    PlaysOnComplete
    PlacementsOnRequest
PROPERTIES
    ReadyUnlessStuck
    OutageNoticed
    RecvTerminates
    SetupFinishes
CHECK_DEADLOCK FALSE
