CONSTANTS
    chanBufferSize = 2
    reconnectThreshold = 2
    MaxMsgs = 1
    MaxSends = 1
    UserMayLeave = TRUE
    Outages = {}
SPECIFICATION Spec
INVARIANTS
    NoPanic
CHECK_DEADLOCK FALSE
