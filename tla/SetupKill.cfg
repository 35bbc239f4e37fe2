CONSTANTS
    MaxCrashes = 1
    MaxLosses = 0
    MaxPlayers = 0
    BadNames = FALSE
    MayDeny = FALSE
SPECIFICATION SetupSpec
INVARIANTS
    RerunGoesOn
CHECK_DEADLOCK FALSE
