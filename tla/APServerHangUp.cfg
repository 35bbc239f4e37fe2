CONSTANTS
    Conn = {c1}
    None = None
    MaxTyped = 1
    MaxAnswers = 2
    MaxItems = 0
    MWMayDrop = FALSE
SPECIFICATION ServerFairSpec
PROPERTIES
    ReadyAgain
CHECK_DEADLOCK FALSE
