CONSTANTS
    Base = 2
    WordSize = 8
    IntSize = 64
    maxMessageSize = 16
    Types = {"Join", "ReadyConfirm", "ReadyDeny"}
    MaxFrames = 2
SPECIFICATION CodecSpec
CHECK_DEADLOCK FALSE
INVARIANT
    ReadyDenyReported
