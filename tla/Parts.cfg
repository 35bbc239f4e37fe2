CONSTANTS
    Key = {k, r}
    ReadOnly = {r}
    Default <- Defaults
    Operation <- Operations
    MaxOps = 3
    MaxNumber = 3
    MaxLen = 3
    Persistent = 14
    Created = 5
    MaxStatements = 18
    MaxOpcodes = 7
    MaxSize = 4
    MaxObjects = 2
    MaxMemo = 1
    Parsed = {"Connect", "Set"}
    MaxSent = 3
    Token <- Tokens
    Loc = {1, 2}
    Item = {1, 2, 3}
    ItemName <- AwkwardItems
    LocName <- AwkwardLocs
    TheirNames <- AwkwardTheirs
    Decimal <- Decimals
    NoNumber = NoNumber
    MaxChecks = 3
    MaxNicknames = 2
    Base = 2
    WordSize = 8
    IntSize = 64
    maxMessageSize = 16
    Types <- TypesWritten
    MaxFrames = 2
SPECIFICATION PartsSpec
CHECK_DEADLOCK FALSE
INVARIANTS
    WatcherInSync
    ChainInSequence
    FinalizedOnce
    NoUseAfterFinalize
    MarksNeverEscape
    FramesInStep
    ReadsWhatWasWritten
    NamesLeadBack
    CreateFailsOnlyFor
    CommandsAsNamed
    NilMeansGone
PROPERTIES
    ValuesOnlyGrow
