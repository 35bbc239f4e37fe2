CONSTANTS
    Token <- Tokens
    Loc = {1, 2}
    Item = {1, 2, 3}
    ItemName <- AwkwardItems
    LocName <- AwkwardLocs
    TheirNames <- AwkwardTheirs
    Decimal <- Decimals
    NoNumber = NoNumber
    MaxChecks = 2
    MaxNicknames = 2
SPECIFICATION PlacementsSpec
CHECK_DEADLOCK FALSE
INVARIANT DocumentedPrefixTaken
