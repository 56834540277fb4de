SPECIFICATION FairSpec
CONSTANTS
    Peer = {1, 2, 3}
    StartStack = 4
    SmallBlindAmount = 1
    BigBlindAmount = 2
    MuReentrant = FALSE
    HostKnown = TRUE
    JoinInHand = TRUE
    Amounts = {3, 4}
    Updates <- NoUpdates
    MaxJoins = 3
    MaxStarts = 1
    MaxUpdates = 0
PROPERTIES
    RoundEnds
CHECK_DEADLOCK FALSE
