SPECIFICATION HandSpec
CONSTANTS
    Peer = {1, 2, 3}
    StartStack = 7
    SmallBlindAmount = 1
    BigBlindAmount = 2
    MuReentrant = TRUE
    HostKnown = TRUE
    JoinInHand = TRUE
    Amounts = {3}
    Updates <- NoUpdates
    MaxJoins = 3
    MaxStarts = 1
    MaxUpdates = 0
INVARIANTS
    HandTypeOK
    PotCoversBets
PROPERTIES
    ChipsOnlyMove
    StreetEndsEven
    ClosedStaysClosed
CHECK_DEADLOCK FALSE
