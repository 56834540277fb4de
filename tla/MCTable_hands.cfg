SPECIFICATION FairSpec
CONSTANTS
    Peer = {1, 2, 3}
    StartStack = 4
    SmallBlindAmount = 1
    BigBlindAmount = 2
    MuReentrant = TRUE
    HostKnown = TRUE
    JoinInHand = TRUE
    Amounts = {3, 4}
    Updates <- MCUpdates
    MaxJoins = 3
    MaxStarts = 2
    MaxUpdates = 1
INVARIANTS
    TypeOK
    PotCoversBets
    IdleUntilUpdated
PROPERTIES
    ChipsOnlyMove
    StreetEndsEven
    RoundEnds
CHECK_DEADLOCK FALSE
