SPECIFICATION FairSpec
CONSTANTS
    Client = {1, 2}
    MaxPlayersPerRoom = 2
    Creates <- MCCreates
    Leaves = {1, 2}
INVARIANTS
    TypeOK
    RoomsLeadToTheirHost
    AdvertisedByALoop
PROPERTIES
    FullRoomIsWithdrawn
    ShutdownEnds
CHECK_DEADLOCK FALSE
