SPECIFICATION FairSpec
CONSTANTS
    N = 6
    Roster <- FullRoster
    Link <- Mesh
    HostKnown = TRUE
    MayQuit <- SomeJoiners
    MaxInits = 1
    MaxStarts = 1
    MaxStep = 13
INVARIANTS
    TypeOK
    NeverSpoiled
    CountersAgree
PROPERTIES
    ShuffleCompletes
CHECK_DEADLOCK FALSE
