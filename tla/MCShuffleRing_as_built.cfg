SPECIFICATION FairSpec
CONSTANTS
    N = 3
    Roster <- BuiltRoster
    Link <- Star
    HostKnown = FALSE
    MayQuit <- Nobody
    MaxInits = 0
    MaxStarts = 1
    MaxStep = 7
PROPERTIES
    ShuffleCompletes
CHECK_DEADLOCK FALSE
