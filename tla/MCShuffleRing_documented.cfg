SPECIFICATION Spec
CONSTANTS
    N = 3
    Roster <- FullRoster
    Link <- Mesh
    HostKnown = TRUE
    MayQuit <- Nobody
    MaxInits = 1
    MaxStarts = 1
    MaxStep = 7
INVARIANTS
    ShuffledAsDocumented
CHECK_DEADLOCK FALSE
