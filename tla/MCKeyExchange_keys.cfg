SPECIFICATION Spec
CONSTANTS
    N = 3
    Roster <- OneSeat
    Link <- Mesh
    InHand = {1}
    DealtLayers <- LayersOfOthers
    SuitBytes = 1
    HoleCards = 1
    Laps = 1
    MaxStarts = 2
INVARIANTS
    TypeOK
    QuietMeansOpened
PROPERTIES
    NeverOpenedEarly
CHECK_DEADLOCK FALSE
