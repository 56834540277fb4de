SPECIFICATION FairSpec
CONSTANTS
    Remote = {r1, r2}
    Stream = {s1, s2}
    NoStream = NoStream
    Sender = {console, handler}
    Console = console
    MaxPeers = 1
INVARIANTS
    TypeOK
    EntriesHaveReaders
    TableStandsStill
    SoleStreamIsReachable
PROPERTIES
    DeadEntriesGo
CHECK_DEADLOCK FALSE
