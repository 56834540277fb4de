SPECIFICATION Spec
CONSTANTS
    Remote = {r1, r2}
    Stream = {s1, s2}
    NoStream = NoStream
    Sender = {console, handler}
    Console = console
    MaxPeers = 2
INVARIANTS
    BroadcastReachesAll
CHECK_DEADLOCK FALSE
