-------------------------------- MODULE Lobby --------------------------------
(***************************************************************************)
(* Rooms and the end of a client, cmd/poker/main.go: creating, advertising,*)
(* finding and joining rooms, and Shutdown, which waits for goroutines.    *)
(* Of a stream only its two ends are kept (Connections has the rest), of a *)
(* room who made it and which of that client's rooms it is.  peersMu is    *)
(* there by what keeps it: broadcasts whose Write does not return.         *)
(***************************************************************************)
EXTENDS Integers, FiniteSets

CONSTANTS
    Client,
    MaxPlayersPerRoom,
    Creates,     \* how many rooms each client makes: a bound
    Leaves       \* clients that end

ASSUME ClientAssumption == IsFiniteSet(Client) /\ Leaves \subseteq Client
ASSUME RoomAssumption == MaxPlayersPerRoom \in Nat /\ Creates \in [Client -> Nat]

VARIABLES
    room,        \* currentRoom of each client
    listed,      \* its discoveredRooms
    created,     \* how many rooms it has made
    advertising, \* isAdvertising
    loop,        \* where each advertiseRoom goroutine is, one per room made
    provided,    \* the clients the DHT knows as providers of the lobby
    peers,       \* to whom each client has a stream
    opening,     \* <<c, h>>: c has opened a stream that h has yet to store
    blocked,     \* to whom a broadcast of each client cannot write, holding
                 \* peersMu.RLock
    commands,    \* the command loop "reads" the next line, is in createRoom
                 \* where it "hosts" or "advertises"
    stage        \* "running"; in Shutdown "waiting" for goroutines, then
                 \* "locking" peersMu; "closed"

rooms == <<room, listed, created>>
adverts == <<advertising, loop, provided>>
streams == <<peers, opening, blocked>>
vars == <<rooms, adverts, streams, commands, stage>>

NoRoom == <<>>
Room == Client \X (Nat \ {0})
Places == {"none", "waiting", "full", "done"}

Init ==
    /\ room = [c \in Client |-> NoRoom]
    /\ listed = [c \in Client |-> {}]
    /\ created = [c \in Client |-> 0]
    /\ advertising = [c \in Client |-> FALSE]
    /\ loop = [c \in Client |-> [n \in 1 .. Creates[c] |-> "none"]]
    /\ provided = {}
    /\ peers = [c \in Client |-> {}]
    /\ opening = {}
    /\ blocked = [c \in Client |-> {}]
    /\ commands = [c \in Client |-> "reads"]
    /\ stage = [c \in Client |-> "running"]

-----------------------------------------------------------------------------
(* Making a room and advertising it. *)

\* createRoom sets the room.  Nothing asks whether the client is in one already.
\* The command loop may do this when Shutdown, called for a signal, has begun.
CreateRoom(c) ==
    /\ commands[c] = "reads" /\ stage[c] # "closed"
    /\ created[c] < Creates[c]
    /\ created' = [created EXCEPT ![c] = @ + 1]
    /\ room' = [room EXCEPT ![c] = <<c, created'[c]>>]
    /\ commands' = [commands EXCEPT ![c] = "hosts"]
    /\ UNCHANGED <<listed, adverts, streams, stage>>

\* Then the flag.
RaiseFlag(c) ==
    /\ commands[c] = "hosts"
    /\ advertising' = [advertising EXCEPT ![c] = TRUE]
    /\ commands' = [commands EXCEPT ![c] = "advertises"]
    /\ UNCHANGED <<rooms, loop, provided, streams, stage>>

\* Then the goroutine, which advertises at once, the flag unseen.
StartAdvertising(c) ==
    /\ commands[c] = "advertises"
    /\ loop' = [loop EXCEPT ![c][created[c]] = "waiting"]
    /\ provided' = IF stage[c] = "running" THEN provided \cup {c} ELSE provided
    /\ commands' = [commands EXCEPT ![c] = "reads"]
    /\ UNCHANGED <<rooms, advertising, streams, stage>>

Players(c) == Cardinality(peers[c]) + 1

\* Mutant: one player too many.
OverFull(c) == Players(c) > MaxPlayersPerRoom

Full(c) == Players(c) >= MaxPlayersPerRoom

\* A tick of the ticker of advertiseRoom.  The flag and the count are looked at
\* one after the other, and the flag is cleared in another step.
Tick(c, n) ==
    /\ stage[c] = "running" /\ loop[c][n] = "waiting"
    /\ \/ /\ ~advertising[c] \/ room[c] = NoRoom
          /\ loop' = [loop EXCEPT ![c][n] = "done"]
          /\ UNCHANGED provided
       \/ /\ advertising[c] /\ room[c] # NoRoom /\ Full(c)
          /\ loop' = [loop EXCEPT ![c][n] = "full"]
          /\ UNCHANGED provided
       \/ /\ advertising[c] /\ room[c] # NoRoom /\ ~Full(c)
          /\ provided' = provided \cup {c}
          /\ UNCHANGED loop
    /\ UNCHANGED <<rooms, advertising, streams, commands, stage>>

\* Mutant: the goroutine ends and the flag stays.
StopSilently(c, n) ==
    /\ stage[c] # "closed" /\ loop[c][n] = "full"
    /\ loop' = [loop EXCEPT ![c][n] = "done"]
    /\ UNCHANGED <<rooms, advertising, provided, streams, commands, stage>>

StopAdvertising(c, n) ==
    /\ stage[c] # "closed" /\ loop[c][n] = "full"
    /\ advertising' = [advertising EXCEPT ![c] = FALSE]
    /\ loop' = [loop EXCEPT ![c][n] = "done"]
    /\ UNCHANGED <<rooms, provided, streams, commands, stage>>

-----------------------------------------------------------------------------
(* Finding and joining a room. *)

\* Mutant: whoever answers gives itself as the host.
RoomInfoOfAnswerer(d) == <<d, room[d][2]>>

\* handleRoomInfoRequest: the room the client is in, which need not be its own.
RoomInfo(d) == room[d]

Answers(d) == stage[d] # "closed" /\ room[d] # NoRoom

\* listPublicRooms and refreshRoomListSilently: some providers are found, and
\* those that answer make the new list.  The answer is read without a deadline: a
\* search that hangs in a provider's silence is one that never gets here.
Discover(c) ==
    /\ \E found \in SUBSET (provided \ {c}) :
          listed' = [listed EXCEPT ![c] = {RoomInfo(d) : d \in {e \in found : Answers(e)}}]
    /\ UNCHANGED <<room, created, adverts, streams, commands, stage>>

ListPublicRooms(c) == commands[c] = "reads" /\ stage[c] = "running" /\ Discover(c)

Refresh(c) ==
    /\ stage[c] = "running"
    /\ room[c] = NoRoom
    /\ Discover(c)

\* libp2p reaches any other client that has not closed its host.
Reachable(c, h) == c # h /\ stage[h] # "closed"

\* No broadcast holds peersMu.
Lock(c) == blocked[c] = {}

\* By the number of a room in the list as it is now.  Neither end looks at the
\* limit of players, or at the room this client was in or made before.
JoinRoom(c, r) ==
    /\ commands[c] = "reads" /\ stage[c] = "running"
    /\ Reachable(c, r[1])
    /\ Lock(c)
    /\ peers' = [peers EXCEPT ![c] = @ \cup {r[1]}]
    /\ opening' = opening \cup {<<c, r[1]>>}
    /\ room' = [room EXCEPT ![c] = r]
    /\ UNCHANGED <<listed, created, adverts, blocked, commands, stage>>

\* handleStream at the host stores its end.
StoreStream(h, c) ==
    /\ <<c, h>> \in opening
    /\ Lock(h)
    /\ opening' = opening \ {<<c, h>>}
    /\ peers' = [peers EXCEPT ![h] = @ \cup {c}]
    /\ UNCHANGED <<rooms, adverts, blocked, commands, stage>>

\* sendMessage comes to a recipient that does not read.
WriteBlocks(c, d) ==
    /\ stage[c] \in {"running", "waiting"}
    /\ d \in peers[c]
    /\ blocked' = [blocked EXCEPT ![c] = @ \cup {d}]
    /\ UNCHANGED <<rooms, adverts, peers, opening, commands, stage>>

\* Mutant: the peer of a failed write is removed before the lock is given back.
WriteReturnsToTheLiving(c, d) ==
    /\ stage[d] # "closed"
    /\ d \in blocked[c]
    /\ blocked' = [blocked EXCEPT ![c] = @ \ {d}]
    /\ UNCHANGED <<rooms, adverts, peers, opening, commands, stage>>

\* The Write ends: the recipient reads again, or it has closed the stream.
WriteReturns(c, d) ==
    /\ d \in blocked[c]
    /\ blocked' = [blocked EXCEPT ![c] = @ \ {d}]
    /\ UNCHANGED <<rooms, adverts, peers, opening, commands, stage>>

-----------------------------------------------------------------------------
(* The end of a client. *)

\* Shutdown begins, for a signal, beside the command loop, or because of quit, in
\* it, so that no other command comes.  The context is cancelled: nobody ticks.
ShutDown(c) ==
    /\ c \in Leaves /\ stage[c] = "running"
    /\ stage' = [stage EXCEPT ![c] = "waiting"]
    /\ UNCHANGED <<rooms, adverts, streams, commands>>

Ending(c) == stage[c] \in {"waiting", "locking"}

\* All goroutines of the WaitGroup have returned, or two seconds are over; after
\* quit, and while the command loop waits for a line, it is the two seconds.  From
\* now on peersMu.Lock waits, and no new broadcast gets the lock before it.
LockPeers(c) ==
    /\ stage[c] = "waiting"
    /\ stage' = [stage EXCEPT ![c] = "locking"]
    /\ UNCHANGED <<rooms, adverts, streams, commands>>

\* Streams, DHT and host are closed, the process ends, and nothing of the client
\* is left.
Close(c) ==
    /\ stage[c] = "locking" /\ Lock(c)
    /\ stage' = [stage EXCEPT ![c] = "closed"]
    /\ room' = [room EXCEPT ![c] = NoRoom]
    /\ listed' = [listed EXCEPT ![c] = {}]
    /\ advertising' = [advertising EXCEPT ![c] = FALSE]
    /\ loop' = [loop EXCEPT ![c] = [n \in 1 .. Creates[c] |-> "none"]]
    /\ peers' = [peers EXCEPT ![c] = {}]
    /\ opening' = {o \in opening : o[2] # c}
    /\ commands' = [commands EXCEPT ![c] = "reads"]
    /\ UNCHANGED <<created, provided, blocked>>

\* Mutant: the entry goes while a broadcast is at it.
DeleteEntryUnlocked(c, d) ==
    /\ stage[c] # "closed" /\ stage[d] = "closed"
    /\ d \in peers[c]
    /\ peers' = [peers EXCEPT ![c] = @ \ {d}]
    /\ UNCHANGED <<rooms, adverts, opening, blocked, commands, stage>>

\* The other end of a stream has closed it: the reader of the stream, or removePeer
\* after a failed write, deletes the entry.
DeleteEntry(c, d) ==
    /\ stage[c] # "closed" /\ stage[d] = "closed"
    /\ d \in peers[c] /\ Lock(c)
    /\ peers' = [peers EXCEPT ![c] = @ \ {d}]
    /\ UNCHANGED <<rooms, adverts, opening, blocked, commands, stage>>

-----------------------------------------------------------------------------

MakesRoom(c) == RaiseFlag(c) \/ StartAdvertising(c)

Advertiser(c) ==
    \E n \in 1 .. Creates[c] : Tick(c, n) \/ StopAdvertising(c, n)

Next ==
    \/ \E c \in Client : CreateRoom(c) \/ MakesRoom(c) \/ Advertiser(c)
    \/ \E c \in Client : ListPublicRooms(c) \/ Refresh(c) \/ \E r \in listed[c] : JoinRoom(c, r)
    \/ \E c, d \in Client : StoreStream(c, d) \/ WriteBlocks(c, d) \/ WriteReturns(c, d)
    \/ \E c \in Client : ShutDown(c) \/ LockPeers(c) \/ Close(c)
    \/ \E c, d \in Client : DeleteEntry(c, d)

Spec == Init /\ [][Next]_vars

\* Tickers tick, unless their goroutine may be waiting for peersMu; createRoom
\* goes on; timers run out, and a Lock that nobody prevents is had; a write to a
\* stream that the other end has closed fails.  Users, searches, and recipients
\* that go on running do as they like.
FairSpec ==
    /\ Spec
    /\ \A c \in Client :
          /\ WF_vars(Lock(c) /\ Advertiser(c)) /\ WF_vars(MakesRoom(c))
          /\ WF_vars(LockPeers(c)) /\ WF_vars(Close(c))
    /\ \A c, d \in Client : WF_vars(stage[d] = "closed" /\ WriteReturns(c, d))

-----------------------------------------------------------------------------
(* Properties. *)

TypeOK ==
    /\ room \in [Client -> Room \cup {NoRoom}]
    /\ listed \in [Client -> SUBSET Room]
    /\ created \in [Client -> Nat]
    /\ \A c \in Client : created[c] <= Creates[c]
    /\ advertising \in [Client -> BOOLEAN]
    /\ loop = [c \in Client |-> loop[c]]
    /\ \A c \in Client : loop[c] \in [1 .. Creates[c] -> Places]
    /\ peers \in [Client -> SUBSET Client]
    /\ opening \subseteq Client \X Client
    /\ blocked \in [Client -> SUBSET Client]
    /\ \A c \in Client : blocked[c] \subseteq peers[c]
    /\ provided \subseteq Client
    /\ commands \in [Client -> {"reads", "hosts", "advertises"}]
    /\ \A c \in Client : commands[c] \in {"hosts", "advertises"} => created[c] > 0
    /\ stage \in [Client -> {"running", "waiting", "locking", "closed"}]

\* Whatever passes from client to client, every room in a list and every room a
\* client is in has been made by the client it names as its host.
RoomsLeadToTheirHost ==
    \A c \in Client : \A r \in listed[c] \cup ({room[c]} \ {NoRoom}) :
        r[2] \in 1 .. created[r[1]]

\* As long as the flag says that the room is advertised a goroutine is there to
\* do it, or to take the flag down, or createRoom is about to start it: with every
\* order of ticks, new rooms and goroutines that stop for an older room.
AdvertisedByALoop ==
    \A c \in Client : advertising[c] /\ stage[c] = "running" =>
        \/ commands[c] = "advertises"
        \/ \E n \in 1 .. Creates[c] : loop[c][n] \in {"waiting", "full"}

\* "Stop advertising if room is full" (main.go): a room that stays full is
\* withdrawn, unless a recipient keeps its host from counting.
FullRoomIsWithdrawn ==
    \A c \in Client :
        advertising[c] /\ Players(c) >= MaxPlayersPerRoom
            ~> \/ ~advertising[c] \/ stage[c] # "running"
               \/ Players(c) < MaxPlayersPerRoom
               \/ ~Lock(c)

\* Only a recipient that is still there can keep a client from ending: however
\* many clients end at once, each in the middle of writing to others, the end of
\* one lets go of the next.  A recipient that stays and does not read does keep it,
\* although Shutdown has a timeout, and so do two that end while each writes to the
\* other: the timeout is over before peersMu.Lock.
ShutdownEnds ==
    \A c \in Client :
        Ending(c) ~> stage[c] = "closed" \/ \E d \in blocked[c] : stage[d] # "closed"
=============================================================================
