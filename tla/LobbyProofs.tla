----------------------------- MODULE LobbyProofs -----------------------------
(* Rooms and advertisement, for every number of clients and rooms. *)
EXTENDS Lobby, TLAPS

\* What AdvertisedByALoop rests on: a client that advertises, or is about to raise
\* the flag, is in a room, so that a tick ends a goroutine only when the flag is down already.
AdvertInv ==
    /\ TypeOK
    /\ RoomsLeadToTheirHost
    /\ AdvertisedByALoop
    /\ \A c \in Client : advertising[c] \/ commands[c] = "hosts" => room[c] # NoRoom

LEMMA InitIsAdvert ==
    Init => AdvertInv
  BY RoomAssumption
     DEF Init, AdvertInv, TypeOK, RoomsLeadToTheirHost, AdvertisedByALoop, Room, NoRoom,
         Places

SetsLoop(c, n, v) == loop' = [loop EXCEPT ![c][n] = v]

\* Setting one goroutine's place leaves all others where they are.
LEMMA LoopSet ==
    ASSUME TypeOK, NEW c \in Client, NEW n \in 1 .. Creates[c],
           NEW v \in Places,
           SetsLoop(c, n, v)
    PROVE  /\ loop' = [d \in Client |-> loop'[d]]
           /\ \A d \in Client :
                 loop'[d] \in [1 .. Creates[d] -> Places]
           /\ loop'[c][n] = v
           /\ \A d \in Client : \A m \in 1 .. Creates[d] :
                 d # c \/ m # n => loop'[d][m] = loop[d][m]
<1>1. /\ loop = [d \in Client |-> loop[d]]
      /\ \A d \in Client :
            loop[d] \in [1 .. Creates[d] -> Places]
  BY DEF TypeOK
<1>2. /\ \A d \in Client \ {c} : loop'[d] = loop[d]
      /\ loop'[c] = [loop[c] EXCEPT ![n] = v]
  BY <1>1 DEF SetsLoop
<1>3. loop' = [d \in Client |-> loop'[d]]
  BY <1>1 DEF SetsLoop
<1>4. loop'[c] \in [1 .. Creates[c] -> Places]
  BY <1>1, <1>2
<1>5. loop'[c][n] = v /\ \A m \in 1 .. Creates[c] : m # n => loop'[c][m] = loop[c][m]
  BY <1>1, <1>2
<1> QED
  BY <1>1, <1>2, <1>3, <1>4, <1>5

\* The rooms others answer with have been made, if those they are in have.
LEMMA AnswersWereMade ==
    ASSUME AdvertInv, NEW found \in SUBSET Client
    PROVE  \A r \in {RoomInfo(d) : d \in {e \in found : Answers(e)}} :
              r \in Room /\ r[2] \in 1 .. created[r[1]]
  BY DEF AdvertInv, TypeOK, RoomsLeadToTheirHost, RoomInfo, Answers

LEMMA DiscoverKeepsAdvert ==
    ASSUME AdvertInv, NEW c \in Client, Discover(c)
    PROVE  AdvertInv'
<1>1. PICK found \in SUBSET (provided \ {c}) :
        listed' = [listed EXCEPT ![c] =
                      {RoomInfo(d) : d \in {e \in found : Answers(e)}}]
  BY DEF Discover
<1>2. found \in SUBSET Client
  BY DEF AdvertInv, TypeOK
<1> DEFINE new == {RoomInfo(d) : d \in {e \in found : Answers(e)}}
<1>3. \A r \in new : r \in Room /\ r[2] \in 1 .. created[r[1]]
  BY <1>2, AnswersWereMade
<1> HIDE DEF new
<1>4. TypeOK'
  BY <1>1, <1>3 DEF Discover, AdvertInv, TypeOK, new, adverts, streams
<1>5. RoomsLeadToTheirHost'
  <2>1. /\ \A d \in Client : listed'[d] = IF d = c THEN new ELSE listed[d]
        /\ room' = room /\ created' = created
    <3>1. listed' = [listed EXCEPT ![c] = new]
      BY <1>1 DEF new
    <3>2. listed \in [Client -> SUBSET Room] /\ room' = room /\ created' = created
      BY DEF Discover, AdvertInv, TypeOK
    <3> QED  BY <3>1, <3>2
  <2> QED
    BY <1>3, <2>1 DEF AdvertInv, RoomsLeadToTheirHost
<1> QED
  BY <1>4, <1>5 DEF Discover, AdvertInv, AdvertisedByALoop, adverts

LEMMA CreateKeepsAdvert ==
    ASSUME AdvertInv, NEW c \in Client, CreateRoom(c)
    PROVE  AdvertInv'
<1> DEFINE nr == created[c] + 1
<1>1. nr \in 1 .. Creates[c] /\ nr \in Nat \ {0}
  <2>1. created[c] \in Nat /\ Creates[c] \in Nat /\ created[c] < Creates[c]
    BY RoomAssumption DEF AdvertInv, TypeOK, CreateRoom
  <2> QED  BY <2>1
<1>2. /\ created' = [created EXCEPT ![c] = nr]
      /\ room' = [room EXCEPT ![c] = <<c, nr>>]
      /\ commands' = [commands EXCEPT ![c] = "hosts"]
      /\ UNCHANGED <<listed, adverts, streams, stage>>
  <2>1. created'[c] = nr
    BY DEF CreateRoom, AdvertInv, TypeOK
  <2> QED  BY <2>1 DEF CreateRoom
<1> HIDE DEF nr
<1>3. \A d \in Client : /\ created'[d] = IF d = c THEN nr ELSE created[d]
                        /\ room'[d] = IF d = c THEN <<c, nr>> ELSE room[d]
                        /\ commands'[d] = IF d = c THEN "hosts" ELSE commands[d]
  BY <1>2 DEF AdvertInv, TypeOK
<1>4. <<c, nr>> \in Room /\ <<c, nr>> # NoRoom
  BY <1>1 DEF Room, NoRoom
<1>5. TypeOK'
  BY <1>1, <1>2, <1>3, <1>4 DEF AdvertInv, TypeOK, adverts, streams
<1>6. RoomsLeadToTheirHost'
  <2> SUFFICES ASSUME NEW d \in Client, NEW r \in listed'[d] \cup ({room'[d]} \ {NoRoom})
               PROVE  r[2] \in 1 .. created'[r[1]]
    BY DEF RoomsLeadToTheirHost
  <2>1. CASE r \in listed[d] \cup ({room[d]} \ {NoRoom})
    <3>1. r \in Room /\ r[2] \in 1 .. created[r[1]]
      BY <2>1 DEF AdvertInv, TypeOK, RoomsLeadToTheirHost
    <3>2. r[1] \in Client /\ created[r[1]] \in Nat
      BY <3>1 DEF Room, AdvertInv, TypeOK
    <3>3. created'[r[1]] \in Nat /\ created'[r[1]] >= created[r[1]]
      BY <1>1, <1>3, <3>2 DEF nr
    <3> QED  BY <3>1, <3>2, <3>3
  <2>2. CASE r = <<c, nr>>
    BY <1>1, <1>3, <2>2
  <2> QED
    BY <1>2, <1>3, <2>1, <2>2
<1>7. AdvertisedByALoop'
  BY <1>2, <1>3 DEF AdvertInv, AdvertisedByALoop, CreateRoom, adverts
<1>8. \A d \in Client : advertising'[d] \/ commands'[d] = "hosts" => room'[d] # NoRoom
  BY <1>2, <1>3, <1>4 DEF AdvertInv, adverts
<1> QED
  BY <1>5, <1>6, <1>7, <1>8 DEF AdvertInv

LEMMA RaiseFlagKeepsAdvert ==
    ASSUME AdvertInv, NEW c \in Client, RaiseFlag(c)
    PROVE  AdvertInv'
<1>1. /\ UNCHANGED <<room, listed, created, loop, provided, streams, stage>>
      /\ \A d \in Client :
            /\ advertising'[d] = (d = c \/ advertising[d])
            /\ commands'[d] = IF d = c THEN "advertises" ELSE commands[d]
  BY DEF RaiseFlag, AdvertInv, TypeOK, rooms
<1>2. TypeOK'
  BY <1>1 DEF RaiseFlag, AdvertInv, TypeOK, rooms, streams
<1>3. RoomsLeadToTheirHost'
  BY <1>1 DEF AdvertInv, RoomsLeadToTheirHost
<1>4. AdvertisedByALoop'
  BY <1>1 DEF AdvertInv, AdvertisedByALoop
<1>5. \A d \in Client : advertising'[d] \/ commands'[d] = "hosts" => room'[d] # NoRoom
  BY <1>1 DEF RaiseFlag, AdvertInv
<1> QED
  BY <1>2, <1>3, <1>4, <1>5 DEF AdvertInv

LEMMA StartAdvertisingKeepsAdvert ==
    ASSUME AdvertInv, NEW c \in Client, StartAdvertising(c)
    PROVE  AdvertInv'
<1>1. created[c] \in 1 .. Creates[c]
  BY RoomAssumption DEF StartAdvertising, AdvertInv, TypeOK
<1>2. /\ SetsLoop(c, created[c], "waiting")
      /\ provided' \in {provided, provided \cup {c}}
      /\ UNCHANGED <<room, listed, created, advertising, streams, stage>>
      /\ \A d \in Client : commands'[d] = IF d = c THEN "reads" ELSE commands[d]
  BY DEF StartAdvertising, SetsLoop, AdvertInv, TypeOK, rooms
<1>3. /\ loop' = [d \in Client |-> loop'[d]]
      /\ \A d \in Client : loop'[d] \in [1 .. Creates[d] -> Places]
      /\ loop'[c][created[c]] = "waiting"
      /\ \A d \in Client : \A m \in 1 .. Creates[d] : d # c => loop'[d][m] = loop[d][m]
  BY <1>1, <1>2, LoopSet DEF AdvertInv, Places
<1>4. TypeOK'
  BY <1>2, <1>3 DEF StartAdvertising, AdvertInv, TypeOK, streams
<1>5. RoomsLeadToTheirHost'
  BY <1>2 DEF AdvertInv, RoomsLeadToTheirHost
<1>6. AdvertisedByALoop'
  <2> SUFFICES ASSUME NEW d \in Client, advertising'[d], stage'[d] = "running"
               PROVE  \/ commands'[d] = "advertises"
                      \/ \E n \in 1 .. Creates[d] : loop'[d][n] \in {"waiting", "full"}
    BY DEF AdvertisedByALoop
  <2>1. CASE d = c
    BY <1>1, <1>3, <2>1
  <2>2. CASE d # c
    BY <1>2, <1>3, <2>2 DEF AdvertInv, AdvertisedByALoop
  <2> QED  BY <2>1, <2>2
<1> QED
  BY <1>2, <1>4, <1>5, <1>6 DEF AdvertInv

LEMMA AdvertiserKeepsAdvert ==
    ASSUME AdvertInv, NEW c \in Client, NEW n \in 1 .. Creates[c],
           Tick(c, n) \/ StopAdvertising(c, n)
    PROVE  AdvertInv'
<1>1. /\ UNCHANGED <<room, listed, created, streams, commands, stage>>
      /\ provided' \in {provided, provided \cup {c}}
      /\ advertising' \in {advertising, [advertising EXCEPT ![c] = FALSE]}
  BY DEF Tick, StopAdvertising, rooms
\* Either the goroutine goes on, or it is about to take the flag down, or the
\* flag is down, or the client is ending.
<1>2. PICK v \in Places :
        /\ loop' = loop \/ SetsLoop(c, n, v)
        /\ loop' = loop \/ v \in {"waiting", "full"} \/ ~advertising'[c]
              \/ stage'[c] # "running"
  <2>1. CASE Tick(c, n)
    BY <2>1 DEF Tick, AdvertInv, SetsLoop, Places
  <2>2. CASE StopAdvertising(c, n)
    <3>1. ~advertising'[c]
      BY <2>2 DEF StopAdvertising, AdvertInv, TypeOK
    <3> QED  BY <2>2, <3>1 DEF StopAdvertising, SetsLoop, Places
  <2> QED  BY <2>1, <2>2
<1>3. TypeOK'
  <2>1. /\ loop' = [d \in Client |-> loop'[d]]
        /\ \A d \in Client :
              loop'[d] \in [1 .. Creates[d] -> Places]
    <3>1. CASE loop' = loop
      BY <3>1 DEF AdvertInv, TypeOK
    <3>2. CASE SetsLoop(c, n, v)
      BY <3>2, LoopSet DEF AdvertInv
    <3> QED  BY <1>2, <3>1, <3>2
  <2> QED  BY <1>1, <2>1 DEF AdvertInv, TypeOK, streams
<1>4. RoomsLeadToTheirHost'
  BY <1>1 DEF AdvertInv, RoomsLeadToTheirHost
<1>5. \A d \in Client : advertising'[d] => advertising[d]
  BY <1>1 DEF AdvertInv, TypeOK
<1>6. AdvertisedByALoop'
  <2> SUFFICES ASSUME NEW d \in Client, advertising'[d], stage'[d] = "running"
               PROVE  \/ commands'[d] = "advertises"
                      \/ \E m \in 1 .. Creates[d] : loop'[d][m] \in {"waiting", "full"}
    BY DEF AdvertisedByALoop
  <2>0. CASE commands[d] = "advertises"
    BY <1>1, <2>0
  <2> SUFFICES ASSUME commands[d] # "advertises"
               PROVE  \E m \in 1 .. Creates[d] : loop'[d][m] \in {"waiting", "full"}
    BY <2>0
  <2>1. PICK m \in 1 .. Creates[d] : loop[d][m] \in {"waiting", "full"}
    BY <1>1, <1>5 DEF AdvertInv, AdvertisedByALoop
  <2>2. CASE loop' = loop
    BY <2>1, <2>2
  <2>3. CASE loop' # loop
    <3>1. SetsLoop(c, n, v)
      BY <1>2, <2>3
    <3>2. CASE d = c
      <4>1. loop'[c][n] = v
        BY <3>1, LoopSet DEF AdvertInv
      <4>2. v \in {"waiting", "full"}
        BY <1>2, <2>3, <3>2
      <4> QED  BY <3>2, <4>1, <4>2
    <3>3. CASE d # c
      BY <2>1, <3>1, <3>3, LoopSet DEF AdvertInv
    <3> QED  BY <3>2, <3>3
  <2> QED  BY <2>2, <2>3
<1> QED
  BY <1>1, <1>3, <1>4, <1>5, <1>6 DEF AdvertInv

\* Joining another's room leaves the flag and the goroutines of one's own.
LEMMA JoinKeepsAdvert ==
    ASSUME AdvertInv, NEW c \in Client, NEW r \in listed[c], JoinRoom(c, r)
    PROVE  AdvertInv'
<1>1. /\ r \in Room /\ r[1] \in Client /\ r # NoRoom
      /\ r[2] \in 1 .. created[r[1]]
  BY DEF AdvertInv, TypeOK, RoomsLeadToTheirHost, Room, NoRoom
<1>2. /\ peers' = [peers EXCEPT ![c] = peers[c] \cup {r[1]}]
      /\ opening' = opening \cup {<<c, r[1]>>}
      /\ room' = [room EXCEPT ![c] = r]
      /\ UNCHANGED <<listed, created, adverts, blocked, commands, stage>>
  BY DEF JoinRoom
<1>3. \A d \in Client : peers'[d] = IF d = c THEN peers[d] \cup {r[1]} ELSE peers[d]
  BY <1>2 DEF AdvertInv, TypeOK
<1>4. \A d \in Client : room'[d] = IF d = c THEN r ELSE room[d]
  BY <1>2 DEF AdvertInv, TypeOK
<1>5. TypeOK'
  BY <1>1, <1>2, <1>3, <1>4 DEF AdvertInv, TypeOK, adverts
<1>6. RoomsLeadToTheirHost'
  BY <1>1, <1>2, <1>4 DEF AdvertInv, RoomsLeadToTheirHost
<1> QED
  BY <1>1, <1>2, <1>4, <1>5, <1>6 DEF AdvertInv, AdvertisedByALoop, adverts

\* Streams that are stored, blocked or closed touch neither rooms nor flags.
LEMMA StreamsKeepAdvert ==
    ASSUME AdvertInv, NEW c \in Client, NEW d \in Client,
           \/ StoreStream(c, d) \/ WriteBlocks(c, d) \/ WriteReturns(c, d)
           \/ DeleteEntry(c, d)
    PROVE  AdvertInv'
<1>1. UNCHANGED <<rooms, adverts, commands, stage>>
  BY DEF StoreStream, WriteBlocks, WriteReturns, DeleteEntry
<1>2. /\ peers' \in [Client -> SUBSET Client] /\ blocked' \in [Client -> SUBSET Client]
      /\ opening' \subseteq Client \X Client
      /\ \A e \in Client : blocked'[e] \subseteq peers'[e]
  <2> USE DEF AdvertInv, TypeOK
  <2>1. CASE StoreStream(c, d)  BY <2>1 DEF StoreStream
  <2>2. CASE WriteBlocks(c, d)  BY <2>2 DEF WriteBlocks
  <2>3. CASE WriteReturns(c, d)  BY <2>3 DEF WriteReturns
  <2>4. CASE DeleteEntry(c, d)  BY <2>4 DEF DeleteEntry, Lock
  <2> QED  BY <2>1, <2>2, <2>3, <2>4
<1> QED
  BY <1>1, <1>2
     DEF AdvertInv, TypeOK, RoomsLeadToTheirHost, AdvertisedByALoop, rooms, adverts

LEMMA EndingKeepsAdvert ==
    ASSUME AdvertInv, NEW c \in Client, ShutDown(c) \/ LockPeers(c) \/ Close(c)
    PROVE  AdvertInv'
<1> USE DEF AdvertInv, TypeOK, RoomsLeadToTheirHost, AdvertisedByALoop,
            rooms, adverts, streams
<1>1. CASE ShutDown(c)  BY <1>1 DEF ShutDown
<1>2. CASE LockPeers(c)  BY <1>2 DEF LockPeers
<1>3. CASE Close(c)  BY <1>3 DEF Close, Lock, NoRoom, Places
<1> QED
  BY <1>1, <1>2, <1>3

LEMMA StepKeepsAdvert ==
    AdvertInv /\ [Next]_vars => AdvertInv'
<1> SUFFICES ASSUME AdvertInv, [Next]_vars
             PROVE  AdvertInv'
  OBVIOUS
<1>1. ASSUME NEW c \in Client, CreateRoom(c) \/ MakesRoom(c) \/ Advertiser(c)
      PROVE  AdvertInv'
  BY <1>1, CreateKeepsAdvert, RaiseFlagKeepsAdvert, StartAdvertisingKeepsAdvert,
     AdvertiserKeepsAdvert
     DEF MakesRoom, Advertiser
<1>2. ASSUME NEW c \in Client,
             ListPublicRooms(c) \/ Refresh(c) \/ \E r \in listed[c] : JoinRoom(c, r)
      PROVE  AdvertInv'
  BY <1>2, DiscoverKeepsAdvert, JoinKeepsAdvert DEF ListPublicRooms, Refresh
<1>3. ASSUME NEW c \in Client, ShutDown(c) \/ LockPeers(c) \/ Close(c)
      PROVE  AdvertInv'
  BY <1>3, EndingKeepsAdvert
<1>4. ASSUME NEW c \in Client, NEW d \in Client,
             \/ StoreStream(c, d) \/ WriteBlocks(c, d) \/ WriteReturns(c, d)
             \/ DeleteEntry(c, d)
      PROVE  AdvertInv'
  BY <1>4, StreamsKeepAdvert
<1>5. CASE UNCHANGED vars
  BY <1>5
     DEF vars, rooms, adverts, streams,
         AdvertInv, TypeOK, RoomsLeadToTheirHost, AdvertisedByALoop
<1> QED
  BY <1>1, <1>2, <1>3, <1>4, <1>5 DEF Next

\* Lists, flags, goroutines and streams keep their types; a broadcast that hangs
\* hangs at an entry of the table.
THEOREM LobbyTypes ==
    Spec => []TypeOK
<1>1. AdvertInv => TypeOK
  BY DEF AdvertInv
<1> QED
  BY <1>1, InitIsAdvert, StepKeepsAdvert, PTL DEF Spec

\* Through any number of clients that pass on each other's rooms, a room names
\* the client that made it.
THEOREM RoomsAlwaysLeadToTheirHost ==
    Spec => []RoomsLeadToTheirHost
<1>1. AdvertInv => RoomsLeadToTheirHost
  BY DEF AdvertInv
<1> QED
  BY <1>1, InitIsAdvert, StepKeepsAdvert, PTL DEF Spec

\* No order of rooms made and goroutines stopped leaves a flag that nobody
\* serves.
THEOREM AdvertsAreServed ==
    Spec => []AdvertisedByALoop
<1>1. AdvertInv => AdvertisedByALoop
  BY DEF AdvertInv
<1> QED
  BY <1>1, InitIsAdvert, StepKeepsAdvert, PTL DEF Spec
=============================================================================
