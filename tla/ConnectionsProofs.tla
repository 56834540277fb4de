-------------------------- MODULE ConnectionsProofs --------------------------
(* Proofs about Connections, for any number of peers, streams and senders. *)
EXTENDS Connections, FiniteSetTheorems, TLAPS

\* Who holds peersMu for reading.
Readers == {g \in Sender : sender[g].at = "all"}

\* All the variables have their types but readLocks, which is the number of
\* those who hold the lock: so it is never given back once too often.
LocksTyped ==
    /\ peers \in [Remote -> Stream \cup {NoStream}]
    /\ state \in [Stream -> States]
    /\ remote \in [Stream -> Remote]
    /\ open \subseteq Stream /\ stalled \subseteq Stream
    /\ sender \in [Sender -> Senders]
    /\ lockWaits \in BOOLEAN
LockInv == LocksTyped /\ readLocks = Cardinality(Readers)

LEMMA ReadersAreFinite == IsFiniteSet(Readers) /\ Cardinality(Readers) \in Nat
<1>1. IsFiniteSet(Readers)
    BY SenderAssumption, FS_Subset DEF Readers
<1>. QED BY <1>1, FS_CardinalityType

LEMMA LockInvImplies ==
    ASSUME LockInv
    PROVE  /\ TypeOK
           /\ \A g \in Sender : sender[g].at = "all" => readLocks > 0
<1>1. Cardinality(Readers) \in Nat /\ IsFiniteSet(Readers)
    BY ReadersAreFinite
<1>2. ASSUME NEW g \in Sender, sender[g].at = "all" PROVE readLocks > 0
    <2>1. g \in Readers
        BY <1>2 DEF Readers
    <2>2. Cardinality(Readers) # 0
        BY <1>1, <2>1, FS_EmptySet
    <2>. QED BY <1>1, <2>2 DEF LockInv
<1>. QED BY <1>1, <1>2 DEF LockInv, LocksTyped, TypeOK

\* The steps of the streams and of the other end change no sender.
LEMMA StreamStepsKeepTypes ==
    ASSUME LocksTyped,
           \/ \E s \in Stream : Inbound(s) \/ Outbound(s) \/ ReaderEnds(s)
           \/ \E s \in Stream : Drop(s) \/ Stall(s)
           \/ WaitForLock
           \/ UNCHANGED vars
    PROVE  LocksTyped' /\ UNCHANGED <<sender, readLocks>>
<1>. USE DEF LocksTyped, States
<1>1. ASSUME NEW s \in Stream, Inbound(s)
      PROVE  LocksTyped' /\ UNCHANGED <<sender, readLocks>>
    <2>1. CASE Accept(s)
        BY <2>1 DEF Accept, locks
    <2>2. CASE Reject(s)
        BY <2>2 DEF Reject, locks
    <2>3. CASE Store(s)
        BY <2>3 DEF Store, Lock
    <2>. QED BY <1>1, <2>1, <2>2, <2>3 DEF Inbound
<1>2. ASSUME NEW s \in Stream, Outbound(s)
      PROVE  LocksTyped' /\ UNCHANGED <<sender, readLocks>>
    <2>1. CASE JoinRoom(s)
        BY <2>1 DEF JoinRoom, Lock
    <2>2. CASE StartReader(s)
        BY <2>2 DEF StartReader, locks
    <2>. QED BY <1>2, <2>1, <2>2 DEF Outbound
<1>3. ASSUME NEW s \in Stream, ReaderEnds(s)
      PROVE  LocksTyped' /\ UNCHANGED <<sender, readLocks>>
    BY <1>3 DEF ReaderEnds, ScannerStops, CleanUp, Lock, locks
<1>4. ASSUME NEW s \in Stream, Drop(s) \/ Stall(s)
      PROVE  LocksTyped' /\ UNCHANGED <<sender, readLocks>>
    BY <1>4 DEF Drop, Stall, locks
<1>5. CASE WaitForLock \/ UNCHANGED vars
    BY <1>5 DEF WaitForLock, vars, locks
<1>. QED BY <1>1, <1>2, <1>3, <1>4, <1>5

\* One sender's step adds it to the readers, takes it from them, or neither.
LEMMA SenderStepsKeepTypes ==
    ASSUME LocksTyped, NEW g \in Sender,
           \/ Broadcast(g) \/ Writes(g) \/ Removes(g)
           \/ \E r \in Remote : SendToPeer(g, r)
    PROVE  /\ LocksTyped'
           /\ \/ Readers' = Readers /\ readLocks' = readLocks
              \/ g \notin Readers /\ Readers' = Readers \cup {g} /\ readLocks' = readLocks + 1
              \/ g \in Readers /\ Readers' = Readers \ {g} /\ readLocks' = readLocks - 1
<1>. USE DEF LocksTyped, Senders
<1>1. CASE Broadcast(g)
    <2>1. {peers[r] : r \in Connected} \subseteq Stream
        BY DEF Connected
    <2>2. LocksTyped'
        BY <1>1, <2>1 DEF Broadcast, States
    <2>3. g \notin Readers /\ Readers' = Readers \cup {g} /\ readLocks' = readLocks + 1
        BY <1>1 DEF Broadcast, Readers, Idle
    <2>. QED BY <2>2, <2>3
<1>2. ASSUME NEW r \in Remote, SendToPeer(g, r)
      PROVE  LocksTyped' /\ Readers' = Readers /\ readLocks' = readLocks
    <2>1. peers[r] \in Stream
        BY <1>2 DEF SendToPeer, Connected
    <2>2. LocksTyped'
        BY <1>2, <2>1 DEF SendToPeer, locks
    <2>3. Readers' = Readers /\ readLocks' = readLocks
        BY <1>2 DEF SendToPeer, Readers, Idle, locks
    <2>. QED BY <2>2, <2>3
<1>3. ASSUME NEW s \in Stream, Write(g, s) \/ WriteFails(g, s)
      PROVE  LocksTyped' /\ Readers' = Readers /\ readLocks' = readLocks
    BY <1>3 DEF Write, WriteFails, Readers, locks
<1>4. CASE Written(g)
    <2>1. LocksTyped'
        BY <1>4 DEF Written
    <2>2. CASE sender[g].at = "all"
        BY <1>4, <2>1, <2>2 DEF Written, Readers
    <2>3. CASE sender[g].at = "one"
        BY <1>4, <2>1, <2>3 DEF Written, Readers
    <2>. QED BY <1>4, <2>2, <2>3 DEF Written
<1>5. ASSUME NEW r \in Remote, RemovePeer(g, r)
      PROVE  LocksTyped' /\ Readers' = Readers /\ readLocks' = readLocks
    BY <1>5 DEF RemovePeer, Readers, Lock
<1>. QED BY <1>1, <1>2, <1>3, <1>4, <1>5 DEF Writes, Removes

LEMMA NextKeepsLockInv == LockInv /\ [Next]_vars => LockInv'
<1>. SUFFICES ASSUME LockInv, [Next]_vars PROVE LockInv'
    OBVIOUS
<1>0. LocksTyped /\ readLocks = Cardinality(Readers)
    BY DEF LockInv
<1>1. CASE \/ \E s \in Stream : Inbound(s) \/ Outbound(s) \/ ReaderEnds(s)
           \/ \E s \in Stream : Drop(s) \/ Stall(s)
           \/ WaitForLock
           \/ UNCHANGED vars
    <2>1. LocksTyped' /\ UNCHANGED <<sender, readLocks>>
        BY <1>0, <1>1, StreamStepsKeepTypes
    <2>. QED BY <1>0, <2>1 DEF LockInv, Readers
<1>2. ASSUME NEW g \in Sender,
             \/ Broadcast(g) \/ Writes(g) \/ Removes(g)
             \/ \E r \in Remote : SendToPeer(g, r)
      PROVE  LockInv'
    <2>1. /\ LocksTyped'
          /\ \/ Readers' = Readers /\ readLocks' = readLocks
             \/ g \notin Readers /\ Readers' = Readers \cup {g} /\ readLocks' = readLocks + 1
             \/ g \in Readers /\ Readers' = Readers \ {g} /\ readLocks' = readLocks - 1
        BY <1>0, <1>2, SenderStepsKeepTypes
    <2>2. IsFiniteSet(Readers) /\ Cardinality(Readers) \in Nat
        BY ReadersAreFinite
    <2>3. g \notin Readers => Cardinality(Readers \cup {g}) = Cardinality(Readers) + 1
        BY <2>2, FS_AddElement
    <2>4. g \in Readers => Cardinality(Readers \ {g}) = Cardinality(Readers) - 1
        BY <2>2, FS_RemoveElement
    <2>. QED BY <1>0, <2>1, <2>2, <2>3, <2>4 DEF LockInv
<1>. QED BY <1>1, <1>2 DEF Next

LEMMA AlwaysLockInv == Spec => []LockInv
<1>1. Init => LockInv
    <2>. SUFFICES ASSUME Init PROVE LockInv
        OBVIOUS
    <2>1. Readers = {}
        BY DEF Init, Readers, Idle
    <2>2. LocksTyped
        BY DEF Init, LocksTyped, States, Senders, Idle
    <2>. QED BY <2>1, <2>2, FS_EmptySet DEF LockInv, Init
<1>. QED BY <1>1, NextKeepsLockInv, PTL DEF Spec

\* The table, the readers and the senders keep their types: in particular
\* peersMu is not given back more often than it was taken, which would end the
\* process.
THEOREM ConnectionsTyped == Spec => []TypeOK
<1>1. LockInv => TypeOK
    BY LockInvImplies
<1>. QED BY <1>1, AlwaysLockInv, PTL

-----------------------------------------------------------------------------
(* The entries of the table. *)

\* No entry outlives the reader of its stream, or the joinRoom that has yet to
\* start it, however many streams a peer opens and whatever order their readers
\* stop in.
THEOREM EntriesAlwaysHaveReaders == Spec => []EntriesHaveReaders
<1>1. Init => EntriesHaveReaders
    BY DEF Init, EntriesHaveReaders
<1>2. TypeOK /\ EntriesHaveReaders /\ [Next]_vars => EntriesHaveReaders'
    <2>. SUFFICES ASSUME TypeOK, EntriesHaveReaders, [Next]_vars
                  PROVE  EntriesHaveReaders'
        OBVIOUS
    <2>. USE StreamAssumption DEF TypeOK, EntriesHaveReaders
    <2>1. ASSUME NEW s \in Stream, Inbound(s) PROVE EntriesHaveReaders'
        BY <2>1 DEF Inbound, Accept, Reject, Store
    <2>2. ASSUME NEW s \in Stream, Outbound(s) PROVE EntriesHaveReaders'
        BY <2>2 DEF Outbound, JoinRoom, StartReader
    <2>3. ASSUME NEW s \in Stream, ScannerStops(s) \/ Drop(s) \/ Stall(s)
          PROVE  EntriesHaveReaders'
        BY <2>3 DEF ScannerStops, Drop, Stall
    <2>4. ASSUME NEW s \in Stream, CleanUp(s) PROVE EntriesHaveReaders'
        BY <2>4 DEF CleanUp
    <2>5. ASSUME NEW g \in Sender, Broadcast(g) PROVE EntriesHaveReaders'
        BY <2>5 DEF Broadcast
    <2>6. ASSUME NEW g \in Sender, NEW r \in Remote, RemovePeer(g, r)
          PROVE  EntriesHaveReaders'
        BY <2>6 DEF RemovePeer
    <2>7. ASSUME NEW g \in Sender,
                 Writes(g) \/ \E r \in Remote : SendToPeer(g, r)
          PROVE  EntriesHaveReaders'
        BY <2>7 DEF Writes, Written, Write, WriteFails, SendToPeer
    <2>8. CASE WaitForLock \/ UNCHANGED vars
        BY <2>8 DEF vars, WaitForLock
    <2>. QED BY <2>1, <2>2, <2>3, <2>4, <2>5, <2>6, <2>7, <2>8
             DEF Next, ReaderEnds, Removes
<1>. QED BY <1>1, <1>2, ConnectionsTyped, PTL DEF Spec

\* Whoever changes the table holds the lock that the loop of sendMessage would
\* keep it from, for any number of senders.
THEOREM TableKeepsStill == Spec => []TableStandsStill
<1>1. Init => TableStandsStill
    BY DEF Init, TableStandsStill, Idle
<1>2. LockInv /\ TableStandsStill /\ [Next]_vars => TableStandsStill'
    <2>. SUFFICES ASSUME LockInv, TableStandsStill, [Next]_vars,
                         NEW g \in Sender, sender'[g].at = "all"
                  PROVE  sender'[g].todo \subseteq {peers'[r] : r \in Remote}
        BY DEF TableStandsStill
    <2>0. TypeOK /\ (sender[g].at = "all" => readLocks > 0)
        BY LockInvImplies
    <2>. USE DEF TypeOK, Senders
    \* g has just looked the entries up ...
    <2>1. CASE Broadcast(g)
        BY <2>0, <2>1 DEF Broadcast, Connected
    \* ... or was already at it, and has fewer to write to.
    <2>2. CASE ~Broadcast(g)
        <3>1. ASSUME sender'[g] = sender[g], peers' = peers \/ Lock
              PROVE  sender'[g].todo \subseteq {peers'[r] : r \in Remote}
            BY <2>0, <3>1 DEF TableStandsStill, Lock
        <3>2. ASSUME NEW s \in Stream,
                     Inbound(s) \/ Outbound(s) \/ ReaderEnds(s) \/ Drop(s) \/ Stall(s)
              PROVE  sender' = sender /\ (peers' = peers \/ Lock)
            BY <3>2 DEF Inbound, Outbound, ReaderEnds, Accept, Reject, Store, JoinRoom,
                        StartReader, ScannerStops, CleanUp, Drop, Stall
        <3>3. CASE WaitForLock \/ UNCHANGED vars
            BY <3>1, <3>3 DEF WaitForLock, vars
        <3>4. ASSUME NEW h \in Sender \ {g},
                     \/ Broadcast(h) \/ Writes(h) \/ Removes(h)
                     \/ \E r \in Remote : SendToPeer(h, r)
              PROVE  sender'[g] = sender[g] /\ (peers' = peers \/ Lock)
            BY <2>0, <3>4 DEF Broadcast, Writes, Removes, SendToPeer, Write, WriteFails,
                              Written, RemovePeer
        <3>5. ASSUME NEW s \in Stream, Write(g, s) \/ WriteFails(g, s)
              PROVE  sender'[g].todo \subseteq {peers'[r] : r \in Remote}
            <4>1. /\ sender[g].at = "all" /\ peers' = peers
                  /\ sender'[g].todo \subseteq sender[g].todo
                BY <2>0, <3>5 DEF Write, WriteFails
            <4>. QED BY <4>1 DEF TableStandsStill
        <3>6. ~Written(g) /\ (\A r \in Remote : ~SendToPeer(g, r) /\ ~RemovePeer(g, r))
            BY <2>0 DEF Written, SendToPeer, RemovePeer
        <3>. QED BY <2>2, <3>1, <3>2, <3>3, <3>4, <3>5, <3>6 DEF Next, Writes, Removes
    <2>. QED BY <2>1, <2>2
<1>. QED BY <1>1, <1>2, AlwaysLockInv, PTL DEF Spec

-----------------------------------------------------------------------------
(* A peer with one stream. *)

\* From the moment its stream is stored, not only from its reader's start.
SoleInv ==
    \A s \in Stream :
        /\ state[s] \in {"stored", "joining", "reading"} /\ s \in open
        /\ \A t \in Stream \ {s} : remote[t] = remote[s] => state[t] = "unused"
        => peers[remote[s]] = s

\* Without a second stream of the same peer, nothing another peer or a sender
\* does takes a reachable peer out of the table.
THEOREM SoleStreamStaysReachable == Spec => []SoleStreamIsReachable
<1>1. Init => SoleInv
    BY DEF Init, SoleInv
<1>2. TypeOK /\ SoleInv /\ [Next]_vars => SoleInv'
    <2>. SUFFICES ASSUME TypeOK, SoleInv, [Next]_vars, NEW s \in Stream,
                         state'[s] \in {"stored", "joining", "reading"}, s \in open',
                         \A t \in Stream \ {s} :
                            remote'[t] = remote'[s] => state'[t] = "unused"
                  PROVE  peers'[remote'[s]] = s
        BY DEF SoleInv
    <2>. USE DEF TypeOK, Next, vars, Inbound, Outbound, ReaderEnds, Writes, Removes,
                 Accept, Reject, Store, JoinRoom, StartReader, ScannerStops, CleanUp,
                 Drop, Stall, Broadcast, SendToPeer, Write, WriteFails, Written,
                 RemovePeer, WaitForLock
    <2>0. remote' = remote /\ remote[s] \in Remote
        OBVIOUS
    \* Streams only leave "unused", so s was the sole stream before the step too.
    <2>1. \A t \in Stream \ {s} : remote[t] = remote[s] => state[t] = "unused"
        BY <2>0
    <2>2. CASE Store(s) \/ JoinRoom(s)
        BY <2>0, <2>2
    <2>3. CASE ~(Store(s) \/ JoinRoom(s))
        <3>1. state[s] \in {"stored", "joining", "reading"} /\ s \in open
            BY <2>3
        <3>2. peers[remote[s]] = s
            BY <2>1, <3>1 DEF SoleInv
        <3>3. ASSUME NEW t \in Stream \ {s}, Store(t) \/ JoinRoom(t) \/ CleanUp(t)
              PROVE  remote[t] # remote[s]
            BY <2>0, <3>3
        <3>4. ASSUME NEW g \in Sender, NEW r \in Remote, RemovePeer(g, r)
              PROVE  r # remote[s]
            BY <2>0, <3>2, <3>4
        <3>5. ~CleanUp(s)
            BY <3>1
        <3>. QED BY <2>0, <2>3, <3>2, <3>3, <3>4, <3>5
    <2>. QED BY <2>2, <2>3
<1>3. SoleInv => SoleStreamIsReachable
    BY DEF SoleInv, SoleStreamIsReachable
<1>. QED BY <1>1, <1>2, <1>3, ConnectionsTyped, PTL DEF Spec
=============================================================================
