----------------------------- MODULE Connections -----------------------------
(***************************************************************************)
(* One node's table of peer streams, p.peers of cmd/poker/main.go: the     *)
(* goroutine of every inbound stream (handleStream) and outbound one       *)
(* (joinRoom, listenToStream), and the senders, which write to the streams *)
(* and remove the peers they find broken.  A step is what happens under    *)
(* one hold of peersMu, but for sendMessage, which holds it for reading    *)
(* from its first write to its last.                                       *)
(* An operator whose comment starts with "Mutant" is a faulty variant of   *)
(* the definition after it; no definition uses it.                         *)
(***************************************************************************)
EXTENDS Integers, FiniteSets

CONSTANTS
    Remote,    \* the other peers
    Stream,    \* streams ever opened between them and this node
    NoStream,  \* no entry in p.peers
    MaxPeers,  \* connections handleStream accepts
    Sender,    \* goroutines that send: the console and the message handlers
    Console    \* the one that runs the user's commands

ASSUME StreamAssumption == NoStream \notin Stream
ASSUME MaxPeersAssumption == MaxPeers \in Nat \ {0}
ASSUME SenderAssumption == IsFiniteSet(Sender) /\ Console \in Sender

VARIABLES
    peers,     \* p.peers
    state,     \* where each stream's goroutine is
    remote,    \* whom each stream leads to, fixed from the start
    open,      \* streams neither side has closed
    stalled,   \* streams whose other end has stopped reading
    sender,    \* where each sender is, what it has yet to write to and who
               \* has failed it
    readLocks, \* how many hold peersMu for reading
    lockWaits  \* somebody has called peersMu.Lock and waits

vars == <<peers, state, remote, open, stalled, sender, readLocks, lockWaits>>
locks == <<readLocks, lockWaits>>

\* A goroutine has passed the limit, has stored the stream of a room it joins,
\* sends its join message, reads, has seen its scanner stop, or is gone.
States == {"unused", "accepted", "stored", "joining", "reading", "stopped", "gone"}

Senders == [at : {"idle", "all", "one", "removing"},
            todo : SUBSET Stream, failed : SUBSET Remote]
Idle == [at |-> "idle", todo |-> {}, failed |-> {}]

Init ==
    /\ peers = [r \in Remote |-> NoStream]
    /\ state = [s \in Stream |-> "unused"]
    /\ remote \in [Stream -> Remote]
    /\ open = {}
    /\ stalled = {}
    /\ sender = [g \in Sender |-> Idle]
    /\ readLocks = 0
    /\ lockWaits = FALSE

Connected == {r \in Remote : peers[r] # NoStream}

\* The console is inside joinRoom.
InJoinRoom == \E s \in Stream : state[s] \in {"stored", "joining"}

-----------------------------------------------------------------------------
(* peersMu, a sync.RWMutex. *)

\* RLock returns at once, but not past a Lock that waits.
RLock == ~lockWaits

\* Lock returns when nobody holds it for reading.
Lock == readLocks = 0 /\ lockWaits' = FALSE /\ UNCHANGED readLocks

\* A goroutine that has yet to change the table finds it held for reading.
WaitForLock ==
    /\ readLocks > 0 /\ ~lockWaits
    /\ \/ \E s \in Stream : state[s] \in {"accepted", "stopped"}
       \/ \E g \in Sender : sender[g].at = "removing"
    /\ lockWaits' = TRUE
    /\ UNCHANGED <<peers, state, remote, open, stalled, sender, readLocks>>

(* An inbound stream: handleStream. *)

\* len(p.peers) under RLock.  The stream is stored in a later step.
Accept(s) ==
    /\ state[s] = "unused"
    /\ RLock
    /\ Cardinality(Connected) < MaxPeers
    /\ state' = [state EXCEPT ![s] = "accepted"]
    /\ open' = open \cup {s}
    /\ UNCHANGED <<peers, remote, stalled, sender, locks>>

\* At the limit the stream is closed.
Reject(s) ==
    /\ state[s] = "unused"
    /\ RLock
    /\ Cardinality(Connected) >= MaxPeers
    /\ state' = [state EXCEPT ![s] = "gone"]
    /\ UNCHANGED <<peers, remote, open, stalled, sender, locks>>

\* Mutant: the limit is tested again, and past it the stream is only read.
StoreWithinLimit(s) ==
    /\ state[s] = "accepted" /\ Lock
    /\ state' = [state EXCEPT ![s] = "reading"]
    /\ peers' = IF Cardinality(Connected) < MaxPeers
                THEN [peers EXCEPT ![remote[s]] = s] ELSE peers
    /\ UNCHANGED <<remote, open, stalled, sender>>

\* A stream this peer already had is forgotten, not closed.
Store(s) ==
    /\ state[s] = "accepted"
    /\ Lock
    /\ state' = [state EXCEPT ![s] = "reading"]
    /\ peers' = [peers EXCEPT ![remote[s]] = s]
    /\ UNCHANGED <<remote, open, stalled, sender>>

(* An outbound stream: joinRoom. *)

\* The entry is stored, without a limit ...
JoinRoom(s) ==
    /\ state[s] = "unused"
    /\ ~InJoinRoom /\ sender[Console] = Idle
    /\ Lock
    /\ state' = [state EXCEPT ![s] = "stored"]
    /\ open' = open \cup {s}
    /\ peers' = [peers EXCEPT ![remote[s]] = s]
    /\ UNCHANGED <<remote, stalled, sender>>

\* ... and read only when the join message has been sent to everybody.
StartReader(s) ==
    /\ state[s] = "joining"
    /\ sender[Console] = Idle
    /\ state' = [state EXCEPT ![s] = "reading"]
    /\ UNCHANGED <<peers, remote, open, stalled, sender, locks>>

(* The end of a reader, the same in handleStream and listenToStream. *)

\* The scanner stops: the stream is closed, or a line was longer than
\* MaxMessageSize, which leaves the stream open.
ScannerStops(s) ==
    /\ state[s] = "reading"
    /\ state' = [state EXCEPT ![s] = "stopped"]
    /\ UNCHANGED <<peers, remote, open, stalled, sender, locks>>

\* Mutant: the reader leaves without deleting its entry.
CleanUpNothing(s) ==
    /\ state[s] = "stopped"
    /\ state' = [state EXCEPT ![s] = "gone"]
    /\ UNCHANGED <<peers, remote, open, stalled, sender, locks>>

\* Mutant: the entry is deleted without the lock.
CleanUpUnlocked(s) ==
    /\ state[s] = "stopped"
    /\ state' = [state EXCEPT ![s] = "gone"]
    /\ peers' = [peers EXCEPT ![remote[s]] = NoStream]
    /\ UNCHANGED <<remote, open, stalled, sender, locks>>

\* delete(p.peers, remotePeer), whichever stream the entry now holds.
CleanUp(s) ==
    /\ state[s] = "stopped"
    /\ Lock
    /\ state' = [state EXCEPT ![s] = "gone"]
    /\ peers' = [peers EXCEPT ![remote[s]] = NoStream]
    /\ UNCHANGED <<remote, open, stalled, sender>>

-----------------------------------------------------------------------------
(* Senders. *)

\* sendMessage takes peersMu.RLock and iterates over the table.  In joinRoom it
\* is the join message that goes out.
Broadcast(g) ==
    /\ sender[g] = Idle
    /\ g = Console => \A s \in Stream : state[s] # "joining"
    /\ RLock
    /\ sender' = [sender EXCEPT ![g] =
                    [at |-> "all", todo |-> {peers[r] : r \in Connected}, failed |-> {}]]
    /\ readLocks' = readLocks + 1
    /\ state' = [s \in Stream |-> IF g = Console /\ state[s] = "stored"
                                  THEN "joining" ELSE state[s]]
    /\ UNCHANGED <<peers, remote, open, stalled, lockWaits>>

\* sendMessageToPeer looks the stream up and gives the lock back.
SendToPeer(g, r) ==
    /\ sender[g] = Idle
    /\ ~(g = Console /\ InJoinRoom)
    /\ RLock
    /\ r \in Connected
    /\ sender' = [sender EXCEPT ![g] = [at |-> "one", todo |-> {peers[r]}, failed |-> {}]]
    /\ UNCHANGED <<peers, state, remote, open, stalled, locks>>

\* stream.Write, which has no deadline: it waits as long as the other end does
\* not read.
Write(g, s) ==
    /\ s \in sender[g].todo
    /\ s \notin stalled \cap open
    /\ sender' = [sender EXCEPT ![g].todo = @ \ {s}]
    /\ UNCHANGED <<peers, state, remote, open, stalled, locks>>

\* Mutant: the lock is given back at the first failure, and at the end as well.
WriteFailsAndUnlocks(g, s) ==
    /\ s \in sender[g].todo \ open
    /\ sender' = [sender EXCEPT ![g].todo = @ \ {s},
                                ![g].failed = @ \cup {remote[s]}]
    /\ readLocks' = IF sender[g].at = "all" THEN readLocks - 1 ELSE readLocks
    /\ UNCHANGED <<peers, state, remote, open, stalled, lockWaits>>

\* A write to a closed stream fails, though not necessarily the first.
WriteFails(g, s) ==
    /\ s \in sender[g].todo \ open
    /\ sender' = [sender EXCEPT ![g].todo = @ \ {s},
                                ![g].failed = @ \cup {remote[s]}]
    /\ UNCHANGED <<peers, state, remote, open, stalled, locks>>

\* All is written: sendMessage gives the lock back.
Written(g) ==
    /\ sender[g].at \in {"all", "one"}
    /\ sender[g].todo = {}
    /\ sender' = [sender EXCEPT ![g].at = IF sender[g].failed = {} THEN "idle" ELSE "removing"]
    /\ readLocks' = IF sender[g].at = "all" THEN readLocks - 1 ELSE readLocks
    /\ UNCHANGED <<peers, state, remote, open, stalled, lockWaits>>

\* removePeer: closes and deletes what the entry holds by now.
RemovePeer(g, r) ==
    /\ sender[g].at = "removing"
    /\ r \in sender[g].failed
    /\ Lock
    /\ LET left == sender[g].failed \ {r}
       IN  sender' = [sender EXCEPT ![g] =
                        [at |-> IF left = {} THEN "idle" ELSE "removing",
                         todo |-> {}, failed |-> left]]
    /\ open' = open \ {peers[r]}
    /\ peers' = [peers EXCEPT ![r] = NoStream]
    /\ UNCHANGED <<state, remote, stalled>>

(* The other end. *)

\* It closes or fails, at any time.
Drop(s) ==
    /\ s \in open
    /\ open' = open \ {s}
    /\ UNCHANGED <<peers, state, remote, stalled, sender, locks>>

\* It stops reading for good, without closing.
Stall(s) ==
    /\ s \in open \ stalled
    /\ stalled' = stalled \cup {s}
    /\ UNCHANGED <<peers, state, remote, open, sender, locks>>

-----------------------------------------------------------------------------

Inbound(s) == Accept(s) \/ Reject(s) \/ Store(s)
Outbound(s) == JoinRoom(s) \/ StartReader(s)
ReaderEnds(s) == ScannerStops(s) \/ CleanUp(s)
Writes(g) == Written(g) \/ \E s \in Stream : Write(g, s) \/ WriteFails(g, s)
Removes(g) == \E r \in Remote : RemovePeer(g, r)

Next ==
    \/ \E s \in Stream : Inbound(s) \/ Outbound(s) \/ ReaderEnds(s)
    \/ \E s \in Stream : Drop(s) \/ Stall(s)
    \/ \E g \in Sender : Broadcast(g) \/ Writes(g) \/ Removes(g)
    \/ \E g \in Sender, r \in Remote : SendToPeer(g, r)
    \/ WaitForLock

Spec == Init /\ [][Next]_vars

\* A reader notices that its stream is closed, a join goes on, and a write that
\* can return does.  Lock is had by
\* everybody who waits for it in the end.
ReaderProgress(s) == (s \notin open /\ ScannerStops(s)) \/ StartReader(s)
SenderProgress(g) == Writes(g) \/ (InJoinRoom /\ g = Console /\ Broadcast(g))
FairSpec ==
    /\ Spec
    /\ \A s \in Stream : WF_vars(ReaderProgress(s)) /\ SF_vars(Store(s) \/ CleanUp(s))
    /\ \A g \in Sender : WF_vars(SenderProgress(g)) /\ SF_vars(Removes(g))
    /\ WF_vars(WaitForLock)

-----------------------------------------------------------------------------
(* Properties. *)

TypeOK ==
    /\ peers \in [Remote -> Stream \cup {NoStream}]
    /\ state \in [Stream -> States]
    /\ remote \in [Stream -> Remote]
    /\ open \subseteq Stream /\ stalled \subseteq Stream
    /\ sender \in [Sender -> Senders]
    /\ readLocks \in Nat /\ lockWaits \in BOOLEAN

\* An entry leads to a stream of that peer which has a reader, or whose joinRoom
\* has yet to start one: when it closes there is somebody to clean up.
EntriesHaveReaders ==
    \A r \in Remote : peers[r] # NoStream =>
        /\ remote[peers[r]] = r
        /\ state[peers[r]] \in {"stored", "joining", "reading", "stopped"}

\* The table does not change under the loop of sendMessage: Go ends a process
\* that iterates over a map while it is written.
TableStandsStill ==
    \A g \in Sender : sender[g].at = "all" => sender[g].todo \subseteq {peers[r] : r \in Remote}

\* A peer that connects once is reachable as long as its stream is open and
\* read: only another stream of the same peer can take its entry away.
SoleStreamIsReachable ==
    \A s \in Stream :
        /\ state[s] = "reading" /\ s \in open
        /\ \A t \in Stream \ {s} : remote[t] = remote[s] => state[t] = "unused"
        => peers[remote[s]] = s

\* "sendMessage sends a message to all connected peers" (main.go): every peer
\* with an open stream this node reads has an entry when a message goes out.
BroadcastReachesAll ==
    \A s \in Stream :
        state[s] = "reading" /\ s \in open => peers[remote[s]] # NoStream

\* The entry of a closed stream does not stay, unless another peer keeps its
\* stream open and does not read it: whoever writes to that one waits, and all
\* who need the table wait for a broadcast that does.
DeadEntriesGo ==
    \A s \in Stream :
        (s \notin open /\ peers[remote[s]] = s)
            ~> (peers[remote[s]] # s \/ stalled \cap open # {})
=============================================================================
