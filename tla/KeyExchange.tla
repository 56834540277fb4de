----------------------------- MODULE KeyExchange -----------------------------
(***************************************************************************)
(* How dealt cards are opened: the host broadcasts the shuffled deck and   *)
(* who owns which card, owners ask everybody else for keys, and a card is  *)
(* read, added to the hand and committed to once enough keys are there.    *)
(* handleFinalDeck, handleCardAssign, handleKeyRequest, handleKeyResponse, *)
(* revealCard, assignCards and the CardLockManager of card_lock.go.        *)
(*                                                                         *)
(* A message waits in the FIFO stream from one peer to another; different  *)
(* streams are read by different goroutines, so nothing orders a request   *)
(* on one of them and the deck it is about on another, and the handlers of *)
(* card_assign and key_response, which take no lock, interleave with those *)
(* of other streams.  A card is named by its owner and a number:           *)
(* assignCards gives the same places of the deck to the same players as    *)
(* long as the roster stays.  A deal is a number, and two deals have       *)
(* different cards in a place.                                             *)
(***************************************************************************)
EXTENDS Integers, Sequences, FiniteSets, Functions

CONSTANTS
    N,            \* number of peers, the host included
    Roster,       \* Roster[p]: who is in p's Players map
    Link,         \* <<p, q>>: p has a stream to q
    InHand,       \* players whose InHand the host has set; as built nobody
    DealtLayers,  \* DealtLayers[p]: secrets whose cipher layer the cards of p
                  \* carry when dealt.  As built those of the host, twice over;
                  \* DecryptCard is written for those of everybody else.
    SuitBytes,    \* length of a suit in the text of a card: 3 as built, a
                  \* symbol in UTF-8, where ParseCard is written for 1
    HoleCards,    \* cards of a hand; 2 in the code
    Laps,         \* laps of a deck round the ring; 2 N in the code
    MaxStarts     \* bound on `start` commands

Peer == 0 .. N - 1
Host == 0
HostSecret == -1          \* "host_secret", for which nobody provides keys

ASSUME NAssumption == N \in Nat /\ N >= 2
ASSUME RosterAssumption == Roster \in [Peer -> SUBSET Peer]
ASSUME LinkAssumption == Link \subseteq {l \in Peer \X Peer : l[1] # l[2]}
ASSUME InHandAssumption == InHand \subseteq Peer
ASSUME LayersAssumption ==
    /\ DealtLayers \in [Peer -> SUBSET (Peer \cup {HostSecret})]
    /\ SuitBytes \in Nat
ASSUME BoundAssumption ==
    HoleCards \in Nat \ {0} /\ Laps \in Nat \ {0} /\ MaxStarts \in Nat

Card == Peer \X (1 .. HoleCards)
OwnerOf == [c \in Card |-> c[1]]
Deal == 1 .. MaxStarts
Key == [from : Peer, deal : Deal]     \* a key for some card

Message ==
    [type : {"shuffle_round"}, lap : 1 .. Laps] \cup
    [type : {"final_deck"}, deal : Deal] \cup
    [type : {"card_assign", "hand_commitment"}] \cup
    [type : {"key_request"}, card : Card, for : Peer] \cup
    [type : {"key_response"}, card : Card, deal : Deal]

\* A card of a deal, as a hand holds it.
Dealt == Card \X Deal

\* Where a stream's goroutine is: between messages; locking the cards it has been
\* assigned; in handleKeyResponse, having added a key or found that the card can
\* be revealed; in revealCard, about to read its hand, to write it back with one
\* card more, or to count it.
Idle == [at |-> "idle"]
Counting == [at |-> "count"]
Task ==
    {Idle, Counting} \cup
    [at : {"locking"}, todo : SUBSET Card] \cup
    [at : {"added", "reveal"}, card : Card] \cup
    [at : {"append"}, dealt : Dealt] \cup
    [at : {"write"}, cards : Seq(Dealt)]

VARIABLES
    net,        \* net[<<p, q>>]: what p has written and q has not yet read
    task,       \* task[<<p, q>>]: what q does about the last message of p
    deck,       \* deck[p]: the deal whose EncryptedDeck p stores; 0 for none
    locked,     \* <<p, c>>: p's CardLockManager has a lock for card c
    keys,       \* keys[p][c]: ReceivedKeys of card c in p's manager
    hand,       \* hand[p]: the Hand of p's own player, its cards of all deals
    committed,  \* players whose commitment the host has
    phase,      \* the host's phase
    pc,         \* where the host's dealing handler is
    starts,     \* spent bound
    opened,     \* history: cards of a deal that their owner has been shown
    released,   \* history: <<q, c, deal>> when q has sent a key
    rejected    \* history: <<q, c>> when q has turned down a request

streams == <<net, task>>
locks == <<locked, keys>>
hands == <<hand, opened>>
start == <<committed, phase>>
dealing == <<pc, starts>>
history == <<released, rejected>>
vars == <<streams, deck, locks, hands, start, dealing, history>>

-----------------------------------------------------------------------------
(* Streams. *)

\* Everything p has a stream to gets the messages, in this order.
SendAll(n, p, msgs) == [l \in Link |-> IF l[1] = p THEN n[l] \o msgs ELSE n[l]]

\* sendMessageToPeer: dropped when there is no stream.
SendTo(n, p, q, msg) ==
    [l \in Link |-> IF l = <<p, q>> THEN Append(n[l], msg) ELSE n[l]]

\* The rest of n when q reads the next message of p.
Read(n, p, q) == [n EXCEPT ![<<p, q>>] = Tail(@)]

\* The deck comes back to the host on this stream; its goroutine then deals,
\* and reads no message meanwhile.
LastInRing == N - 1

\* q's goroutine for p finds a message of this type.
Receives(q, p, type) ==
    /\ <<p, q>> \in Link
    /\ task[<<p, q>>] = Idle
    /\ net[<<p, q>>] # <<>>
    /\ Head(net[<<p, q>>]).type = type
    /\ ~(q = Host /\ p = LastInRing /\ pc # "idle")

-----------------------------------------------------------------------------
(* Card locks. *)

NoKeys == [c \in Card |-> {}]

\* A second key of the same peer replaces the first.
AddKey(received, q, deal) ==
    {k \in received : k.from # q} \cup {[from |-> q, deal |-> deal]}

\* Mutant: the owner's own key is waited for too.
CanRevealWithOwn(p, received) == Cardinality(received) >= Cardinality(Roster[p])

\* The manager's participants are the roster of its owner.
CanReveal(p, received) == Cardinality(received) >= Cardinality(Roster[p]) - 1

\* Mutant: a key fits the card in this place of any deck.
DecryptsAnyDeal(p, c, received) ==
    /\ {k.from : k \in received} = DealtLayers[c[1]]
    /\ Cardinality(received) % 2 = 0

\* GenerateKeyForCard returns the card's data XORed with the sender's key
\* stream, and DecryptCard XORs all of them to the data: an even number of keys
\* leaves the data once, with those streams on it, an odd number leaves no data.
\* So the card appears when the streams are exactly the layers it was dealt
\* with; a key made from another deck leaves that deck's data behind.
Decrypts(p, c, received) ==
    /\ deck[p] # 0
    /\ \A k \in received : k.deal = deck[p]
    /\ {k.from : k \in received} = DealtLayers[c[1]]
    /\ Cardinality(received) % 2 = 0

\* Card.String writes "10" in two bytes, other ranks in one; ParseCard takes texts
\* of two bytes, and of three when they begin with "10".  As built, none.
Parses == \A rankBytes \in {1, 2} : rankBytes + SuitBytes = rankBytes + 1

Commitment == [type |-> "hand_commitment"]

\* Mutant: the first commitment starts the hand.
PhaseAfterAny(known) ==
    IF phase = "WaitingForPlayers" THEN "PreFlop" ELSE phase

\* checkAndStartPreFlop on the host.  The other peers' phase never is
\* WaitingForPlayers.
PhaseAfter(known) ==
    IF phase = "WaitingForPlayers" /\ InHand \subseteq known THEN "PreFlop"
                                                             ELSE phase

Request(p, c) == [type |-> "key_request", card |-> c, for |-> p]

\* The host's requests for its own cards.
Requests(p) == [k \in 1 .. HoleCards |-> Request(p, <<p, k>>)]

-----------------------------------------------------------------------------

Init ==
    /\ net = [l \in Link |-> <<>>]
    /\ task = [l \in Link |-> Idle]
    /\ deck = [p \in Peer |-> 0]
    /\ locked = {}
    /\ keys = [p \in Peer |-> NoKeys]
    /\ hand = [p \in Peer |-> <<>>]
    /\ opened = {}
    /\ committed = {}
    /\ phase = "Idle"
    /\ pc = "idle"
    /\ starts = 0
    /\ released = {}
    /\ rejected = {}

Next0(p) == (p + 1) % N

\* The `start` command.  The ring itself is ShuffleRing's subject: here it only
\* orders a deal after what was on its streams, and one deck is out at a time.
Start ==
    /\ starts < MaxStarts
    /\ deck[Host] = starts /\ pc = "idle"
    /\ starts' = starts + 1
    /\ phase' = "Shuffling"
    /\ net' = SendTo(net, Host, 1, [type |-> "shuffle_round", lap |-> 1])
    /\ UNCHANGED <<task, deck, locks, hands, committed, pc, history>>

\* Mutant: the deck is never complete.
PassDeckOn(q, p) ==
    /\ Receives(q, p, "shuffle_round")
    /\ LET lap == Head(net[<<p, q>>]).lap
       IN  net' = SendTo(Read(net, p, q), q, Next0(q),
                         [type |-> "shuffle_round",
                          lap |-> IF q = Host THEN lap + 1 ELSE lap])
    /\ UNCHANGED <<task, deck, locks, hands, start, dealing, history>>

\* handleShuffleRound, when the deck is not complete.
PassDeck(q, p) ==
    /\ Receives(q, p, "shuffle_round")
    /\ LET lap == Head(net[<<p, q>>]).lap
           next == IF q = Host THEN lap + 1 ELSE lap
       IN  /\ next <= Laps
           /\ net' = SendTo(Read(net, p, q), q, Next0(q),
                            [type |-> "shuffle_round", lap |-> next])
    /\ UNCHANGED <<task, deck, locks, hands, start, dealing, history>>

\* handleShuffleRound on the host, when it is: the final deck is broadcast.
FinishDeck(p) ==
    /\ Receives(Host, p, "shuffle_round")
    /\ Head(net[<<p, Host>>]).lap = Laps
    /\ deck' = [deck EXCEPT ![Host] = starts]
    /\ net' = SendAll(Read(net, p, Host), Host,
                      <<[type |-> "final_deck", deal |-> starts]>>)
    /\ pc' = "assign"
    /\ UNCHANGED <<task, locks, hands, start, starts, history>>

\* assignCards, one broadcast after the sleep of 100 ms.
BroadcastAssignments ==
    /\ pc = "assign"
    /\ net' = SendAll(net, Host, <<[type |-> "card_assign"]>>)
    /\ pc' = "lock"
    /\ UNCHANGED <<task, deck, locks, hands, start, starts, history>>

\* Its fresh lock manager, with all cards locked.
LockCards ==
    /\ pc = "lock"
    /\ locked' = locked \cup ({Host} \X Card)
    /\ keys' = [keys EXCEPT ![Host] = NoKeys]
    /\ pc' = "request"
    /\ UNCHANGED <<streams, deck, hands, start, starts, history>>

\* The requests for the host's own cards.
RequestOwnKeys ==
    /\ pc = "request"
    /\ net' = IF Host \in Roster[Host] THEN SendAll(net, Host, Requests(Host))
                                       ELSE net
    /\ pc' = "wait"
    /\ UNCHANGED <<task, deck, locks, hands, start, starts, history>>

\* Its last step.
AwaitPlayers ==
    /\ pc = "wait"
    /\ phase' = "WaitingForPlayers"
    /\ pc' = "idle"
    /\ UNCHANGED <<streams, deck, locks, hands, committed, starts, history>>

HandleFinalDeck(q, p) ==
    /\ Receives(q, p, "final_deck")
    /\ deck' = [deck EXCEPT ![q] = Head(net[<<p, q>>]).deal]
    /\ net' = Read(net, p, q)
    /\ UNCHANGED <<task, locks, hands, start, dealing, history>>

-----------------------------------------------------------------------------
(* handleCardAssign. *)

Assigned == {c \in Card : OwnerOf[c] \in Roster[Host]}
Locking(cards) == IF cards = {} THEN Idle ELSE [at |-> "locking", todo |-> cards]

HandleCardAssign(q, p) ==
    /\ Receives(q, p, "card_assign")
    /\ net' = Read(net, p, q)
    /\ task' = [task EXCEPT ![<<p, q>>] = Locking(Assigned)]
    /\ UNCHANGED <<deck, locks, hands, start, dealing, history>>

\* LockCard forgets the keys the card had.  A card of q's own is asked for before
\* the next is locked.  The numbering of the peers does not say whose come first.
LockCard(q, p, c) ==
    /\ <<p, q>> \in Link
    /\ task[<<p, q>>].at = "locking"
    /\ c \in task[<<p, q>>].todo
    /\ locked' = locked \cup {<<q, c>>}
    /\ keys' = [keys EXCEPT ![q][c] = {}]
    /\ net' = IF OwnerOf[c] = q THEN SendAll(net, q, <<Request(q, c)>>) ELSE net
    /\ task' = [task EXCEPT ![<<p, q>>] = Locking(@.todo \ {c})]
    /\ UNCHANGED <<deck, hands, start, dealing, history>>

-----------------------------------------------------------------------------
(* handleKeyRequest. *)

\* Its five checks: no deck, no manager, card not locked, not the requester's,
\* my own.
MayHaveKey(q, req) ==
    /\ deck[q] # 0
    /\ <<q, req.card>> \in locked
    /\ OwnerOf[req.card] = req.for
    /\ req.for # q

HandleKeyRequest(q, p) ==
    /\ Receives(q, p, "key_request")
    /\ LET req == Head(net[<<p, q>>])
           rest == Read(net, p, q)
           key == [type |-> "key_response", card |-> req.card,
                   deal |-> deck[q]]
       IN  IF MayHaveKey(q, req)
           THEN /\ net' = SendTo(rest, q, p, key)
                /\ released' = released \cup {<<q, req.card, deck[q]>>}
                /\ UNCHANGED rejected
           ELSE /\ net' = rest
                /\ rejected' = rejected \cup {<<q, req.card>>}
                /\ UNCHANGED released
    /\ UNCHANGED <<task, deck, locks, hands, start, dealing>>

-----------------------------------------------------------------------------
(* handleKeyResponse, with revealCard at every response once enough keys are *)
(* there.  The maps it shares with other streams have no lock either; Go     *)
(* ends a process that it finds writing a map twice at a time, and a peer    *)
(* that has ended is one that takes no more steps.                           *)

\* The key goes into the lock of its card, when there is one.
HandleKeyResponse(q, p) ==
    /\ Receives(q, p, "key_response")
    /\ net' = Read(net, p, q)
    /\ LET m == Head(net[<<p, q>>])
       IN  IF <<q, m.card>> \in locked
           THEN /\ keys' = [keys EXCEPT ![q][m.card] = AddKey(@, p, m.deal)]
                /\ task' = [task EXCEPT ![<<p, q>>] = [at |-> "added", card |-> m.card]]
           ELSE UNCHANGED <<keys, task>>
    /\ UNCHANGED <<deck, locked, hands, start, dealing, history>>

\* Are there enough?
CheckKeys(q, p) ==
    /\ <<p, q>> \in Link
    /\ task[<<p, q>>].at = "added"
    /\ LET c == task[<<p, q>>].card
       IN  task' = [task EXCEPT ![<<p, q>>] =
                       IF CanReveal(q, keys[q][c]) THEN [at |-> "reveal", card |-> c]
                                                   ELSE Idle]
    /\ UNCHANGED <<net, deck, locks, hands, start, dealing, history>>

\* revealCard decrypts the card with the keys there are by now, and shows it.
RevealCard(q, p) ==
    /\ <<p, q>> \in Link
    /\ task[<<p, q>>].at = "reveal"
    /\ LET c == task[<<p, q>>].card
           reads == /\ Parses /\ Decrypts(q, c, keys[q][c])
                    /\ q \in Roster[q] /\ OwnerOf[c] = q
       IN  IF reads
           THEN /\ opened' = opened \cup {<<c, deck[q]>>}
                /\ task' = [task EXCEPT ![<<p, q>>] =
                               [at |-> "append", dealt |-> <<c, deck[q]>>]]
           ELSE /\ task' = [task EXCEPT ![<<p, q>>] = Idle]
                /\ UNCHANGED opened
    /\ UNCHANGED <<net, deck, locks, hand, start, dealing, history>>

\* player.Hand = append(player.Hand, card): the hand is read ...
ReadHand(q, p) ==
    /\ <<p, q>> \in Link
    /\ task[<<p, q>>].at = "append"
    /\ task' = [task EXCEPT ![<<p, q>>] =
                   [at |-> "write", cards |-> Append(hand[q], @.dealt)]]
    /\ UNCHANGED <<net, deck, locks, hands, start, dealing, history>>

\* ... and written, whatever other streams have appended meanwhile.
WriteHand(q, p) ==
    /\ <<p, q>> \in Link
    /\ task[<<p, q>>].at = "write"
    /\ hand' = [hand EXCEPT ![q] = task[<<p, q>>].cards]
    /\ task' = [task EXCEPT ![<<p, q>>] = Counting]
    /\ UNCHANGED <<net, deck, locks, opened, start, dealing, history>>

\* A hand of exactly its number of cards is committed to.
CountHand(q, p) ==
    /\ <<p, q>> \in Link
    /\ task[<<p, q>>] = Counting
    /\ task' = [task EXCEPT ![<<p, q>>] = Idle]
    /\ LET commits == Len(hand[q]) = HoleCards
       IN  /\ net' = IF commits /\ q # Host
                     THEN SendTo(net, q, Host, Commitment) ELSE net
           /\ IF commits /\ q = Host
              THEN /\ committed' = committed \cup {Host}
                   /\ phase' = PhaseAfter(committed')
              ELSE UNCHANGED start
    /\ UNCHANGED <<deck, locks, hands, dealing, history>>

-----------------------------------------------------------------------------

\* handleHandCommitment on the host.
HandleCommitment(p) ==
    /\ Receives(Host, p, "hand_commitment")
    /\ net' = Read(net, p, Host)
    /\ committed' = IF p \in Roster[Host] THEN committed \cup {p} ELSE committed
    /\ phase' = IF p \in Roster[Host] THEN PhaseAfter(committed') ELSE phase
    /\ UNCHANGED <<task, deck, locks, hands, dealing, history>>

Deliver(q, p) ==
    \/ PassDeck(q, p)
    \/ q = Host /\ FinishDeck(p)
    \/ HandleFinalDeck(q, p)
    \/ HandleCardAssign(q, p)
    \/ HandleKeyRequest(q, p)
    \/ HandleKeyResponse(q, p)
    \/ q = Host /\ HandleCommitment(p)

GoOn(q, p) ==
    \/ \E c \in Card : LockCard(q, p, c)
    \/ CheckKeys(q, p)
    \/ RevealCard(q, p)
    \/ ReadHand(q, p)
    \/ WriteHand(q, p)
    \/ CountHand(q, p)

Dealing == BroadcastAssignments \/ LockCards \/ RequestOwnKeys \/ AwaitPlayers

Next == Start \/ Dealing \/ \E q, p \in Peer : Deliver(q, p) \/ GoOn(q, p)

Spec == Init /\ [][Next]_vars

-----------------------------------------------------------------------------
(* Properties. *)

TypeOK ==
    /\ net \in [Link -> Seq(Message)]
    /\ task \in [Link -> Task]
    /\ deck \in [Peer -> Deal \cup {0}]
    /\ locked \subseteq Peer \X Card
    /\ keys \in [Peer -> [Card -> SUBSET Key]]
    /\ hand \in [Peer -> Seq(Dealt)]
    /\ opened \subseteq Dealt
    /\ committed \subseteq Peer
    /\ phase \in {"Idle", "Shuffling", "WaitingForPlayers", "PreFlop"}
    /\ pc \in {"idle", "assign", "lock", "request", "wait"}
    /\ starts \in 0 .. MaxStarts
    /\ released \subseteq Peer \X Card \X Deal
    /\ rejected \subseteq Peer \X Card

\* "Player needs keys from all N-1 other players" (ARCHITECTURE.md): whatever
\* overtakes what, and whichever deal a late key was made for, a card is read
\* only when all the others have given away their key to that card of that deal.
Protocol == INSTANCE CardOpening
                WITH Player <- Peer, open <- opened

NeverOpenedEarly == Protocol!Spec

\* No message waits and no handler runs.
Quiet == pc = "idle" /\ \A l \in Link : net[l] = <<>> /\ task[l] = Idle

\* Nobody asks twice, so all must come of the first request.  When everything
\* has been delivered, each card of the last deal has been shown to its owner,
\* although the last keys may come at once and each handler looks for itself
\* whether they are all there; unless somebody turned the request down, not
\* having heard of the card yet, or answered it with a key to the deck before.
\* That the card is in the hand then is not said: see WriteHand.
QuietMeansOpened ==
    Quiet /\ starts > 0 =>
        \A c \in Card : OwnerOf[c] \in Roster[Host] =>
            \/ <<c, starts>> \in opened
            \/ \E q \in Peer : <<q, c>> \in rejected
            \/ \E k \in keys[OwnerOf[c]][c] : k.deal # starts
=============================================================================
