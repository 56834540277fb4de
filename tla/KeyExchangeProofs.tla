-------------------------- MODULE KeyExchangeProofs --------------------------
(***************************************************************************)
(* Proofs about KeyExchange, for every number of peers, roster, wiring and *)
(* number of cards and deals.                                              *)
(*                                                                         *)
(* What a card was opened with lies in the past of other peers.  KeyInv    *)
(* carries it along: a key, on its way or received, was released by its    *)
(* sender.                                                                 *)
(***************************************************************************)
EXTENDS KeyExchange, SequenceTheorems, TLAPS

-----------------------------------------------------------------------------
(* The invariant. *)

\* The messages that can be on stream l when the keys R have been released.
Sent(l, R) == {m \in Message :
    m.type = "key_response" => <<l[1], m.card, m.deal>> \in R}

InFlight(n, R) ==
    /\ n \in [Link -> Seq(Message)]
    /\ \A l \in Link : n[l] \in Seq(Sent(l, R))

\* The keys k were released when R had been.
AllIn(k, R) == \A p \in Peer, c \in Card : \A x \in k[p][c] : <<x.from, c, x.deal>> \in R

KeyInv ==
    /\ TypeOK
    /\ starts = 0 => /\ pc = "idle"
                     /\ \A l \in Link : net[l] = <<>> /\ task[l] = Idle
    /\ InFlight(net, released)
    /\ AllIn(keys, released)

-----------------------------------------------------------------------------
(* Streams. *)

\* Messages that carry no key.
Plain == {m \in Message : m.type # "key_response"}

LEMMA ReadKeeps ==
    ASSUME NEW n, NEW R, InFlight(n, R),
           NEW p, NEW q, <<p, q>> \in Link, n[<<p, q>>] # <<>>
    PROVE  /\ InFlight(Read(n, p, q), R)
           /\ Head(n[<<p, q>>]) \in Sent(<<p, q>>, R)
<1>. DEFINE l0 == <<p, q>>
<1>1. /\ Head(n[l0]) \in Sent(l0, R) /\ Tail(n[l0]) \in Seq(Sent(l0, R))
      /\ Tail(n[l0]) \in Seq(Message)
    <2>1. n[l0] \in Seq(Sent(l0, R)) /\ n[l0] \in Seq(Message) /\ n[l0] # <<>>
        BY DEF InFlight
    <2>. HIDE DEF l0
    <2>. QED BY <2>1, HeadTailProperties
<1>2. Read(n, p, q) = [n EXCEPT ![l0] = Tail(n[l0])]
    BY DEF Read
<1>. QED BY <1>1, <1>2 DEF InFlight

LEMMA SendToKeeps ==
    ASSUME NEW n, NEW R, InFlight(n, R), NEW p, NEW q, NEW msg \in Sent(<<p, q>>, R)
    PROVE  InFlight(SendTo(n, p, q, msg), R)
<1>1. msg \in Message
    BY DEF Sent
<1>2. ASSUME NEW l \in Link
      PROVE  /\ SendTo(n, p, q, msg)[l] \in Seq(Sent(l, R))
             /\ SendTo(n, p, q, msg)[l] \in Seq(Message)
    <2>1. n[l] \in Seq(Sent(l, R)) /\ n[l] \in Seq(Message)
        BY DEF InFlight
    <2>2. CASE l = <<p, q>>
        <3>1. Append(n[l], msg) \in Seq(Sent(l, R))
            BY <2>1, <2>2, AppendProperties
        <3>2. Append(n[l], msg) \in Seq(Message)
            BY <1>1, <2>1, AppendProperties
        <3>. QED BY <2>2, <3>1, <3>2 DEF SendTo
    <2>3. CASE l # <<p, q>>
        BY <2>1, <2>3 DEF SendTo
    <2>. QED BY <2>2, <2>3
<1>. QED BY <1>2 DEF InFlight, SendTo

LEMMA SendAllKeeps ==
    ASSUME NEW n, NEW R, InFlight(n, R), NEW p, NEW msgs \in Seq(Plain)
    PROVE  InFlight(SendAll(n, p, msgs), R)
<1>1. ASSUME NEW l \in Link
      PROVE  /\ SendAll(n, p, msgs)[l] \in Seq(Sent(l, R))
             /\ SendAll(n, p, msgs)[l] \in Seq(Message)
    <2>1. n[l] \in Seq(Sent(l, R)) /\ n[l] \in Seq(Message)
        BY DEF InFlight
    <2>2. Plain \subseteq Sent(l, R) /\ Plain \subseteq Message
        BY DEF Plain, Sent
    <2>3. msgs \in Seq(Sent(l, R)) /\ msgs \in Seq(Message)
        BY <2>2, SeqMonotonic
    <2>4. n[l] \o msgs \in Seq(Sent(l, R)) /\ n[l] \o msgs \in Seq(Message)
        BY <2>1, <2>3, ConcatProperties
    <2>. QED BY <2>1, <2>4 DEF SendAll
<1>. QED BY <1>1 DEF InFlight, SendAll

\* Keys stay released.
LEMMA InFlightGrows ==
    ASSUME NEW n, NEW R, InFlight(n, R), NEW R2, R \subseteq R2
    PROVE  InFlight(n, R2)
<1>1. ASSUME NEW l \in Link PROVE n[l] \in Seq(Sent(l, R2))
    <2>1. Sent(l, R) \subseteq Sent(l, R2)
        BY DEF Sent
    <2>. QED BY <2>1, SeqMonotonic DEF InFlight
<1>. QED BY <1>1 DEF InFlight

LEMMA RequestsArePlain ==
    /\ \A p \in Peer : Requests(p) \in Seq(Plain)
    /\ \A p \in Peer, c \in Card : <<Request(p, c)>> \in Seq(Plain)
<1>1. ASSUME NEW p \in Peer, NEW c \in Card PROVE Request(p, c) \in Plain
    BY DEF Request, Plain, Message
<1>2. ASSUME NEW p \in Peer PROVE Requests(p) \in Seq(Plain)
    <2>1. /\ HoleCards \in Nat
          /\ Requests(p) = [k \in 1 .. HoleCards |-> Request(p, <<p, k>>)]
        BY BoundAssumption DEF Requests
    <2>2. ASSUME NEW k \in 1 .. HoleCards PROVE Request(p, <<p, k>>) \in Plain
        BY <1>1 DEF Card
    <2>. QED BY <2>1, <2>2, IsASeq
<1>. QED BY <1>1, <1>2

LEMMA OneMessage ==
    ASSUME NEW m \in Plain
    PROVE  <<m>> \in Seq(Plain)
OBVIOUS

-----------------------------------------------------------------------------
(* The steps. *)

\* What a step that releases no key has to show.
LEMMA NoKeyReleased ==
    ASSUME KeyInv, released' = released, starts # 0, starts' = starts,
           InFlight(net', released), AllIn(keys', released),
           task' \in [Link -> Task], deck' \in [Peer -> Deal \cup {0}],
           locked' \subseteq Peer \X Card, keys' \in [Peer -> [Card -> SUBSET Key]],
           hand' \in [Peer -> Seq(Dealt)], opened' \subseteq Dealt,
           committed' \subseteq Peer,
           phase' \in {"Idle", "Shuffling", "WaitingForPlayers", "PreFlop"},
           pc' \in {"idle", "assign", "lock", "request", "wait"},
           rejected' \subseteq Peer \X Card
    PROVE  KeyInv'
<1>1. TypeOK'
    BY DEF KeyInv, TypeOK, InFlight
<1>. QED BY <1>1 DEF KeyInv

LEMMA ReceivingFacts ==
    ASSUME KeyInv, NEW p \in Peer, NEW q \in Peer, NEW type, Receives(q, p, type)
    PROVE  /\ starts # 0 /\ starts \in Deal
           /\ <<p, q>> \in Link
           /\ InFlight(Read(net, p, q), released)
           /\ Head(net[<<p, q>>]) \in Sent(<<p, q>>, released)
           /\ Head(net[<<p, q>>]) \in Message
           /\ Head(net[<<p, q>>]).type = type
<1>1. <<p, q>> \in Link /\ net[<<p, q>>] # <<>> /\ Head(net[<<p, q>>]).type = type
    BY DEF Receives
<1>2. starts # 0 /\ starts \in 0 .. MaxStarts
    BY <1>1 DEF KeyInv, TypeOK
<1>3. /\ InFlight(Read(net, p, q), released)
      /\ Head(net[<<p, q>>]) \in Sent(<<p, q>>, released)
    BY <1>1, ReadKeeps DEF KeyInv
<1>. QED BY <1>1, <1>2, <1>3, BoundAssumption DEF Deal, Sent

\* A goroutine in the middle of a handler has its stream's state of one kind.
LEMMA TaskFacts ==
    ASSUME KeyInv, NEW l \in Link
    PROVE  /\ task[l] \in Task
           /\ task[l] # Idle => starts # 0
           /\ task[l].at = "locking" => task[l] # Idle /\ task[l].todo \subseteq Card
           /\ task[l].at \in {"added", "reveal"} => task[l] # Idle /\ task[l].card \in Card
           /\ task[l].at = "append" => task[l] # Idle /\ task[l].dealt \in Dealt
           /\ task[l].at = "write" => task[l] # Idle /\ task[l].cards \in Seq(Dealt)
<1>1. task[l] \in Task /\ (task[l] # Idle => starts # 0)
    BY DEF KeyInv, TypeOK
<1>. QED BY <1>1 DEF Task, Idle, Counting

LEMMA NoKeysTyped ==
    /\ NoKeys \in [Card -> SUBSET Key]
    /\ \A c \in Card : NoKeys[c] = {}
BY DEF NoKeys

LEMMA InitEstablishesKeyInv == Init => KeyInv
<1>. SUFFICES ASSUME Init PROVE KeyInv
    OBVIOUS
<1>1. \A l \in Link : net[l] = <<>> /\ task[l] = Idle
    BY DEF Init
<1>2. InFlight(net, released)
    BY <1>1, EmptySeq DEF Init, InFlight
<1>3. TypeOK
    BY <1>2, NoKeysTyped, BoundAssumption DEF Init, TypeOK, InFlight, Task
<1>4. AllIn(keys, released)
    BY NoKeysTyped DEF Init, AllIn
<1>. QED BY <1>1, <1>2, <1>3, <1>4 DEF Init, KeyInv

LEMMA StartKeepsKeyInv ==
    ASSUME KeyInv, Start
    PROVE  KeyInv'
<1>. DEFINE m == [type |-> "shuffle_round", lap |-> 1]
<1>1. m \in Sent(<<Host, 1>>, released)
    BY BoundAssumption DEF Sent, Message
<1>2. InFlight(net', released)
    <2>1. net' = SendTo(net, Host, 1, m)
        BY DEF Start
    <2>. HIDE DEF m
    <2>. QED BY <1>1, <2>1, SendToKeeps DEF KeyInv
<1>3. UNCHANGED <<task, deck, locked, keys, hand, opened, committed, pc, released, rejected>>
    BY DEF Start, locks, hands, history
<1>4. TypeOK' /\ starts' # 0
    BY <1>2, <1>3, BoundAssumption DEF KeyInv, TypeOK, InFlight, Start
<1>. QED BY <1>2, <1>3, <1>4 DEF KeyInv

LEMMA PassDeckKeepsKeyInv ==
    ASSUME KeyInv, NEW p \in Peer, NEW q \in Peer, PassDeck(q, p)
    PROVE  KeyInv'
<1>. DEFINE lap == Head(net[<<p, q>>]).lap
            next == IF q = Host THEN lap + 1 ELSE lap
            m == [type |-> "shuffle_round", lap |-> next]
            rest == Read(net, p, q)
<1>1. Receives(q, p, "shuffle_round")
    BY DEF PassDeck
<1>2. /\ starts # 0 /\ InFlight(rest, released)
      /\ Head(net[<<p, q>>]) \in Message /\ Head(net[<<p, q>>]).type = "shuffle_round"
    BY <1>1, ReceivingFacts
<1>3. lap \in 1 .. Laps
    BY <1>2 DEF Message
<1>4. m \in Sent(<<q, Next0(q)>>, released)
    <2>1. next \in 1 .. Laps
        BY <1>3, BoundAssumption DEF PassDeck
    <2>. QED BY <2>1 DEF Sent, Message
<1>5. net' = SendTo(rest, q, Next0(q), m)
    BY DEF PassDeck
<1>6. InFlight(net', released)
    <2>. HIDE DEF m, rest
    <2>. QED BY <1>2, <1>4, <1>5, SendToKeeps
<1>. QED
    BY <1>2, <1>6, NoKeyReleased
    DEF PassDeck, KeyInv, TypeOK, locks, hands, start, dealing, history

LEMMA FinishDeckKeepsKeyInv ==
    ASSUME KeyInv, NEW p \in Peer, FinishDeck(p)
    PROVE  KeyInv'
<1>. DEFINE m == [type |-> "final_deck", deal |-> starts]
            rest == Read(net, p, Host)
<1>0. Host \in Peer
    BY NAssumption DEF Host, Peer
<1>1. Receives(Host, p, "shuffle_round")
    BY DEF FinishDeck
<1>2. starts # 0 /\ starts \in Deal /\ InFlight(rest, released)
    BY <1>0, <1>1, ReceivingFacts
<1>3. <<m>> \in Seq(Plain)
    <2>1. m \in Plain
        BY <1>2 DEF Plain, Message
    <2>. QED BY <2>1, OneMessage
<1>4. InFlight(net', released)
    <2>1. net' = SendAll(rest, Host, <<m>>)
        BY DEF FinishDeck
    <2>. HIDE DEF m, rest
    <2>. QED BY <1>2, <1>3, <2>1, SendAllKeeps
<1>5. deck' \in [Peer -> Deal \cup {0}]
    BY <1>2 DEF FinishDeck, KeyInv, TypeOK
<1>. QED
    BY <1>2, <1>4, <1>5, NoKeyReleased
    DEF FinishDeck, KeyInv, TypeOK, locks, hands, start, history

LEMMA DealingKeepsKeyInv ==
    ASSUME KeyInv, Dealing
    PROVE  KeyInv'
<1>0. /\ Host \in Peer /\ starts # 0
      /\ InFlight(net, released)
    BY NAssumption DEF Host, Peer, Dealing, BroadcastAssignments, LockCards,
                       RequestOwnKeys, AwaitPlayers, KeyInv
<1>. USE DEF locks, hands, start, history, streams
<1>1. CASE BroadcastAssignments
    <2>1. <<[type |-> "card_assign"]>> \in Seq(Plain)
        <3>1. [type |-> "card_assign"] \in Plain
            BY DEF Plain, Message
        <3>. QED BY <3>1, OneMessage
    <2>2. InFlight(net', released)
        BY <1>0, <1>1, <2>1, SendAllKeeps DEF BroadcastAssignments
    <2>. QED
        BY <1>0, <1>1, <2>2, NoKeyReleased DEF BroadcastAssignments, KeyInv, TypeOK
<1>2. CASE LockCards
    <2>1. keys' \in [Peer -> [Card -> SUBSET Key]] /\ AllIn(keys', released)
        BY <1>0, <1>2, NoKeysTyped DEF LockCards, KeyInv, TypeOK, AllIn
    <2>2. locked' \subseteq Peer \X Card
        BY <1>0, <1>2 DEF LockCards, KeyInv, TypeOK
    <2>. QED
        BY <1>0, <1>2, <2>1, <2>2, NoKeyReleased DEF LockCards, KeyInv, TypeOK
<1>3. CASE RequestOwnKeys
    <2>1. InFlight(net', released)
        BY <1>0, <1>3, RequestsArePlain, SendAllKeeps DEF RequestOwnKeys
    <2>. QED
        BY <1>0, <1>3, <2>1, NoKeyReleased DEF RequestOwnKeys, KeyInv, TypeOK
<1>4. CASE AwaitPlayers
    BY <1>0, <1>4, NoKeyReleased DEF AwaitPlayers, KeyInv, TypeOK
<1>. QED BY <1>1, <1>2, <1>3, <1>4 DEF Dealing

LEMMA FinalDeckKeepsKeyInv ==
    ASSUME KeyInv, NEW p \in Peer, NEW q \in Peer, HandleFinalDeck(q, p)
    PROVE  KeyInv'
<1>1. Receives(q, p, "final_deck")
    BY DEF HandleFinalDeck
<1>2. /\ starts # 0 /\ InFlight(Read(net, p, q), released)
      /\ Head(net[<<p, q>>]) \in Message /\ Head(net[<<p, q>>]).type = "final_deck"
    BY <1>1, ReceivingFacts
<1>3. Head(net[<<p, q>>]).deal \in Deal
    BY <1>2 DEF Message
<1>4. deck' \in [Peer -> Deal \cup {0}]
    BY <1>3 DEF HandleFinalDeck, KeyInv, TypeOK
<1>. QED
    BY <1>2, <1>4, NoKeyReleased
    DEF HandleFinalDeck, KeyInv, TypeOK, locks, hands, start, dealing, history

LEMMA CardAssignKeepsKeyInv ==
    ASSUME KeyInv, NEW p \in Peer, NEW q \in Peer, HandleCardAssign(q, p)
    PROVE  KeyInv'
<1>1. Receives(q, p, "card_assign")
    BY DEF HandleCardAssign
<1>2. starts # 0 /\ InFlight(Read(net, p, q), released)
    BY <1>1, ReceivingFacts
<1>3. task' \in [Link -> Task]
    <2>1. Locking(Assigned) \in Task
        BY DEF Locking, Assigned, Task
    <2>. QED BY <2>1 DEF HandleCardAssign, KeyInv, TypeOK
<1>. QED
    BY <1>2, <1>3, NoKeyReleased
    DEF HandleCardAssign, KeyInv, TypeOK, locks, hands, start, dealing, history

LEMMA LockCardKeepsKeyInv ==
    ASSUME KeyInv, NEW p \in Peer, NEW q \in Peer, NEW c \in Card, LockCard(q, p, c)
    PROVE  KeyInv'
<1>. DEFINE l == <<p, q>>
<1>1. l \in Link /\ task[l].at = "locking" /\ starts # 0 /\ task[l].todo \subseteq Card
    BY TaskFacts DEF LockCard
<1>2. task' \in [Link -> Task]
    <2>1. Locking(task[l].todo \ {c}) \in Task
        BY <1>1 DEF Locking, Task
    <2>. QED BY <2>1 DEF LockCard, KeyInv, TypeOK
<1>3. /\ keys' \in [Peer -> [Card -> SUBSET Key]] /\ AllIn(keys', released)
      /\ locked' \subseteq Peer \X Card
    BY DEF LockCard, KeyInv, TypeOK, AllIn
<1>4. InFlight(net', released)
    <2>1. net' = net \/ net' = SendAll(net, q, <<Request(q, c)>>)
        BY DEF LockCard
    <2>. QED BY <2>1, RequestsArePlain, SendAllKeeps DEF KeyInv
<1>. QED
    BY <1>1, <1>2, <1>3, <1>4, NoKeyReleased
    DEF LockCard, KeyInv, TypeOK, hands, start, dealing, history

\* A key goes out, and is known to have.
LEMMA KeyRequestKeepsKeyInv ==
    ASSUME KeyInv, NEW p \in Peer, NEW q \in Peer, HandleKeyRequest(q, p)
    PROVE  KeyInv'
<1>. DEFINE req == Head(net[<<p, q>>])
            rest == Read(net, p, q)
            key == [type |-> "key_response", card |-> req.card, deal |-> deck[q]]
<1>1. Receives(q, p, "key_request")
    BY DEF HandleKeyRequest
<1>2. /\ starts # 0 /\ InFlight(rest, released)
      /\ req \in Message /\ req.type = "key_request"
    BY <1>1, ReceivingFacts
<1>3. req.card \in Card
    BY <1>2 DEF Message
<1>4. UNCHANGED <<task, deck, locked, keys, hand, opened, committed, phase, pc, starts>>
    BY DEF HandleKeyRequest, locks, hands, start, dealing
<1>5. CASE MayHaveKey(q, req)
    <2>1. /\ net' = SendTo(rest, q, p, key)
          /\ released' = released \cup {<<q, req.card, deck[q]>>}
          /\ rejected' = rejected
        BY <1>5 DEF HandleKeyRequest
    <2>2. deck[q] \in Deal
        BY <1>5 DEF MayHaveKey, KeyInv, TypeOK
    <2>3. key \in Sent(<<q, p>>, released')
        BY <1>3, <2>1, <2>2 DEF Sent, Message
    <2>4. InFlight(net', released')
        <3>. HIDE DEF key, rest
        <3>1. InFlight(rest, released')
            BY <1>2, <2>1, InFlightGrows
        <3>. QED BY <2>1, <2>3, <3>1, SendToKeeps
    <2>5. released' \subseteq Peer \X Card \X Deal
        BY <1>3, <2>1, <2>2 DEF KeyInv, TypeOK
    <2>6. TypeOK'
        BY <1>4, <2>1, <2>4, <2>5 DEF KeyInv, TypeOK, InFlight
    <2>7. AllIn(keys', released')
        BY <1>4, <2>1 DEF KeyInv, AllIn
    <2>. QED BY <1>2, <1>4, <2>4, <2>6, <2>7 DEF KeyInv
<1>6. CASE ~MayHaveKey(q, req)
    <2>1. /\ net' = rest /\ released' = released
          /\ rejected' = rejected \cup {<<q, req.card>>}
        BY <1>6 DEF HandleKeyRequest
    <2>2. rejected' \subseteq Peer \X Card
        BY <1>3, <2>1 DEF KeyInv, TypeOK
    <2>. QED
        BY <1>2, <1>4, <2>1, <2>2, NoKeyReleased DEF KeyInv, TypeOK
<1>. QED BY <1>5, <1>6

\* A key comes in.
LEMMA KeyResponseKeepsKeyInv ==
    ASSUME KeyInv, NEW p \in Peer, NEW q \in Peer, HandleKeyResponse(q, p)
    PROVE  KeyInv'
<1>. DEFINE m == Head(net[<<p, q>>])
            received == AddKey(keys[q][m.card], p, m.deal)
<1>1. Receives(q, p, "key_response") /\ net' = Read(net, p, q)
    BY DEF HandleKeyResponse
<1>2. /\ starts # 0 /\ InFlight(net', released)
      /\ m \in Sent(<<p, q>>, released)
      /\ m \in Message /\ m.type = "key_response"
    BY <1>1, ReceivingFacts
<1>3. m.card \in Card /\ m.deal \in Deal /\ <<p, m.card, m.deal>> \in released
    <2>1. m.card \in Card /\ m.deal \in Deal
        BY <1>2 DEF Message
    <2>. QED BY <1>2, <2>1 DEF Sent
<1>4. UNCHANGED <<deck, locked, hand, opened, committed, phase, pc, starts, released, rejected>>
    BY DEF HandleKeyResponse, hands, start, dealing, history
<1>5. CASE UNCHANGED <<keys, task>>
    BY <1>2, <1>4, <1>5, NoKeyReleased DEF KeyInv, TypeOK
<1>6. CASE /\ keys' = [keys EXCEPT ![q][m.card] = received]
           /\ task' = [task EXCEPT ![<<p, q>>] = [at |-> "added", card |-> m.card]]
    <2>1. /\ received \subseteq Key
          /\ \A k \in received : <<k.from, m.card, k.deal>> \in released
        <3>1. /\ keys[q][m.card] \subseteq Key
              /\ \A k \in keys[q][m.card] : <<k.from, m.card, k.deal>> \in released
            BY <1>3 DEF KeyInv, TypeOK, AllIn
        <3>. QED BY <1>3, <3>1 DEF AddKey, Key
    <2>2. keys' \in [Peer -> [Card -> SUBSET Key]]
        <3>. HIDE DEF received
        <3>. QED BY <1>3, <1>6, <2>1 DEF KeyInv, TypeOK
    <2>3. AllIn(keys', released)
        <3>. SUFFICES ASSUME NEW r \in Peer, NEW c \in Card
                      PROVE  \A k \in keys'[r][c] : <<k.from, c, k.deal>> \in released
            BY DEF AllIn
        <3>1. keys'[r][c] = IF r = q /\ c = m.card THEN received ELSE keys[r][c]
            <4>. HIDE DEF received
            <4>. QED BY <1>3, <1>6 DEF KeyInv, TypeOK
        <3>. HIDE DEF received
        <3>. QED BY <2>1, <3>1 DEF KeyInv, AllIn
    <2>4. task' \in [Link -> Task]
        <3>1. [at |-> "added", card |-> m.card] \in Task
            BY <1>3 DEF Task
        <3>. QED BY <1>6, <3>1 DEF KeyInv, TypeOK
    <2>. QED BY <1>2, <1>4, <2>2, <2>3, <2>4, NoKeyReleased DEF KeyInv, TypeOK
<1>. QED BY <1>5, <1>6 DEF HandleKeyResponse

\* The handler goes on: only its own state, the hand and the commitment change.
LEMMA HandlerKeepsKeyInv ==
    ASSUME KeyInv, NEW p \in Peer, NEW q \in Peer,
           \/ CheckKeys(q, p) \/ RevealCard(q, p) \/ ReadHand(q, p)
           \/ WriteHand(q, p) \/ CountHand(q, p)
    PROVE  KeyInv'
<1>. DEFINE l == <<p, q>>
<1>. USE DEF locks, hands, start, dealing, history
<1>1. CASE CheckKeys(q, p)
    <2>1. starts # 0 /\ task[l].card \in Card
        BY <1>1, TaskFacts DEF CheckKeys
    <2>2. [at |-> "reveal", card |-> task[l].card] \in Task /\ Idle \in Task
        BY <2>1 DEF Task
    <2>3. task' \in [Link -> Task]
        BY <1>1, <2>2 DEF CheckKeys, KeyInv, TypeOK
    <2>. QED BY <1>1, <2>1, <2>3, NoKeyReleased DEF CheckKeys, KeyInv, TypeOK
<1>2. CASE RevealCard(q, p)
    <2>1. starts # 0 /\ task[l].card \in Card
        BY <1>2, TaskFacts DEF RevealCard
    <2>2. CASE /\ deck[q] # 0
               /\ opened' = opened \cup {<<task[l].card, deck[q]>>}
               /\ task' = [task EXCEPT ![l] =
                             [at |-> "append", dealt |-> <<task[l].card, deck[q]>>]]
        <3>1. <<task[l].card, deck[q]>> \in Dealt
            BY <2>1, <2>2 DEF KeyInv, TypeOK, Dealt
        <3>2. [at |-> "append", dealt |-> <<task[l].card, deck[q]>>] \in Task
            BY <3>1 DEF Task
        <3>3. task' \in [Link -> Task] /\ opened' \subseteq Dealt
            BY <2>2, <3>1, <3>2 DEF KeyInv, TypeOK
        <3>. QED BY <1>2, <2>1, <3>3, NoKeyReleased DEF RevealCard, KeyInv, TypeOK
    <2>3. CASE opened' = opened /\ task' = [task EXCEPT ![l] = Idle]
        <3>1. task' \in [Link -> Task]
            BY <2>3 DEF KeyInv, TypeOK, Task
        <3>. QED BY <1>2, <2>1, <2>3, <3>1, NoKeyReleased DEF RevealCard, KeyInv, TypeOK
    <2>. QED BY <1>2, <2>2, <2>3 DEF RevealCard, Decrypts
<1>3. CASE ReadHand(q, p)
    <2>1. starts # 0 /\ task[l].dealt \in Dealt
        BY <1>3, TaskFacts DEF ReadHand
    <2>2. Append(hand[q], task[l].dealt) \in Seq(Dealt)
        BY <2>1, AppendProperties DEF KeyInv, TypeOK
    <2>3. [at |-> "write", cards |-> Append(hand[q], task[l].dealt)] \in Task
        BY <2>2 DEF Task
    <2>4. task' \in [Link -> Task]
        BY <1>3, <2>3 DEF ReadHand, KeyInv, TypeOK
    <2>. QED BY <1>3, <2>1, <2>4, NoKeyReleased DEF ReadHand, KeyInv, TypeOK
<1>4. CASE WriteHand(q, p)
    <2>1. starts # 0 /\ task[l].cards \in Seq(Dealt)
        BY <1>4, TaskFacts DEF WriteHand
    <2>2. task' \in [Link -> Task] /\ hand' \in [Peer -> Seq(Dealt)]
        BY <1>4, <2>1 DEF WriteHand, KeyInv, TypeOK, Task
    <2>. QED BY <1>4, <2>1, <2>2, NoKeyReleased DEF WriteHand, KeyInv, TypeOK
<1>5. CASE CountHand(q, p)
    <2>1. starts # 0
        BY <1>5, TaskFacts DEF CountHand, Counting, Idle
    <2>2. task' \in [Link -> Task]
        BY <1>5 DEF CountHand, KeyInv, TypeOK, Task
    <2>3. InFlight(net', released)
        <3>1. Commitment \in Sent(<<q, Host>>, released)
            BY DEF Commitment, Sent, Message
        <3>2. net' = net \/ net' = SendTo(net, q, Host, Commitment)
            BY <1>5 DEF CountHand
        <3>. QED BY <3>1, <3>2, SendToKeeps DEF KeyInv
    <2>4. /\ committed' \subseteq Peer
          /\ phase' \in {"Idle", "Shuffling", "WaitingForPlayers", "PreFlop"}
        BY <1>5 DEF CountHand, PhaseAfter, KeyInv, TypeOK
    <2>. QED BY <1>5, <2>1, <2>2, <2>3, <2>4, NoKeyReleased DEF CountHand, KeyInv, TypeOK
<1>. QED BY <1>1, <1>2, <1>3, <1>4, <1>5

LEMMA CommitmentKeepsKeyInv ==
    ASSUME KeyInv, NEW p \in Peer, HandleCommitment(p)
    PROVE  KeyInv'
<1>0. Host \in Peer
    BY NAssumption DEF Host, Peer
<1>1. Receives(Host, p, "hand_commitment")
    BY DEF HandleCommitment
<1>2. starts # 0 /\ InFlight(Read(net, p, Host), released)
    BY <1>0, <1>1, ReceivingFacts
<1>3. /\ committed' \subseteq Peer
      /\ phase' \in {"Idle", "Shuffling", "WaitingForPlayers", "PreFlop"}
    BY DEF HandleCommitment, PhaseAfter, KeyInv, TypeOK
<1>. QED
    BY <1>2, <1>3, NoKeyReleased
    DEF HandleCommitment, KeyInv, TypeOK, locks, hands, dealing, history

LEMMA NextKeepsKeyInv ==
    ASSUME KeyInv, [Next]_vars
    PROVE  KeyInv'
<1>1. CASE UNCHANGED vars
    BY <1>1 DEF vars, streams, locks, hands, start, dealing, history,
                KeyInv, TypeOK, InFlight, AllIn
<1>2. ASSUME NEW p \in Peer, NEW q \in Peer, Deliver(q, p)
      PROVE  KeyInv'
    BY <1>2, PassDeckKeepsKeyInv, FinishDeckKeepsKeyInv, FinalDeckKeepsKeyInv,
       CardAssignKeepsKeyInv, KeyRequestKeepsKeyInv, KeyResponseKeepsKeyInv,
       CommitmentKeepsKeyInv DEF Deliver
<1>3. ASSUME NEW p \in Peer, NEW q \in Peer, GoOn(q, p)
      PROVE  KeyInv'
    BY <1>3, LockCardKeepsKeyInv, HandlerKeepsKeyInv DEF GoOn
<1>. QED
    BY <1>1, <1>2, <1>3, StartKeepsKeyInv, DealingKeepsKeyInv DEF Next

-----------------------------------------------------------------------------
(* The theorems. *)

\* Streams, handlers, locks, hands and keys keep their types, whatever the
\* wiring and however the handlers of a peer's streams overlap.
THEOREM KeyExchangeTypes == Spec => []TypeOK
<1>1. Init => KeyInv
    BY InitEstablishesKeyInv
<1>2. KeyInv /\ [Next]_vars => KeyInv'
    BY NextKeepsKeyInv
<1>3. KeyInv => TypeOK
    BY DEF KeyInv
<1>. QED BY <1>1, <1>2, <1>3, PTL DEF Spec

\* revealCard shows a card only when all the keys it was dealt under are there,
\* and they are there because they were released.
LEMMA RevealOpens ==
    ASSUME DealtLayers = [p \in Peer |-> Peer \ {p}],
           KeyInv, NEW p \in Peer, NEW q \in Peer, RevealCard(q, p)
    PROVE  [Protocol!Next]_<<released, opened>>
<1>. DEFINE c == task[<<p, q>>].card
            received == keys[q][c]
            reads == /\ Parses /\ Decrypts(q, c, received)
                     /\ q \in Roster[q] /\ OwnerOf[c] = q
<1>1. c \in Card
    BY TaskFacts DEF RevealCard
<1>2. released' = released
    BY DEF RevealCard, history
<1>3. CASE reads
    <2>1. opened' = opened \cup {<<c, deck[q]>>}
        BY <1>3 DEF RevealCard
    <2>2. deck[q] \in Deal
        BY <1>3 DEF Decrypts, KeyInv, TypeOK
    <2>3. \A r \in Peer \ {OwnerOf[c]} : <<r, c, deck[q]>> \in released
        <3>1. /\ \A k \in received : k.deal = deck[q]
              /\ {k.from : k \in received} = Peer \ {q}
            BY <1>1, <1>3 DEF Decrypts, OwnerOf, Card
        <3>2. \A k \in received : <<k.from, c, k.deal>> \in released
            BY <1>1 DEF KeyInv, AllIn
        <3>3. OwnerOf[c] = q
            BY <1>3
        <3>. HIDE DEF received, c
        <3>4. ASSUME NEW r \in Peer \ {q} PROVE <<r, c, deck[q]>> \in released
            <4>1. PICK k \in received : k.from = r
                BY <3>1
            <4>. QED BY <3>1, <3>2, <4>1
        <3>. QED BY <3>3, <3>4
    <2>4. Protocol!Open(c, deck[q])
        BY <1>2, <2>1, <2>3 DEF Protocol!Open
    <2>. QED BY <1>1, <2>2, <2>4 DEF Protocol!Next
<1>4. CASE ~reads
    BY <1>2, <1>4 DEF RevealCard
<1>. QED BY <1>3, <1>4

LEMMA RequestReleases ==
    ASSUME KeyInv, NEW p \in Peer, NEW q \in Peer, HandleKeyRequest(q, p)
    PROVE  [Protocol!Next]_<<released, opened>>
<1>. DEFINE req == Head(net[<<p, q>>])
<1>1. opened' = opened
    BY DEF HandleKeyRequest, hands
<1>2. req.card \in Card
    <2>1. req \in Message /\ req.type = "key_request"
        BY ReceivingFacts DEF HandleKeyRequest
    <2>. QED BY <2>1 DEF Message
<1>3. CASE MayHaveKey(q, req)
    <2>1. q # OwnerOf[req.card] /\ deck[q] \in Deal
        BY <1>3 DEF MayHaveKey, KeyInv, TypeOK
    <2>2. Protocol!Release(q, req.card, deck[q])
        BY <1>1, <1>3, <2>1 DEF HandleKeyRequest, Protocol!Release
    <2>. QED BY <1>2, <2>1, <2>2 DEF Protocol!Next
<1>4. CASE ~MayHaveKey(q, req)
    BY <1>1, <1>4 DEF HandleKeyRequest
<1>. QED BY <1>3, <1>4

\* With cards under the layers DecryptCard is written for, the exchange
\* implements the N - 1 key protocol for every number of peers, cards and deals:
\* no card is read before all the others have released their key to that card
\* of that deal, however requests, keys and decks overtake each other and the
\* handlers of the peer's streams overlap.
THEOREM OpensOnlyWithAllKeys ==
    ASSUME DealtLayers = [p \in Peer |-> Peer \ {p}]
    PROVE  Spec => NeverOpenedEarly
<1>1. Init => KeyInv
    BY InitEstablishesKeyInv
<1>2. KeyInv /\ [Next]_vars => KeyInv'
    BY NextKeepsKeyInv
<1>3. Init => Protocol!Init
    BY DEF Init, Protocol!Init
<1>4. KeyInv /\ [Next]_vars => [Protocol!Next]_<<released, opened>>
    <2>. SUFFICES ASSUME KeyInv, [Next]_vars
                  PROVE  [Protocol!Next]_<<released, opened>>
        OBVIOUS
    <2>. USE DEF history, hands
    <2>1. ASSUME NEW p \in Peer, NEW q \in Peer, Deliver(q, p)
          PROVE  [Protocol!Next]_<<released, opened>>
        <3>1. CASE HandleKeyRequest(q, p)
            BY <3>1, RequestReleases
        <3>2. CASE \/ PassDeck(q, p) \/ FinishDeck(p) \/ HandleFinalDeck(q, p)
                   \/ HandleCardAssign(q, p) \/ HandleKeyResponse(q, p)
                   \/ HandleCommitment(p)
            BY <3>2 DEF PassDeck, FinishDeck, HandleFinalDeck, HandleCardAssign,
                        HandleKeyResponse, HandleCommitment
        <3>. QED BY <2>1, <3>1, <3>2 DEF Deliver
    <2>2. ASSUME NEW p \in Peer, NEW q \in Peer, GoOn(q, p)
          PROVE  [Protocol!Next]_<<released, opened>>
        <3>1. CASE RevealCard(q, p)
            BY <3>1, RevealOpens
        <3>2. CASE \/ \E c \in Card : LockCard(q, p, c)
                   \/ CheckKeys(q, p) \/ ReadHand(q, p) \/ WriteHand(q, p)
                   \/ CountHand(q, p)
            BY <3>2 DEF LockCard, CheckKeys, ReadHand, WriteHand, CountHand
        <3>. QED BY <2>2, <3>1, <3>2 DEF GoOn
    <2>3. CASE Start \/ Dealing \/ UNCHANGED vars
        BY <2>3 DEF Start, Dealing, BroadcastAssignments, LockCards,
                    RequestOwnKeys, AwaitPlayers, vars
    <2>. QED BY <2>1, <2>2, <2>3 DEF Next
<1>. QED BY <1>1, <1>2, <1>3, <1>4, PTL DEF Spec, NeverOpenedEarly, Protocol!Spec
=============================================================================
