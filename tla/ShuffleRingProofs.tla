-------------------------- MODULE ShuffleRingProofs --------------------------
(***************************************************************************)
(* Proofs about ShuffleRing, for every number of peers.                    *)
(*                                                                         *)
(* CountersAgree and NeverSpoiled are not inductive: whether the next      *)
(* touch shuffles depends on the counter of the peer the deck is at, which *)
(* they do not tie to where the deck is.  RingInv does: the deck in flight *)
(* marks the place along the ring where the counters step down by one.     *)
(***************************************************************************)
EXTENDS ShuffleRing, FiniteSetFacts, TLAPS

-----------------------------------------------------------------------------
(* The ring. *)

\* With everybody on the roster the deck goes to the next place of the ring,
\* and from the last one back to the host.
LEMMA NextPlace ==
    ASSUME Roster = [p \in Peer |-> Peer], NEW p \in Peer
    PROVE  GetNextPeer(p) = {IF p < N - 1 THEN p + 1 ELSE Host}
<1>. DEFINE after == {q \in Roster[p] : q > p}
<1>0. Roster[p] = Peer /\ Peer \subseteq Nat /\ N \in Nat /\ N >= 2 /\ Host \in Peer
    BY NAssumption DEF Peer, Host
<1>1. CASE p < N - 1
    <2>0. p \in Nat /\ p + 1 \in Peer /\ p + 1 > p
        BY <1>0, <1>1 DEF Peer
    <2>1. p + 1 \in after
        BY <1>0, <2>0
    <2>2. Min(after) \in after /\ \A y \in after : Min(after) <= y
        BY <1>0, <2>1, MinIsMember
    <2>. DEFINE m == Min(after)
    <2>3. m \in Nat /\ m > p /\ m <= p + 1
        BY <1>0, <2>1, <2>2
    <2>. HIDE DEF m
    <2>4. m = p + 1
        BY <2>0, <2>3
    <2>. QED BY <1>0, <1>1, <2>1, <2>4 DEF GetNextPeer, m
<1>2. CASE ~(p < N - 1)
    <2>1. after = {}
        BY <1>0, <1>2 DEF Peer
    <2>2. Min(Peer) \in Peer /\ \A y \in Peer : Min(Peer) <= y
        BY <1>0, MinIsMember
    <2>3. Min(Peer) = Host
        BY <1>0, <2>2 DEF Host, Peer
    <2>. QED BY <1>0, <1>2, <2>1, <2>3 DEF GetNextPeer
<1>. QED BY <1>1, <1>2

\* So every peer's phases change after N and after 2N touches.
LEMMA PhasesOfFullRoster ==
    ASSUME Roster = [p \in Peer |-> Peer], NEW p \in Peer, NEW k \in Nat
    PROVE  PhaseAfter(p, k) = IF k <= N THEN "encrypt"
                              ELSE IF k <= 2 * N THEN "decrypt" ELSE "done"
<1>1. Cardinality(Peer) = N
    BY NAssumption, FS_Interval DEF Peer
<1>. QED BY <1>1 DEF PhaseAfter
-----------------------------------------------------------------------------
(* The inductive invariant. *)

Next1(p) == IF p < N - 1 THEN p + 1 ELSE Host     \* next along the ring
Prev1(p) == IF p = Host THEN N - 1 ELSE p - 1     \* who touched a deck last

\* Everybody the deck has passed on this lap is one touch ahead.
CountersFollow(deck) ==
    \A p \in Peer : step[p] = IF deck.at = Host \/ p < deck.at
                              THEN step[Host] ELSE step[Host] - 1

Honest(deck) ==
    /\ CountersFollow(deck)
    /\ deck.opened <=> step[Prev1(deck.at)] > N
    /\ ~deck.spoiled
    /\ HostKnown => step[Host] <= 2 * N

RingInv ==
    /\ TypeOK
    /\ starts <= 1
    /\ starts = 0 => decks = {} /\ dealt = {} /\ step = [p \in Peer |-> 0]
    /\ \A p \in Joiners : IF p \in ready THEN inits[p] >= 1 ELSE step[p] = 0
    /\ \A d, e \in decks : d = e
    /\ \A d \in decks : Honest(d)
    /\ dealt # {} => decks = {}
    /\ \A d \in dealt : ~d.spoiled
    /\ CountersAgree
    /\ DealtAfterAll

LEMMA SendGoesRound ==
    ASSUME OneHand, NEW p \in Peer, NEW deck
    PROVE  Send(p, deck) \subseteq {[deck EXCEPT !.at = Next1(p)]}
BY NextPlace DEF OneHand, Send, Next1

LEMMA TouchOfFullRoster ==
    ASSUME OneHand, NEW p \in Peer, NEW deck \in Decks, NEW k \in Nat
    PROVE  /\ Touch(p, deck, k) \in Decks
           /\ Touch(p, deck, k).at = deck.at
           /\ Touch(p, deck, k).opened = (deck.opened \/ k > N)
           /\ Touch(p, deck, k).spoiled = (deck.spoiled \/ (deck.opened /\ k <= N))
<1>1. PhaseAfter(p, k) = "encrypt" <=> k <= N
    BY PhasesOfFullRoster DEF OneHand
<1>2. XOR(deck.layers, SecretOf(p)) \in SUBSET Layers
    BY DEF XOR, SecretOf, Layers, Decks
<1>. DEFINE layers == XOR(deck.layers, SecretOf(p))
            shuffles == PhaseAfter(p, k) = "encrypt"
<1>3. Touch(p, deck, k) = [deck EXCEPT !.layers = layers,
                                       !.opened = @ \/ ~shuffles,
                                       !.spoiled = @ \/ (deck.opened /\ shuffles)]
    BY DEF Touch
<1>4. shuffles \in BOOLEAN /\ (shuffles <=> k <= N) /\ (~shuffles <=> k > N)
    BY <1>1, NAssumption
<1>. HIDE DEF layers, shuffles
<1>5. /\ Touch(p, deck, k) \in Decks
      /\ Touch(p, deck, k).at = deck.at
      /\ Touch(p, deck, k).opened = (deck.opened \/ ~shuffles)
      /\ Touch(p, deck, k).spoiled = (deck.spoiled \/ (deck.opened /\ shuffles))
    BY <1>2, <1>3, <1>4 DEF Decks, layers
<1>. QED BY <1>4, <1>5

LEMMA RingPlaces ==
    ASSUME NEW p \in Peer
    PROVE  /\ Host \in Peer /\ N \in Nat /\ N >= 2 /\ p \in Nat
           /\ Next1(p) \in Peer /\ Prev1(p) \in Peer
           /\ Prev1(Next1(p)) = p
BY NAssumption DEF Peer, Host, Next1, Prev1

LEMMA InitEstablishesRingInv == OneHand /\ Init => RingInv
<1>. SUFFICES ASSUME Init PROVE RingInv
    OBVIOUS
<1>1. TypeOK
    BY DEF Init, TypeOK
<1>2. CountersAgree
    BY DEF Init, CountersAgree
<1>. QED BY <1>1, <1>2 DEF Init, RingInv, DealtAfterAll, Joiners

LEMMA StartKeepsRingInv ==
    ASSUME OneHand, RingInv, Start
    PROVE  RingInv'
<1>. DEFINE fresh == [id |-> starts, at |-> Host,
                      layers |-> XOR({"my_cipher"}, SecretOf(Host)),
                      opened |-> FALSE, spoiled |-> FALSE]
            sent == [fresh EXCEPT !.at = Next1(Host)]
<1>0. Host \in Peer /\ N \in Nat /\ N >= 2 /\ Next1(Host) = 1 /\ Peer \subseteq Nat
      /\ 1 \in Peer
    BY NAssumption DEF Peer, Host, Next1
<1>1. starts = 0
    BY BoundAssumption DEF OneHand, RingInv, TypeOK, Start
<1>2. /\ decks = {} /\ dealt = {} /\ \A p \in Peer : step[p] = 0
      /\ step \in [Peer -> Nat] /\ TypeOK
    BY <1>1 DEF RingInv, TypeOK
<1>3. /\ decks' \subseteq {sent} /\ dealt' = {} /\ step' = [step EXCEPT ![Host] = 1]
      /\ ready' = ready \cup {Host} /\ starts' = 1
      /\ down' = down /\ inits' = inits
    <2>1. Send(Host, fresh) \subseteq {sent}
        BY <1>0, SendGoesRound
    <2>2. /\ decks' = decks \cup Send(Host, fresh) /\ dealt' = dealt
          /\ step' = [step EXCEPT ![Host] = 1]
          /\ ready' = ready \cup {Host} /\ starts' = starts + 1
          /\ down' = down /\ inits' = inits
        BY DEF Start
    <2>. HIDE DEF fresh, sent
    <2>. QED BY <1>1, <1>2, <2>1, <2>2
<1>4. sent \in Decks /\ sent.at = 1 /\ ~sent.opened /\ ~sent.spoiled
    BY <1>0, <1>1 DEF Decks, XOR, SecretOf, Layers
<1>. HIDE DEF sent
<1>5. \A p \in Peer : step'[p] = IF p = Host THEN 1 ELSE 0
    BY <1>0, <1>2, <1>3
<1>6. ASSUME NEW d \in decks' PROVE Honest(d)'
    <2>1. d = sent /\ Prev1(1) = Host
        BY <1>3 DEF Prev1, Host
    <2>2. CountersFollow(d)'
        BY <1>0, <1>4, <1>5, <2>1 DEF CountersFollow, Host
    <2>. QED BY <1>0, <1>4, <1>5, <2>1, <2>2 DEF Honest
<1>7. TypeOK'
    BY <1>0, <1>2, <1>3, <1>4 DEF TypeOK
<1>8. CountersAgree'
    BY <1>0, <1>5 DEF CountersAgree, Host
<1>9. \A p \in Joiners : IF p \in ready' THEN inits'[p] >= 1 ELSE step'[p] = 0
    BY <1>2, <1>3 DEF RingInv, Joiners
<1>10. \A d, e \in decks' : d = e
    BY <1>3
<1>. QED BY <1>3, <1>6, <1>7, <1>8, <1>9, <1>10 DEF RingInv, DealtAfterAll

\* The step that matters: the deck moves one place on.
LEMMA RoundKeepsRingInv ==
    ASSUME OneHand, RingInv, NEW p \in Peer, NEW deck \in decks,
           HandleShuffleRound(p, deck)
    PROVE  RingInv'
<1>. DEFINE k == step[p] + 1
            touched == Touch(p, deck, k)
            sent == [touched EXCEPT !.at = Next1(p)]
<1>0. /\ Host \in Peer /\ N \in Nat /\ N >= 2 /\ Peer \subseteq Nat /\ p \in Nat
      /\ Next1(p) \in Peer /\ Prev1(Next1(p)) = p
    BY RingPlaces, NAssumption DEF Peer
<1>1. /\ TypeOK /\ deck \in Decks /\ step \in [Peer -> Nat] /\ k \in Nat
      /\ decks = {deck} /\ dealt = {} /\ starts <= 1 /\ starts # 0
    BY DEF RingInv, TypeOK
<1>2. Honest(deck) /\ deck.at = p
    BY DEF RingInv, HandleShuffleRound
<1>3. /\ step' = [step EXCEPT ![p] = k]
      /\ ready' = ready /\ down' = down /\ starts' = starts /\ inits' = inits
      /\ p \in ready
    BY DEF HandleShuffleRound
<1>4. /\ touched \in Decks /\ touched.opened = (deck.opened \/ k > N)
      /\ touched.spoiled = (deck.spoiled \/ (deck.opened /\ k <= N))
    BY <1>1, TouchOfFullRoster
<1>5. Send(p, touched) \subseteq {sent}
    BY SendGoesRound
<1>. HIDE DEF touched
<1>6. sent \in Decks /\ sent.at = Next1(p) /\ sent.opened = touched.opened
      /\ sent.spoiled = touched.spoiled
    BY <1>0, <1>4 DEF Decks
<1>. HIDE DEF sent
\* Where the counters stood when the deck arrived, and where they stand now.
<1>7. \A q \in Peer : step[q] = IF p = Host \/ q < p THEN step[Host] ELSE step[Host] - 1
    BY <1>2 DEF Honest, CountersFollow
<1>8. \A q \in Peer : step'[q] = IF q = p THEN k ELSE step[q]
    BY <1>1, <1>3
<1>9. k = IF p = Host THEN step[Host] + 1 ELSE step[Host]
    BY <1>0, <1>1, <1>7 DEF Host
<1>10. CountersAgree'
    <2>. SUFFICES ASSUME NEW q \in Peer, NEW r \in Peer, q < r
                  PROVE  step'[q] \in {step'[r], step'[r] + 1}
        BY DEF CountersAgree
    <2>. QED BY <1>0, <1>1, <1>7, <1>8, <1>9 DEF Host
\* A shuffling touch meets an unopened deck: whoever touched it last has
\* counted as far as p does now.
<1>11. step[Prev1(p)] = k \/ (p = Host /\ step[Prev1(p)] = k - 1)
    <2>0. Prev1(p) \in Peer
        BY RingPlaces
    <2>1. CASE p = Host
        BY <1>7, <1>9, <1>1, <2>0, <2>1
    <2>2. CASE p # Host
        <3>1. Prev1(p) < p
            BY <1>0, <2>2 DEF Prev1
        <3>. QED BY <1>7, <1>9, <2>0, <2>2, <3>1
    <2>. QED BY <2>1, <2>2
<1>12. ~touched.spoiled /\ (touched.opened <=> k > N)
    <2>1. step[Prev1(p)] \in Nat
        BY <1>1, RingPlaces
    <2>2. step[Prev1(p)] > N => k > N
        BY <1>0, <1>1, <1>11, <2>1
    <2>3. ~(k > N /\ k <= N)
        BY <1>0, <1>1
    <2>. QED BY <1>2, <1>4, <2>2, <2>3, Zenon DEF Honest
<1>. DEFINE complete == p = Host /\ HostKnown /\ PhaseAfter(p, k) = "done"
<1>13. complete <=> p = Host /\ HostKnown /\ k > 2 * N
    BY <1>0, <1>1, PhasesOfFullRoster DEF OneHand
<1>14. TypeOK'
    <2>1. step' \in [Peer -> Nat]
        BY <1>1, <1>3
    <2>2. decks' \subseteq Decks /\ dealt' \subseteq Decks
        BY <1>1, <1>4, <1>5, <1>6 DEF HandleShuffleRound, touched
    <2>. QED BY <1>1, <1>3, <2>1, <2>2 DEF TypeOK
<1>15. \A q \in Joiners : IF q \in ready' THEN inits'[q] >= 1 ELSE step'[q] = 0
    BY <1>3, <1>8 DEF RingInv, Joiners
<1>16. CASE complete
    <2>1. decks' = {} /\ dealt' = {touched}
        BY <1>1, <1>16 DEF HandleShuffleRound, touched
    <2>2. step[Host] = 2 * N
        BY <1>0, <1>1, <1>2, <1>9, <1>13, <1>16 DEF Honest
    <2>3. DealtAfterAll'
        BY <1>0, <1>7, <1>8, <1>13, <1>16, <2>2 DEF DealtAfterAll, Joiners
    <2>. QED BY <1>1, <1>3, <1>10, <1>12, <1>14, <1>15, <2>1, <2>3 DEF RingInv
<1>17. CASE ~complete
    <2>1. decks' \subseteq {sent} /\ dealt' = {}
        BY <1>1, <1>5, <1>17 DEF HandleShuffleRound, touched
    <2>2. ASSUME NEW q \in Peer
          PROVE  step'[q] = IF Next1(p) = Host \/ q < Next1(p)
                            THEN step'[Host] ELSE step'[Host] - 1
        <3>0. q \in Nat /\ q <= N - 1 /\ Host \in Peer
            BY <1>0 DEF Peer
        <3>1. CASE p = Host
            BY <1>0, <1>1, <1>7, <1>8, <1>9, <3>0, <3>1 DEF Next1, Host
        <3>2. CASE p # Host /\ p < N - 1
            BY <1>0, <1>1, <1>7, <1>8, <1>9, <3>0, <3>2 DEF Next1, Host
        <3>3. CASE p # Host /\ ~(p < N - 1)
            BY <1>0, <1>1, <1>7, <1>8, <1>9, <3>0, <3>3 DEF Next1, Host
        <3>. QED BY <3>1, <3>2, <3>3
    <2>3. HostKnown => step'[Host] <= 2 * N
        BY <1>0, <1>1, <1>2, <1>8, <1>9, <1>13, <1>17 DEF Honest
    <2>4. step'[Prev1(Next1(p))] = k
        BY <1>0, <1>8
    <2>5. ASSUME NEW d \in decks' PROVE d = sent /\ Honest(d)'
        <3>1. d = sent
            BY <2>1
        <3>2. d.at = Next1(p) /\ ~d.spoiled /\ (d.opened <=> k > N)
            BY <1>6, <1>12, <3>1
        <3>3. CountersFollow(d)'
            BY <2>2, <3>2 DEF CountersFollow
        <3>4. d.opened <=> step'[Prev1(d.at)] > N
            BY <2>4, <3>2
        <3>. QED BY <2>3, <3>1, <3>2, <3>3, <3>4 DEF Honest
    <2>. QED BY <1>1, <1>3, <1>10, <1>14, <1>15, <2>1, <2>5 DEF RingInv, DealtAfterAll
<1>. QED BY <1>16, <1>17

\* The one shuffle_init finds the counter at zero.
LEMMA InitTouchesNoCounter ==
    ASSUME OneHand, RingInv, NEW p \in Joiners, HandleShuffleInit(p)
    PROVE  step' = step
<1>1. inits[p] = 0 /\ step \in [Peer -> Nat] /\ p \in Peer
    BY BoundAssumption DEF HandleShuffleInit, OneHand, RingInv, TypeOK, Joiners
<1>2. step[p] = 0
    BY <1>1 DEF RingInv
<1>. QED BY <1>1, <1>2 DEF HandleShuffleInit

\* A message that starts no touch leaves counters and decks as they are, or loses
\* the deck.
LEMMA OtherStepsKeepRingInv ==
    ASSUME OneHand, RingInv,
           \/ \E p \in Joiners : HandleShuffleInit(p)
           \/ \E p \in Peer, deck \in decks : PanicOnShuffleRound(p, deck)
           \/ \E p \in Peer : Quit(p)
           \/ UNCHANGED vars
    PROVE  RingInv'
<1>1. /\ step' = step /\ decks' \subseteq decks /\ dealt' = dealt
      /\ starts' = starts
    <2>1. ASSUME NEW p \in Joiners, HandleShuffleInit(p)
          PROVE  step' = step
        BY <2>1, InitTouchesNoCounter
    <2>. QED BY <2>1 DEF HandleShuffleInit, PanicOnShuffleRound, Quit, vars
<1>2. TypeOK' /\ \A p \in Joiners : IF p \in ready' THEN inits'[p] >= 1 ELSE step'[p] = 0
    <2>1. ASSUME NEW p \in Joiners, HandleShuffleInit(p)
          PROVE  /\ ready' \subseteq Peer /\ down' \subseteq Peer
                 /\ inits' \in [Joiners -> Nat]
                 /\ \A q \in Joiners : IF q \in ready' THEN inits'[q] >= 1
                                                       ELSE step'[q] = 0
        BY <1>1, <2>1 DEF HandleShuffleInit, RingInv, TypeOK, Joiners
    <2>2. ASSUME \/ \E p \in Peer, deck \in decks : PanicOnShuffleRound(p, deck)
                 \/ \E p \in Peer : Quit(p)
                 \/ UNCHANGED vars
          PROVE  down' \subseteq Peer /\ ready' = ready /\ inits' = inits
        BY <2>2 DEF PanicOnShuffleRound, Quit, vars, RingInv, TypeOK
    <2>. QED BY <1>1, <2>1, <2>2 DEF RingInv, TypeOK
<1>3. \A d \in decks' : Honest(d)'
    BY <1>1 DEF RingInv, Honest, CountersFollow
<1>. QED BY <1>1, <1>2, <1>3 DEF RingInv, CountersAgree, DealtAfterAll

LEMMA NextKeepsRingInv ==
    ASSUME OneHand, RingInv, [Next]_vars
    PROVE  RingInv'
BY StartKeepsRingInv, RoundKeepsRingInv, OtherStepsKeepRingInv DEF Next, Deliver

LEMMA RingInvImplies == RingInv => TypeOK /\ NeverSpoiled /\ CountersAgree /\ DealtAfterAll
BY DEF RingInv, Honest, NeverSpoiled

-----------------------------------------------------------------------------
(* The theorems. *)

\* With one deck in the ring, for every number of peers: no peer reorders a deck
\* that another has begun to decrypt.
THEOREM NeverShuffledOnceOpened ==
    ASSUME OneHand
    PROVE  Spec => []NeverSpoiled
<1>1. Init => RingInv
    BY InitEstablishesRingInv
<1>2. RingInv /\ [Next]_vars => RingInv'
    BY NextKeepsRingInv
<1>3. RingInv => NeverSpoiled
    BY RingInvImplies
<1>. QED BY <1>1, <1>2, <1>3, PTL DEF Spec

\* The peers' private counters never differ by more than the lap in progress.
THEOREM CountersStayTogether ==
    ASSUME OneHand
    PROVE  Spec => []CountersAgree
<1>1. Init => RingInv
    BY InitEstablishesRingInv
<1>2. RingInv /\ [Next]_vars => RingInv'
    BY NextKeepsRingInv
<1>3. RingInv => CountersAgree
    BY RingInvImplies
<1>. QED BY <1>1, <1>2, <1>3, PTL DEF Spec

\* Cards are assigned only after every joiner has finished both phases.
THEOREM HostDealsLast ==
    ASSUME OneHand
    PROVE  Spec => []DealtAfterAll
<1>1. Init => RingInv
    BY InitEstablishesRingInv
<1>2. RingInv /\ [Next]_vars => RingInv'
    BY NextKeepsRingInv
<1>3. RingInv => DealtAfterAll
    BY RingInvImplies
<1>. QED BY <1>1, <1>2, <1>3, PTL DEF Spec

-----------------------------------------------------------------------------
(* The global step. *)

\* A joiner may touch the deck only while it is one touch behind the host, the
\* host only when nobody is: the mapped step is the lap's next turn.
LEMMA RoundIsTurn ==
    ASSUME OneHand, HostKnown, RingInv, NEW p \in Peer, NEW deck \in decks,
           HandleShuffleRound(p, deck)
    PROVE  Laps!Next
<1>. DEFINE k == step[p] + 1
            finished == {q \in Peer : step[q] = step[Host]}
<1>0. /\ Host \in Peer /\ N \in Nat /\ N >= 2 /\ Peer \subseteq Nat
      /\ 2 * N \in Nat
    BY NAssumption DEF Peer, Host
<1>1. /\ step \in [Peer -> Nat] /\ k \in Nat /\ dealt = {}
      /\ Honest(deck) /\ deck.at = p
    BY DEF RingInv, TypeOK, HandleShuffleRound
<1>2. step' = [step EXCEPT ![p] = k]
    BY DEF HandleShuffleRound
<1>3. \A q \in Peer : step[q] = IF p = Host \/ q < p THEN step[Host] ELSE step[Host] - 1
    BY <1>1 DEF Honest, CountersFollow
<1>4. step[Host] <= 2 * N
    BY <1>1 DEF Honest
<1>. DEFINE complete == p = Host /\ PhaseAfter(p, k) = "done"
<1>5. dealt' # {} <=> (p = Host /\ k > 2 * N)
    <2>1. complete <=> p = Host /\ k > 2 * N
        BY <1>0, <1>1, PhasesOfFullRoster DEF OneHand
    <2>2. IF complete THEN dealt' = dealt \cup {Touch(p, deck, k)}
                      ELSE dealt' = dealt
        BY HostKnown DEF HandleShuffleRound
    <2>. HIDE DEF complete
    <2>. QED BY <1>1, <2>1, <2>2
<1>8. \A q \in Peer : step'[q] = IF q = p THEN k ELSE step[q]
    BY <1>1, <1>2
<1>9. \A q \in Peer : step[q] \in Nat
    BY <1>1
<1>6. CASE p = Host
    <2>0. k = step[Host] + 1 /\ \A q \in Peer : step[q] = step[Host]
        BY <1>3, <1>6
    <2>1. /\ finished = Peer /\ step'[Host] = step[Host] + 1
          /\ \A q \in Peer : (step'[q] = step'[Host]) <=> (q = Host)
        <3>1. step[Host] \in Nat /\ step[Host] + 1 # step[Host]
            BY <1>0, <1>9
        <3>2. step'[Host] = step[Host] + 1
            BY <1>0, <1>6, <1>8, <2>0
        <3>3. \A q \in Peer : q # Host => step'[q] = step[Host]
            BY <1>6, <1>8, <2>0
        <3>. QED BY <2>0, <3>1, <3>2, <3>3
    <2>2. dealt' # {} <=> step[Host] = 2 * N
        BY <1>0, <1>1, <1>4, <1>5, <1>6
    <2>3. Laps!BeginLap
        BY <1>0, <1>4, <2>1, <2>2 DEF Laps!BeginLap
    <2>. QED BY <2>3 DEF Laps!Next
<1>7. CASE p # Host
    <2>1. /\ p \notin finished /\ step'[Host] = step[Host] /\ k = step[Host]
        BY <1>0, <1>3, <1>7, <1>8, <1>9
    <2>2. {q \in Peer : step'[q] = step'[Host]} = finished \cup {p}
        BY <1>0, <1>8, <2>1
    <2>3. Laps!TakeTurn(p)
        BY <1>1, <1>4, <1>5, <1>7, <2>1, <2>2 DEF Laps!TakeTurn
    <2>. QED BY <2>3 DEF Laps!Next
<1>. QED BY <1>6, <1>7

LEMMA StartIsTurn ==
    ASSUME OneHand, RingInv, Start
    PROVE  Laps!Next
<1>0. Host \in Peer /\ N \in Nat /\ N >= 2
    BY NAssumption DEF Peer, Host
<1>1. starts = 0
    BY BoundAssumption DEF OneHand, RingInv, TypeOK, Start
<1>2. /\ dealt = {} /\ dealt' = {} /\ step = [p \in Peer |-> 0]
      /\ step' = [step EXCEPT ![Host] = 1]
    BY <1>1 DEF RingInv, Start
<1>3. /\ {q \in Peer : step[q] = step[Host]} = Peer
      /\ {q \in Peer : step'[q] = step'[Host]} = {Host}
    BY <1>0, <1>2
<1>. QED BY <1>0, <1>2, <1>3 DEF Laps!Next, Laps!BeginLap

\* The private counters implement the global step, for every number of peers:
\* with one deck, no peer begins a lap before all have finished the last, and
\* the host deals when 2N laps are done and not before.
THEOREM CountersImplementLaps ==
    ASSUME OneHand, HostKnown
    PROVE  Spec => TurnsGoInLaps
<1>1. Init => RingInv
    BY InitEstablishesRingInv
<1>2. RingInv /\ [Next]_vars => RingInv'
    BY NextKeepsRingInv
<1>3. Init => Laps!Init
    BY NAssumption DEF Init, Laps!Init, Peer, Host
<1>4. RingInv /\ [Next]_vars => [Laps!Next]_<<step[Host],
                      {p \in Peer : step[p] = step[Host]}, dealt # {}>>
    <2>1. ASSUME RingInv,
                 \/ \E p \in Joiners : HandleShuffleInit(p)
                 \/ \E p \in Peer, deck \in decks : PanicOnShuffleRound(p, deck)
                 \/ \E p \in Peer : Quit(p)
                 \/ UNCHANGED vars
          PROVE  step' = step /\ dealt' = dealt
        <3>1. ASSUME NEW p \in Joiners, HandleShuffleInit(p)
              PROVE  step' = step
            BY <2>1, <3>1, InitTouchesNoCounter
        <3>. QED BY <2>1, <3>1 DEF HandleShuffleInit, PanicOnShuffleRound, Quit, vars
    <2>. QED BY <2>1, StartIsTurn, RoundIsTurn, HostKnown DEF Next, Deliver
<1>. QED BY <1>1, <1>2, <1>3, <1>4, PTL DEF Spec, TurnsGoInLaps, Laps!Spec
-----------------------------------------------------------------------------
(* Types, whatever the rosters, the wiring and the number of decks. *)

LEMMA TouchedIsDeck ==
    ASSUME NEW p \in Peer, NEW deck \in Decks, NEW k \in Nat
    PROVE  Touch(p, deck, k) \in Decks
<1>1. XOR(deck.layers, SecretOf(p)) \in SUBSET Layers
    BY DEF XOR, SecretOf, Layers, Decks
<1>. DEFINE layers == XOR(deck.layers, SecretOf(p))
            shuffles == PhaseAfter(p, k) = "encrypt"
<1>2. shuffles \in BOOLEAN
    OBVIOUS
<1>3. Touch(p, deck, k) = [deck EXCEPT !.layers = layers,
                                       !.opened = @ \/ ~shuffles,
                                       !.spoiled = @ \/ (deck.opened /\ shuffles)]
    BY DEF Touch
<1>. HIDE DEF layers, shuffles
<1>. QED BY <1>1, <1>2, <1>3 DEF Decks, layers

LEMMA SentAreDecks ==
    ASSUME NEW p \in Peer, NEW deck \in Decks
    PROVE  Send(p, deck) \subseteq Decks
<1>1. GetNextPeer(p) \subseteq Peer
    <2>. DEFINE after == {q \in Roster[p] : q > p}
    <2>0. Roster[p] \subseteq Peer /\ Peer \subseteq Nat
        BY RosterAssumption DEF Peer
    <2>1. after # {} => Min(after) \in after
        BY <2>0, MinIsMember
    <2>2. p \in Roster[p] => Min(Roster[p]) \in Roster[p]
        BY <2>0, MinIsMember
    <2>. QED BY <2>0, <2>1, <2>2 DEF GetNextPeer
<1>2. ASSUME NEW q \in Peer PROVE [deck EXCEPT !.at = q] \in Decks
    BY DEF Decks
<1>. QED BY <1>1, <1>2 DEF Send

\* No handler leaves the ring's state ill-typed: a deck always is at a peer and
\* under layers of the three secrets, with any roster, any links and any number
\* of `start` commands and shuffle_init messages.
THEOREM RingTypeCorrect == Spec => []TypeOK
<1>0. Host \in Peer
    BY NAssumption DEF Peer, Host
<1>1. Init => TypeOK
    BY DEF Init, TypeOK
<1>2. TypeOK /\ [Next]_vars => TypeOK'
    <2>. SUFFICES ASSUME TypeOK, [Next]_vars PROVE TypeOK'
        OBVIOUS
    <2>1. CASE Start
        <3>. DEFINE fresh == [id |-> starts, at |-> Host,
                              layers |-> XOR({"my_cipher"}, SecretOf(Host)),
                              opened |-> FALSE, spoiled |-> FALSE]
        <3>1. fresh \in Decks
            BY <1>0 DEF TypeOK, Decks, XOR, SecretOf, Layers
        <3>2. Send(Host, fresh) \subseteq Decks
            BY <1>0, <3>1, SentAreDecks
        <3>3. /\ decks' = decks \cup Send(Host, fresh)
              /\ starts' = starts + 1 /\ ready' = ready \cup {Host}
              /\ step' = [step EXCEPT ![Host] = 1]
              /\ UNCHANGED <<dealt, down, inits>>
            BY <2>1 DEF Start
        <3>. HIDE DEF fresh
        <3>. QED BY <1>0, <3>2, <3>3 DEF TypeOK
    <2>2. ASSUME NEW p \in Joiners, HandleShuffleInit(p) PROVE TypeOK'
        BY <2>2 DEF HandleShuffleInit, TypeOK, Joiners
    <2>3. ASSUME NEW p \in Peer, NEW deck \in decks, HandleShuffleRound(p, deck)
          PROVE  TypeOK'
        <3>. DEFINE touched == Touch(p, deck, step[p] + 1)
        <3>1. deck \in Decks /\ step[p] + 1 \in Nat
            BY DEF TypeOK
        <3>2. touched \in Decks /\ Send(p, touched) \subseteq Decks
            BY <3>1, TouchedIsDeck, SentAreDecks
        <3>3. /\ step' = [step EXCEPT ![p] = step[p] + 1]
              /\ dealt' \subseteq dealt \cup {touched}
              /\ decks' \subseteq decks \cup Send(p, touched)
              /\ UNCHANGED <<ready, down, starts, inits>>
            BY <2>3 DEF HandleShuffleRound
        <3>. HIDE DEF touched
        <3>. QED BY <3>1, <3>2, <3>3 DEF TypeOK
    <2>4. ASSUME NEW p \in Peer, NEW deck \in decks, PanicOnShuffleRound(p, deck)
          PROVE  TypeOK'
        BY <2>4 DEF PanicOnShuffleRound, TypeOK
    <2>5. ASSUME NEW p \in Peer, Quit(p) PROVE TypeOK'
        BY <2>5 DEF Quit, TypeOK
    <2>6. CASE UNCHANGED vars
        BY <2>6 DEF vars, TypeOK
    <2>. QED BY <2>1, <2>2, <2>3, <2>4, <2>5, <2>6 DEF Next, Deliver
<1>. QED BY <1>1, <1>2, PTL DEF Spec

-----------------------------------------------------------------------------
(* The layers. *)

\* How often the joiners have touched a deck at place `at` which the host has
\* touched h times: all of them in each lap that is over, those it has passed in
\* this one.
JoinerTouches(at, h) == (h - 1) * (N - 1) + (IF at = Host THEN N - 1 ELSE at - 1)

\* A layer is on when it has been toggled an odd number of times.
LayersCount(deck, h) ==
    /\ "my_cipher" \in deck.layers
    /\ "host_secret" \in deck.layers <=> h % 2 = 1
    /\ "some_secret" \in deck.layers <=> JoinerTouches(deck.at, h) % 2 = 1

LayersInv ==
    /\ \A deck \in decks : step[Host] >= 1 /\ LayersCount(deck, step[Host])
    /\ HostLayersRemain

\* Touching a deck toggles one layer.
LEMMA XORToggles ==
    ASSUME NEW layers, NEW secret, NEW x
    PROVE  x \in XOR(layers, secret) <=> IF x = secret THEN x \notin layers
                                                       ELSE x \in layers
BY DEF XOR

LEMMA TouchToggles ==
    ASSUME NEW p \in Peer, NEW deck \in Decks, NEW k \in Nat
    PROVE  Touch(p, deck, k).layers = XOR(deck.layers, SecretOf(p))
<1>. DEFINE layers == XOR(deck.layers, SecretOf(p))
<1>1. Touch(p, deck, k) =
          [deck EXCEPT !.layers = layers,
                       !.opened = @ \/ ~(PhaseAfter(p, k) = "encrypt"),
                       !.spoiled = @ \/ (deck.opened /\ PhaseAfter(p, k) = "encrypt")]
    BY DEF Touch
<1>. HIDE DEF layers
<1>2. Touch(p, deck, k).layers = layers
    BY <1>1 DEF Decks
<1>. QED BY <1>2 DEF layers

LEMMA Parity ==
    ASSUME NEW n \in Nat
    PROVE  ((n + 1) % 2 = 1) <=> ~(n % 2 = 1)
OBVIOUS

LEMMA EvenProduct ==
    ASSUME NEW n \in Nat
    PROVE  (2 * n) % 2 = 0
OBVIOUS

LEMMA StartCountsLayers ==
    ASSUME OneHand, RingInv, Start
    PROVE  LayersInv'
<1>. DEFINE layers == XOR({"my_cipher"}, SecretOf(Host))
            fresh == [id |-> starts, at |-> Host, layers |-> layers,
                      opened |-> FALSE, spoiled |-> FALSE]
            sent == [fresh EXCEPT !.at = Next1(Host)]
<1>0. Host \in Peer /\ N \in Nat /\ N >= 2 /\ Next1(Host) = 1
    BY NAssumption DEF Peer, Host, Next1
<1>1. starts = 0
    BY BoundAssumption DEF OneHand, RingInv, TypeOK, Start
<1>2. decks = {} /\ dealt = {} /\ step \in [Peer -> Nat]
    BY <1>1 DEF RingInv, TypeOK
<1>3. decks' \subseteq {sent} /\ dealt' = {} /\ step'[Host] = 1
    <2>1. Send(Host, fresh) \subseteq {sent}
        BY <1>0, SendGoesRound
    <2>2. /\ decks' = decks \cup Send(Host, fresh) /\ dealt' = dealt
          /\ step' = [step EXCEPT ![Host] = 1]
        BY DEF Start
    <2>. HIDE DEF fresh, sent
    <2>. QED BY <1>0, <1>2, <2>1, <2>2
<1>4. layers = {"my_cipher", "host_secret"}
    BY DEF XOR, SecretOf
<1>5. sent.at = 1 /\ sent.layers = layers
    BY <1>0
<1>. HIDE DEF sent, layers
<1>6. JoinerTouches(sent.at, 1) = 0
    BY <1>0, <1>5 DEF JoinerTouches, Host
<1>7. LayersCount(sent, 1)
    BY <1>4, <1>5, <1>6 DEF LayersCount
<1>. QED BY <1>3, <1>7 DEF LayersInv, HostLayersRemain

LEMMA RoundCountsLayers ==
    ASSUME OneHand, RingInv, LayersInv, NEW p \in Peer, NEW deck \in decks,
           HandleShuffleRound(p, deck)
    PROVE  LayersInv'
<1>. DEFINE k == step[p] + 1
            h == step[Host]
            touched == Touch(p, deck, k)
            sent == [touched EXCEPT !.at = Next1(p)]
<1>0. /\ Host \in Peer /\ N \in Nat /\ N >= 2 /\ p \in Nat /\ p <= N - 1
      /\ Host = 0
    BY RingPlaces, NAssumption DEF Peer, Host
<1>1. /\ deck \in Decks /\ step \in [Peer -> Nat] /\ k \in Nat
      /\ decks = {deck} /\ dealt = {} /\ Honest(deck) /\ deck.at = p
      /\ h \in Nat /\ h >= 1
    BY <1>0 DEF RingInv, TypeOK, HandleShuffleRound, LayersInv
<1>2. LayersCount(deck, h)
    BY DEF LayersInv
<1>3. /\ step' = [step EXCEPT ![p] = k]
      /\ k = IF p = Host THEN h + 1 ELSE h
    BY <1>0, <1>1 DEF HandleShuffleRound, Honest, CountersFollow
<1>4. step'[Host] = k
    BY <1>0, <1>1, <1>3
<1>5. /\ touched.layers = XOR(deck.layers, SecretOf(p))
      /\ touched \in Decks
    BY <1>1, TouchToggles, TouchOfFullRoster
<1>6. Send(p, touched) \subseteq {sent}
    BY SendGoesRound
<1>. HIDE DEF touched
<1>7. sent.at = Next1(p) /\ sent.layers = touched.layers
    BY <1>5 DEF Decks
<1>. HIDE DEF sent
\* One more touch of the host's, or one of a joiner's.
<1>8. /\ "my_cipher" \in touched.layers
      /\ "host_secret" \in touched.layers <=> k % 2 = 1
    BY <1>0, <1>1, <1>2, <1>3, <1>5, XORToggles, Parity DEF SecretOf, LayersCount
<1>. DEFINE J == (h - 1) * (N - 1) + (IF p = Host THEN N - 1 ELSE p - 1)
            L == (h - 1) * (N - 1)
<1>9. J \in Nat /\ J = JoinerTouches(p, h) /\ L \in Nat
    <2>1. L \in Nat
        <3>1. h - 1 \in Nat /\ N - 1 \in Nat
            BY <1>0, <1>1
        <3>. HIDE DEF h
        <3>. QED BY <3>1
    <2>2. J = L + (IF p = Host THEN N - 1 ELSE p - 1)
        OBVIOUS
    <2>3. J = JoinerTouches(p, h)
        BY DEF JoinerTouches
    <2>. HIDE DEF L, J
    <2>. QED BY <1>0, <2>1, <2>2, <2>3
<1>10. "some_secret" \in touched.layers <=> IF p = Host THEN J % 2 = 1
                                                       ELSE (J + 1) % 2 = 1
    <2>1. "some_secret" \in deck.layers <=> J % 2 = 1
        BY <1>1, <1>2, <1>9 DEF LayersCount
    <2>. HIDE DEF J
    <2>. QED BY <1>0, <1>5, <1>9, <2>1, XORToggles, Parity DEF SecretOf
<1>. DEFINE complete == p = Host /\ HostKnown /\ PhaseAfter(p, k) = "done"
<1>11. complete <=> p = Host /\ HostKnown /\ k > 2 * N
    BY <1>0, <1>1, PhasesOfFullRoster DEF OneHand
\* 2N laps are over: each joiner has toggled its layer 2N times.
<1>12. CASE complete
    <2>1. decks' = {} /\ dealt' = {touched}
        BY <1>1, <1>12 DEF HandleShuffleRound, touched
    <2>2. h = 2 * N /\ k = 2 * N + 1 /\ p = Host
        BY <1>0, <1>1, <1>3, <1>11, <1>12 DEF Honest
    <2>3. J = 2 * (N * (N - 1))
        <3>1. J = (2 * N - 1) * (N - 1) + (N - 1)
            BY <2>2
        <3>. HIDE DEF J
        <3>. QED BY <1>0, <3>1
    <2>4. J % 2 = 0 /\ k % 2 = 1
        <3>1. N * (N - 1) \in Nat
            BY <1>0
        <3>2. (2 * (N * (N - 1))) % 2 = 0
            BY <3>1, EvenProduct
        <3>3. (2 * N) % 2 = 0 /\ 2 * N \in Nat
            BY <1>0, EvenProduct
        <3>4. (2 * N + 1) % 2 = 1
            BY <3>3, Parity
        <3>. HIDE DEF J, k
        <3>. QED BY <2>2, <2>3, <3>2, <3>4
    <2>5. /\ "my_cipher" \in touched.layers /\ "host_secret" \in touched.layers
          /\ "some_secret" \notin touched.layers
        <3>. HIDE DEF J, k
        <3>. QED BY <1>8, <1>10, <2>2, <2>4
    <2>6. touched.layers \subseteq {"some_secret", "host_secret", "my_cipher"}
        BY <1>5 DEF Decks, Layers
    <2>7. touched.layers = {"my_cipher", "host_secret"}
        BY <2>5, <2>6
    <2>. QED BY <2>1, <2>7 DEF LayersInv, HostLayersRemain
<1>13. CASE ~complete
    <2>1. decks' \subseteq {sent} /\ dealt' = {}
        BY <1>1, <1>6, <1>13 DEF HandleShuffleRound, touched
    <2>2. JoinerTouches(Next1(p), k) = IF p = Host THEN J ELSE J + 1
        <3>1. JoinerTouches(Next1(p), k) =
                  (k - 1) * (N - 1) + (IF Next1(p) = Host THEN N - 1 ELSE Next1(p) - 1)
            BY DEF JoinerTouches
        <3>2. CASE p = Host
            <4>1. k - 1 = h /\ Next1(p) = 1
                BY <1>0, <1>1, <1>3, <3>2 DEF Next1
            <4>2. JoinerTouches(Next1(p), k) = h * (N - 1)
                <5>1. (IF Next1(p) = Host THEN N - 1 ELSE Next1(p) - 1) = 0
                    BY <1>0, <4>1
                <5>2. h * (N - 1) \in Nat
                    <6>1. N - 1 \in Nat
                        BY <1>0
                    <6>. HIDE DEF h
                    <6>. QED BY <1>1, <6>1
                <5>. HIDE DEF h, k
                <5>. QED BY <3>1, <4>1, <5>1, <5>2
            <4>3. J = (h - 1) * (N - 1) + (N - 1)
                BY <3>2
            <4>4. h * (N - 1) = (h - 1) * (N - 1) + (N - 1)
                <5>. HIDE DEF h
                <5>. QED BY <1>0, <1>1
            <4>. QED BY <3>2, <4>2, <4>3, <4>4
        <3>3. CASE p # Host
            <4>1. k = h /\ (IF Next1(p) = Host THEN N - 1 ELSE Next1(p) - 1) = p
                BY <1>0, <1>1, <1>3, <3>3 DEF Next1
            <4>2. JoinerTouches(Next1(p), k) = L + p
                BY <3>1, <4>1
            <4>3. J = L + (p - 1)
                BY <3>3
            <4>. HIDE DEF L, J
            <4>. QED BY <1>0, <1>9, <3>3, <4>2, <4>3
        <3>. QED BY <3>2, <3>3
    <2>3. LayersCount(sent, k) /\ k >= 1
        <3>1. k >= 1
            BY <1>1, <1>3
        <3>. HIDE DEF J, k
        <3>. QED BY <1>7, <1>8, <1>10, <2>2, <3>1 DEF LayersCount
    <2>. HIDE DEF k
    <2>. QED BY <1>4, <2>1, <2>3 DEF LayersInv, HostLayersRemain
<1>. QED BY <1>12, <1>13

LEMMA NextKeepsLayersInv ==
    ASSUME OneHand, RingInv, LayersInv, [Next]_vars
    PROVE  LayersInv'
<1>1. CASE Start
    BY <1>1, StartCountsLayers
<1>2. ASSUME NEW p \in Peer, NEW deck \in decks, HandleShuffleRound(p, deck)
      PROVE  LayersInv'
    BY <1>2, RoundCountsLayers
<1>3. CASE \/ \E p \in Joiners : HandleShuffleInit(p)
           \/ \E p \in Peer, deck \in decks : PanicOnShuffleRound(p, deck)
           \/ \E p \in Peer : Quit(p)
           \/ UNCHANGED vars
    <2>1. step' = step /\ decks' \subseteq decks /\ dealt' = dealt
        BY <1>3, InitTouchesNoCounter
        DEF HandleShuffleInit, PanicOnShuffleRound, Quit, vars
    <2>. QED BY <2>1 DEF LayersInv, HostLayersRemain
<1>. QED BY <1>1, <1>2, <1>3 DEF Next, Deliver

\* Whatever the number of peers, the deck cards are assigned from carries two
\* layers, both the host's: 2N laps toggle every joiner's layer an even number of
\* times, while the host toggles its own once more and never takes off that of
\* its cipher.
THEOREM HostKeepsDeckSealed ==
    ASSUME OneHand
    PROVE  Spec => []HostLayersRemain
<1>1. Init => RingInv /\ LayersInv
    BY InitEstablishesRingInv DEF Init, LayersInv, HostLayersRemain
<1>2. RingInv /\ LayersInv /\ [Next]_vars => RingInv' /\ LayersInv'
    BY NextKeepsRingInv, NextKeepsLayersInv
<1>3. LayersInv => HostLayersRemain
    BY DEF LayersInv
<1>. QED BY <1>1, <1>2, <1>3, PTL DEF Spec

=============================================================================
