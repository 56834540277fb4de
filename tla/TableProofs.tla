----------------------------- MODULE TableProofs -----------------------------
(***************************************************************************)
(* Proofs about Table, for every set of peers, every stack and blind size, *)
(* and every wiring of the node; and, from "The start of a hand" on, about *)
(* HandStart: what the atomic table keeps, the start of a hand keeps step  *)
(* by step, and a handler that sets the phase late does not reopen a       *)
(* street, given stacks that outlast the blinds.                           *)
(***************************************************************************)
EXTENDS HandStart, FiniteSetFacts, TLAPS

-----------------------------------------------------------------------------
(* Helpers. *)

\* The walk round the roster ends on a member of the set it looks for.
LEMMA NextAroundIsMember ==
    ASSUME NEW S \in SUBSET Peer, S # {}, NEW p \in Peer
    PROVE  NextAround(S, p) \in S
<1>. DEFINE after == {q \in S : q > p}
<1>1. S \subseteq Nat /\ after \subseteq Nat
    BY PeerAssumption
<1>2. CASE after # {}
    BY <1>1, <1>2, MinIsMember DEF NextAround
<1>3. CASE after = {}
    BY <1>1, <1>3, MinIsMember DEF NextAround
<1>. QED BY <1>2, <1>3

LEMMA LesserIsOneOfTwo ==
    ASSUME NEW a \in Int, NEW b \in Int
    PROVE  /\ Lesser(a, b) \in {a, b}
           /\ Lesser(a, b) <= a
           /\ Lesser(a, b) <= b
BY DEF Lesser
-----------------------------------------------------------------------------
(* Each method keeps the game state well formed. *)

LEMMA NewGameStateWellFormed == WellFormed(NewGameState) /\ Solvent(NewGameState)
BY PeerAssumption, ChipsAssumption
    DEF WellFormed, Solvent, GameStates, NewGameState, Phases

LEMMA AddPlayerWellFormed ==
    ASSUME NEW s, WellFormed(s), NEW p \in Peer, NEW dealtIn \in BOOLEAN
    PROVE  /\ WellFormed(AddPlayer(s, p, dealtIn))
           /\ Solvent(s) => Solvent(AddPlayer(s, p, dealtIn))
<1>1. WellFormed(AddPlayer(s, p, dealtIn))
    <2>. DEFINE players == s.players \cup {p}
                stack == [s.stack EXCEPT ![p] = StartStack]
                bet == [s.bet EXCEPT ![p] = 0]
                inHand == IF dealtIn THEN s.inHand \cup {p} ELSE s.inHand \ {p}
                hasActed == s.hasActed \ {p}
                committed == s.committed \ {p}
    <2>1. /\ players \in SUBSET Peer /\ stack \in [Peer -> Int] /\ bet \in [Peer -> Int]
          /\ inHand \in SUBSET Peer /\ hasActed \in SUBSET Peer
          /\ committed \in SUBSET Peer
          /\ inHand \cup hasActed \cup committed \subseteq players
        BY ChipsAssumption DEF WellFormed, GameStates
    <2>2. AddPlayer(s, p, dealtIn) =
            [s EXCEPT !.players = players, !.stack = stack, !.bet = bet,
                      !.inHand = inHand, !.hasActed = hasActed, !.committed = committed]
        BY DEF AddPlayer, WellFormed, GameStates
    <2>. HIDE DEF players, stack, bet, inHand, hasActed, committed
    <2>3. s \in GameStates
        BY DEF WellFormed
    <2>. DEFINE one == [s EXCEPT !.players = players, !.stack = stack, !.bet = bet]
                both == [one EXCEPT !.inHand = inHand, !.hasActed = hasActed,
                                    !.committed = committed]
    <2>4. one \in GameStates /\ one.players = players
        BY <2>1, <2>3 DEF GameStates
    <2>5. AddPlayer(s, p, dealtIn) = both
        BY <2>2
    <2>. HIDE DEF one
    <2>6. /\ both \in GameStates /\ both.players = players /\ both.inHand = inHand
          /\ both.hasActed = hasActed /\ both.committed = committed
        BY <2>1, <2>4 DEF GameStates
    <2>. QED BY <2>1, <2>5, <2>6 DEF WellFormed
<1>2. Solvent(s) => Solvent(AddPlayer(s, p, dealtIn))
    BY ChipsAssumption DEF WellFormed, Solvent, GameStates, AddPlayer
<1>. QED BY <1>1, <1>2

LEMMA AdvanceTurnWellFormed ==
    ASSUME NEW s, WellFormed(s)
    PROVE  /\ WellFormed(AdvanceTurn(s))
           /\ Solvent(s) => Solvent(AdvanceTurn(s))
<1>1. s \in GameStates /\ s.inHand \subseteq s.players
    BY DEF WellFormed
<1>2. CASE s.currentTurn \notin s.players \/ s.inHand = {}
    BY <1>1, <1>2 DEF WellFormed, Solvent, GameStates, AdvanceTurn
<1>3. CASE s.currentTurn \in s.players /\ s.inHand # {}
    <2>1. NextAround(s.inHand, s.currentTurn) \in Peer
        BY <1>1, <1>3, NextAroundIsMember DEF GameStates
    <2>2. AdvanceTurn(s) = [s EXCEPT !.currentTurn = NextAround(s.inHand, s.currentTurn)]
        BY <1>3 DEF AdvanceTurn
    <2>. QED BY <1>1, <2>1, <2>2 DEF WellFormed, Solvent, GameStates
<1>. QED BY <1>2, <1>3

SetBet(s, chips, raiser) == [s EXCEPT !.currentBet = chips, !.lastRaiser = raiser]

LEMMA SetBetWellFormed ==
    ASSUME NEW s, WellFormed(s), NEW chips \in Int, NEW raiser \in Peer \cup {NoPeer}
    PROVE  WellFormed(SetBet(s, chips, raiser))
BY DEF SetBet, WellFormed, GameStates

LEMMA NextPhaseWellFormed ==
    ASSUME NEW s, WellFormed(s)
    PROVE  /\ WellFormed(NextPhase(s))
           /\ Solvent(s) => Solvent(NextPhase(s))
<1>1. (IF s.phase \in Streets THEN NextStreet[s.phase] ELSE s.phase) \in Phases
    BY DEF WellFormed, GameStates, Streets, NextStreet, Phases
<1>2. WellFormed(NextPhase(s))
    <2>. DEFINE phase == IF s.phase \in Streets THEN NextStreet[s.phase] ELSE s.phase
                bet == [p \in Peer |-> 0]
    <2>1. phase \in Phases /\ bet \in [Peer -> Int]
        BY <1>1
    <2>2. NextPhase(s) = [s EXCEPT !.bet = bet, !.hasActed = {}, !.currentBet = 0,
                                   !.lastRaiser = NoPeer, !.phase = phase]
        BY DEF NextPhase
    <2>. HIDE DEF phase, bet
    <2>. DEFINE t == [s EXCEPT !.bet = bet, !.hasActed = {}, !.phase = phase]
    <2>3. WellFormed(t)
        BY <2>1 DEF WellFormed, GameStates
    <2>. DEFINE none == 0
    <2>4. NextPhase(s) = SetBet(t, none, NoPeer)
        BY <2>2 DEF SetBet, WellFormed, GameStates
    <2>5. none \in Int /\ NoPeer \in Peer \cup {NoPeer}
        OBVIOUS
    <2>. HIDE DEF t, none
    <2>. QED BY <2>3, <2>4, <2>5, SetBetWellFormed
<1>3. Solvent(s) => Solvent(NextPhase(s))
    BY DEF WellFormed, Solvent, GameStates, NextPhase
<1>. QED BY <1>2, <1>3

LEMMA EndTurnWellFormed ==
    ASSUME NEW s, WellFormed(s)
    PROVE  /\ WellFormed(EndTurn(s))
           /\ Solvent(s) => Solvent(EndTurn(s))
BY AdvanceTurnWellFormed, NextPhaseWellFormed DEF EndTurn

LEMMA MarkActedWellFormed ==
    ASSUME NEW s, WellFormed(s), NEW p \in s.players
    PROVE  /\ WellFormed(MarkActed(s, p))
           /\ Solvent(s) => Solvent(MarkActed(s, p))
BY DEF WellFormed, Solvent, GameStates, MarkActed

LEMMA FoldWellFormed ==
    ASSUME NEW s, WellFormed(s), NEW p \in Peer
    PROVE  /\ WellFormed(Fold(s, p))
           /\ Solvent(s) => Solvent(Fold(s, p))
BY DEF WellFormed, Solvent, GameStates, Fold

\* Paying keeps stack and bet from going below zero when the chips are there.
LEMMA PayWellFormed ==
    ASSUME NEW s, WellFormed(s), NEW p \in Peer, NEW chips \in Int
    PROVE  /\ WellFormed(Pay(s, p, chips))
           /\ Solvent(s) /\ chips <= s.stack[p] /\ 0 <= s.bet[p] + chips
                 => Solvent(Pay(s, p, chips))
<1>1. /\ s \in GameStates
      /\ \A q \in Peer : s.stack[q] \in Int /\ s.bet[q] \in Int
    BY DEF WellFormed, GameStates
<1>2. WellFormed(Pay(s, p, chips))
    <2>1. /\ [s.stack EXCEPT ![p] = @ - chips] \in [Peer -> Int]
          /\ [s.bet EXCEPT ![p] = @ + chips] \in [Peer -> Int]
          /\ s.pot + chips \in Int
        BY <1>1 DEF GameStates
    <2>. QED BY <2>1 DEF WellFormed, GameStates, Pay
<1>3. ASSUME Solvent(s), chips <= s.stack[p], 0 <= s.bet[p] + chips
      PROVE  Solvent(Pay(s, p, chips))
    BY <1>1, <1>3 DEF Solvent, GameStates, Pay
<1>. QED BY <1>2, <1>3

LEMMA CallWellFormed ==
    ASSUME NEW s, WellFormed(s), NEW p \in Peer
    PROVE  /\ WellFormed(Call(s, p))
           /\ Solvent(s) => Solvent(Call(s, p))
<1>1. s.stack[p] \in Int /\ s.bet[p] \in Int /\ s.currentBet \in Int
    BY DEF WellFormed, GameStates
<1>. DEFINE chips == Lesser(s.currentBet - s.bet[p], s.stack[p])
<1>2. chips \in Int /\ chips <= s.stack[p]
    BY <1>1 DEF Lesser
<1>3. Solvent(s) => 0 <= s.bet[p] + chips
    BY <1>1 DEF Lesser, Solvent
<1>. QED BY <1>2, <1>3, PayWellFormed DEF Call

LEMMA BetWellFormed ==
    ASSUME NEW s, WellFormed(s), NEW p \in Peer, NEW amount \in Nat
    PROVE  /\ WellFormed(Bet(s, p, amount))
           /\ Solvent(s) /\ MayBet(s, p, amount) => Solvent(Bet(s, p, amount))
<1>1. s.stack[p] \in Int /\ s.bet[p] \in Int
    BY DEF WellFormed, GameStates
<1>. DEFINE paid == Pay(s, p, amount - s.bet[p])
<1>2. WellFormed(paid) /\ (Solvent(s) /\ MayBet(s, p, amount) => Solvent(paid))
    BY <1>1, PayWellFormed DEF MayBet
<1>3. Bet(s, p, amount) = [paid EXCEPT !.currentBet = amount, !.lastRaiser = p]
    BY DEF Bet
<1>. HIDE DEF paid
<1>4. WellFormed(Bet(s, p, amount))
    <2>1. amount \in Int /\ p \in Peer \cup {NoPeer} /\ WellFormed(paid)
        BY <1>2
    <2>2. Bet(s, p, amount) = SetBet(paid, amount, p)
        BY <1>3 DEF SetBet
    <2>. QED BY <2>1, <2>2, SetBetWellFormed
<1>5. Solvent(paid) => Solvent(Bet(s, p, amount))
    BY <1>2, <1>3 DEF WellFormed, Solvent, GameStates
<1>. QED BY <1>2, <1>4, <1>5

LEMMA PostBlindWellFormed ==
    ASSUME NEW s, WellFormed(s), NEW p \in Peer, NEW due \in Int
    PROVE  /\ WellFormed(PostBlind(s, p, due))
           /\ Solvent(s) /\ due >= 0 => Solvent(PostBlind(s, p, due))
<1>. DEFINE paid == Lesser(due, s.stack[p])
<1>1. /\ s \in GameStates
      /\ \A q \in Peer : s.stack[q] \in Int /\ s.bet[q] \in Int
    BY DEF WellFormed, GameStates
<1>2. paid \in Int /\ paid <= s.stack[p]
    BY <1>1 DEF Lesser
<1>3. Solvent(s) /\ due >= 0 => paid >= 0
    BY <1>1 DEF Lesser, Solvent
<1>4. PostBlind(s, p, due) =
        [s EXCEPT !.stack[p] = @ - paid, !.bet[p] = paid, !.pot = @ + paid]
    BY DEF PostBlind
<1>. HIDE DEF paid
<1>5. WellFormed(PostBlind(s, p, due))
    <2>1. /\ [s.stack EXCEPT ![p] = @ - paid] \in [Peer -> Int]
          /\ [s.bet EXCEPT ![p] = paid] \in [Peer -> Int]
          /\ s.pot + paid \in Int
        BY <1>1, <1>2 DEF GameStates
    <2>. QED BY <1>4, <2>1 DEF WellFormed, GameStates
<1>6. ASSUME Solvent(s), due >= 0 PROVE Solvent(PostBlind(s, p, due))
    BY <1>1, <1>2, <1>3, <1>4, <1>6 DEF Solvent, GameStates
<1>. QED BY <1>5, <1>6

LEMMA SetupBlindsWellFormed ==
    ASSUME NEW s, WellFormed(s)
    PROVE  /\ WellFormed(SetupBlinds(s))
           /\ Solvent(s) => Solvent(SetupBlinds(s))
<1>1. CASE Cardinality(s.players) < 2
    BY <1>1 DEF SetupBlinds
<1>2. CASE ~(Cardinality(s.players) < 2)
    <2>1. s.players \subseteq Peer /\ s.players # {}
        BY <1>2, FS_EmptySet DEF WellFormed, GameStates
    <2>. DEFINE dealer == IF s.dealer \in s.players THEN s.dealer ELSE Min(s.players)
                small == NextAround(s.players, dealer)
                big == NextAround(s.players, small)
    <2>2. dealer \in Peer
        BY <2>1, MinIsMember, PeerAssumption
    <2>3. small \in Peer /\ big \in Peer
        BY <2>1, <2>2, NextAroundIsMember
    <2>4. SetupBlinds(s) = [s EXCEPT !.dealer = dealer, !.smallBlind = small,
                                     !.bigBlind = big]
        BY <1>2 DEF SetupBlinds
    <2>. HIDE DEF dealer, small, big
    <2>. QED BY <2>2, <2>3, <2>4 DEF WellFormed, Solvent, GameStates
<1>. QED BY <1>1, <1>2

LEMMA PostBlindsWellFormed ==
    ASSUME NEW s, WellFormed(s)
    PROVE  /\ WellFormed(PostBlinds(s))
           /\ Solvent(s) => Solvent(PostBlinds(s))
<1>1. CASE ~BlindsKnown(s)
    BY <1>1 DEF PostBlinds
<1>2. CASE BlindsKnown(s)
    <2>. DEFINE small == PostBlind(s, s.smallBlind, s.smallBlindAmount)
                both == PostBlind(small, s.bigBlind, s.bigBlindAmount)
                first == NextAround(s.players, s.bigBlind)
    <2>1. /\ s.players \subseteq Peer
          /\ s.smallBlind \in s.players /\ s.bigBlind \in s.players
          /\ s.smallBlindAmount \in Int /\ s.bigBlindAmount \in Int
        BY <1>2 DEF BlindsKnown, WellFormed, GameStates
    <2>2. WellFormed(small) /\ (Solvent(s) => Solvent(small))
        BY <2>1, PostBlindWellFormed DEF Solvent
    <2>. HIDE DEF small
    <2>3. WellFormed(both) /\ (Solvent(s) => Solvent(both))
        BY <2>1, <2>2, PostBlindWellFormed DEF Solvent
    <2>4. first \in Peer
        BY <2>1, NextAroundIsMember
    <2>5. PostBlinds(s) = [both EXCEPT !.currentBet = both.bet[s.bigBlind],
                                       !.currentTurn = first]
        BY <1>2 DEF PostBlinds, small
    <2>. HIDE DEF both, first
    <2>6. both.bet[s.bigBlind] \in Int /\ s.bigBlind \in Peer
        BY <2>1, <2>3 DEF WellFormed, GameStates
    <2>. QED BY <2>3, <2>4, <2>5, <2>6 DEF WellFormed, Solvent, GameStates
<1>. QED BY <1>1, <1>2

\* An assignment of a state update, whatever the update holds.
LEMMA CopyFieldWellFormed ==
    ASSUME NEW s, WellFormed(s), NEW u \in GameStates,
           NEW i \in 1 .. Len(UpdatedFields)
    PROVE  /\ WellFormed(CopyField(s, u, UpdatedFields[i]))
           /\ CopyField(s, u, UpdatedFields[i]).players = s.players
<1>1. i \in 1 .. 5
    BY DEF UpdatedFields
<1>2. /\ UpdatedFields[1] = "phase" /\ UpdatedFields[2] = "pot"
      /\ UpdatedFields[3] = "currentBet" /\ UpdatedFields[4] = "currentTurn"
      /\ UpdatedFields[5] = "blinds"
    BY DEF UpdatedFields
<1>3. UpdatedFields[i] \in {"phase", "pot", "currentBet", "currentTurn", "blinds"}
    BY <1>1, <1>2
<1>4. ASSUME NEW f \in {"phase", "pot", "currentBet", "currentTurn", "blinds"}
      PROVE  WellFormed(CopyField(s, u, f)) /\ CopyField(s, u, f).players = s.players
    <2>1. CASE f = "phase"
        BY <2>1 DEF CopyField, WellFormed, GameStates
    <2>2. CASE f = "pot"
        BY <2>2 DEF CopyField, WellFormed, GameStates
    <2>3. CASE f = "currentBet"
        BY <2>3 DEF CopyField, WellFormed, GameStates
    <2>4. CASE f = "currentTurn"
        BY <2>4 DEF CopyField, WellFormed, GameStates
    <2>5. CASE f = "blinds"
        BY <2>5 DEF CopyField, WellFormed, GameStates
    <2>. QED BY <2>1, <2>2, <2>3, <2>4, <2>5
<1>. QED BY <1>3, <1>4

LEMMA CopyPlayerWellFormed ==
    ASSUME NEW s, WellFormed(s), NEW u \in GameStates, NEW p \in s.players
    PROVE  /\ WellFormed([s EXCEPT !.bet[p] = u.bet[p]])
           /\ WellFormed([s EXCEPT !.stack[p] = u.stack[p]])
           /\ WellFormed(CopyInHand(s, u, p))
           /\ [s EXCEPT !.bet[p] = u.bet[p]].players = s.players
           /\ [s EXCEPT !.stack[p] = u.stack[p]].players = s.players
           /\ CopyInHand(s, u, p).players = s.players
<1>1. /\ WellFormed([s EXCEPT !.bet[p] = u.bet[p]])
      /\ [s EXCEPT !.bet[p] = u.bet[p]].players = s.players
    BY DEF WellFormed, GameStates
<1>2. /\ WellFormed([s EXCEPT !.stack[p] = u.stack[p]])
      /\ [s EXCEPT !.stack[p] = u.stack[p]].players = s.players
    BY DEF WellFormed, GameStates
<1>3. WellFormed(CopyInHand(s, u, p)) /\ CopyInHand(s, u, p).players = s.players
    BY DEF CopyInHand, WellFormed, GameStates
<1>. QED BY <1>1, <1>2, <1>3

LEMMA EnterPreFlopWellFormed ==
    ASSUME NEW s, WellFormed(s)
    PROVE  /\ WellFormed(EnterPreFlop(s))
           /\ Solvent(s) => Solvent(EnterPreFlop(s))
BY DEF WellFormed, Solvent, GameStates, EnterPreFlop, Phases

LEMMA StartPreFlopWellFormed ==
    ASSUME NEW s, WellFormed(s)
    PROVE  /\ WellFormed(StartPreFlop(s))
           /\ Solvent(s) => Solvent(StartPreFlop(s))
BY EnterPreFlopWellFormed, SetupBlindsWellFormed, PostBlindsWellFormed
    DEF StartPreFlop

-----------------------------------------------------------------------------
(* Type correctness. *)

\* The switch of ApplyAction, whichever case it takes: the state it leaves is
\* well formed, and p is on the roster.
LEMMA ActedWellFormed ==
    ASSUME WellFormed(gs), NEW p \in Peer, HandleBet(p)
    PROVE  p \in gs.players /\
           \E acted : WellFormed(acted) /\ acted.players = gs.players
                      /\ (Solvent(gs) => Solvent(acted))
                      /\ Conclude(p, acted)
<1>1. CASE FoldAction(p)
    <2>1. WellFormed(Fold(gs, p)) /\ Fold(gs, p).players = gs.players
          /\ (Solvent(gs) => Solvent(Fold(gs, p)))
        BY FoldWellFormed DEF Fold, WellFormed, GameStates
    <2>. QED BY <1>1, <2>1 DEF FoldAction, MayAct
<1>2. CASE CheckAction(p)
    BY <1>2 DEF CheckAction, MayAct
<1>3. CASE CallAction(p)
    <2>1. WellFormed(Call(gs, p)) /\ Call(gs, p).players = gs.players
          /\ (Solvent(gs) => Solvent(Call(gs, p)))
        BY CallWellFormed DEF Call, Pay, WellFormed, GameStates
    <2>. QED BY <1>3, <2>1 DEF CallAction, MayAct
<1>4. ASSUME NEW amount \in Amounts, BetAction(p, amount)
      PROVE  p \in gs.players /\ WellFormed(Bet(gs, p, amount))
             /\ (Solvent(gs) => Solvent(Bet(gs, p, amount)))
             /\ Bet(gs, p, amount).players = gs.players
             /\ Conclude(p, Bet(gs, p, amount))
    <2>1. amount \in Nat
        BY InputAssumption
    <2>2. Bet(gs, p, amount).players = gs.players
        BY DEF Bet, Pay, WellFormed, GameStates
    <2>. QED BY <1>4, <2>1, <2>2, BetWellFormed DEF BetAction, MayAct
<1>. QED BY <1>1, <1>2, <1>3, <1>4 DEF HandleBet

\* Nobody comes or goes when a hand starts.
LEMMA StartPreFlopPlayers ==
    ASSUME NEW s, WellFormed(s) PROVE StartPreFlop(s).players = s.players
<1>1. WellFormed(EnterPreFlop(s)) /\ EnterPreFlop(s).players = s.players
    BY EnterPreFlopWellFormed DEF EnterPreFlop, WellFormed, GameStates
<1>2. ASSUME NEW t, WellFormed(t) PROVE SetupBlinds(t).players = t.players
    BY <1>2 DEF SetupBlinds, WellFormed, GameStates
<1>3. ASSUME NEW t, WellFormed(t) PROVE PostBlinds(t).players = t.players
    BY <1>3 DEF PostBlinds, PostBlind, WellFormed, GameStates
<1>. QED BY <1>1, <1>2, <1>3, SetupBlindsWellFormed DEF StartPreFlop

\* What the record of a copy under way satisfies.
CopyOK(c, players) ==
    \/ c = NoCopy
    \/ c \in Copies /\ c.player \in players \cup {NoPeer}

\* The copy with another player's record to write next.
TurnTo(c, left, to, w) == [c EXCEPT !.left = left, !.player = to, !.written = w]

LEMMA TurnToIsCopy ==
    ASSUME NEW c \in Copies, NEW left \in SUBSET Peer, NEW to \in Peer \cup {NoPeer},
           NEW w \in 0 .. 2
    PROVE  TurnTo(c, left, to, w) \in Copies /\ TurnTo(c, left, to, w).player = to
BY DEF Copies, TurnTo

\* What an update's assignments leave of the state's types.
LEMMA CopyTypes ==
    ASSUME TypeOK, CopyNext
    PROVE  /\ WellFormed(gs') /\ CopyOK(copying', gs'.players)
           /\ UNCHANGED <<muOwner, host, decks, joins, starts, updates>>
           /\ alive' \in BOOLEAN /\ updates # 0
<1>. USE DEF TypeOK
<1>1. copying # NoCopy /\ updates # 0
    BY DEF CopyNext, UpdateField, UpdatePlayer, UpdateStack, UpdateInHand, EndUpdate,
           UpdatesPlayers
<1>2. copying \in Copies /\ copying.player \in gs.players \cup {NoPeer}
    BY <1>1
<1>3. /\ copying.update \in GameStates
      /\ copying.fields \in 0 .. Len(UpdatedFields)
      /\ gs.players \subseteq Peer /\ WellFormed(gs)
    BY <1>2, InputAssumption DEF Copies, WellFormed, GameStates
<1>4. Len(UpdatedFields) = 5
    BY DEF UpdatedFields
<1>5. CASE UpdateField
    <2>. DEFINE i == copying.fields + 1
    <2>1. i \in 1 .. Len(UpdatedFields) /\ copying.fields + 1 \in 0 .. Len(UpdatedFields)
        BY <1>3, <1>4, <1>5 DEF UpdateField
    <2>. DEFINE next == CopyField(gs, copying.update, UpdatedFields[i])
    <2>2. WellFormed(next) /\ next.players = gs.players
        BY <1>3, <2>1, CopyFieldWellFormed
    <2>3. gs' = next
        BY <1>5 DEF UpdateField
    <2>. HIDE DEF next
    <2>4. /\ [copying EXCEPT !.fields = @ + 1] \in Copies
          /\ [copying EXCEPT !.fields = @ + 1].player = copying.player
        BY <1>2, <2>1 DEF Copies
    <2>. QED BY <1>1, <1>2, <1>5, <2>2, <2>3, <2>4 DEF UpdateField, CopyOK
<1>6. ASSUME NEW p \in Peer, UpdatePlayer(p)
      PROVE  WellFormed(gs') /\ CopyOK(copying', gs'.players)
    <2>1. WellFormed(gs') /\ gs'.players = gs.players
        <3>. DEFINE u == copying.update
        <3>1. gs' = IF p \in gs.players THEN [gs EXCEPT !.bet[p] = u.bet[p]] ELSE gs
            BY <1>6 DEF UpdatePlayer
        <3>2. WellFormed(gs) /\ u \in GameStates
            BY <1>3
        <3>. HIDE DEF u
        <3>. QED BY ONLY <3>1, <3>2, CopyPlayerWellFormed
    <2>2. /\ copying' \in Copies
          /\ copying'.player = IF p \in gs.players THEN p ELSE NoPeer
        <3>. DEFINE to == IF p \in gs.players THEN p ELSE NoPeer
                    rest == copying.left \ {p}
        <3>1. to \in Peer \cup {NoPeer} /\ rest \in SUBSET Peer
            BY <1>2 DEF Copies
        <3>2. copying' = [copying EXCEPT !.left = rest, !.player = to, !.written = 1]
            BY <1>6 DEF UpdatePlayer
        <3>. HIDE DEF to, rest
        <3>. DEFINE w == 1
        <3>3. w \in 0 .. 2 /\ copying' = TurnTo(copying, rest, to, w)
            BY <3>2 DEF TurnTo
        <3>. HIDE DEF w
        <3>4. copying \in Copies
            BY <1>2
        <3>5. copying' \in Copies /\ copying'.player = to
            BY <3>1, <3>3, <3>4, TurnToIsCopy
        <3>. QED BY <3>5 DEF to
    <2>. QED BY <2>1, <2>2 DEF CopyOK
<1>7. ASSUME NEW p \in Peer, UpdateStack(p)
      PROVE  WellFormed(gs') /\ CopyOK(copying', gs'.players)
    <2>1. p \in gs.players
        BY <1>2, <1>7, PeerAssumption DEF UpdateStack
    <2>2. WellFormed(gs') /\ gs'.players = gs.players
        <3>. DEFINE u == copying.update
        <3>1. gs' = [gs EXCEPT !.stack[p] = u.stack[p]]
            BY <1>7 DEF UpdateStack
        <3>2. WellFormed(gs) /\ u \in GameStates
            BY <1>3
        <3>. HIDE DEF u
        <3>. QED BY ONLY <2>1, <3>1, <3>2, CopyPlayerWellFormed
    <2>3. copying' \in Copies /\ copying'.player = p
        <3>. DEFINE w == 2
        <3>1. w \in 0 .. 2 /\ copying' = [copying EXCEPT !.written = w]
            BY <1>7 DEF UpdateStack
        <3>. HIDE DEF w
        <3>2. copying \in Copies /\ copying.left \in SUBSET Peer /\ copying.player = p
            BY <1>2, <1>7 DEF UpdateStack, Copies
        <3>3. copying' = TurnTo(copying, copying.left, p, w)
            BY <3>1, <3>2 DEF TurnTo, Copies
        <3>. QED BY <3>1, <3>2, <3>3, TurnToIsCopy
    <2>. QED BY <2>1, <2>2, <2>3 DEF CopyOK
<1>8. ASSUME NEW p \in Peer, UpdateInHand(p)
      PROVE  WellFormed(gs') /\ CopyOK(copying', gs'.players)
    <2>1. p \in gs.players
        BY <1>2, <1>8, PeerAssumption DEF UpdateInHand
    <2>2. WellFormed(gs') /\ gs'.players = gs.players
        <3>. DEFINE u == copying.update
        <3>1. gs' = CopyInHand(gs, u, p)
            BY <1>8 DEF UpdateInHand
        <3>2. WellFormed(gs) /\ u \in GameStates
            BY <1>3
        <3>. HIDE DEF u
        <3>. QED BY ONLY <2>1, <3>1, <3>2, CopyPlayerWellFormed
    <2>3. copying' \in Copies /\ copying'.player = NoPeer
        <3>. DEFINE w == 0
        <3>1. /\ w \in 0 .. 2 /\ NoPeer \in Peer \cup {NoPeer}
              /\ copying' = [copying EXCEPT !.player = NoPeer, !.written = w]
            BY <1>8 DEF UpdateInHand
        <3>. HIDE DEF w
        <3>2. copying \in Copies /\ copying.left \in SUBSET Peer
            BY <1>2 DEF Copies
        <3>3. copying' = TurnTo(copying, copying.left, NoPeer, w)
            BY <3>1, <3>2 DEF TurnTo, Copies
        <3>. QED BY <3>1, <3>2, <3>3, TurnToIsCopy
    <2>. QED BY <2>2, <2>3 DEF CopyOK
<1>9. ASSUME EndUpdate PROVE WellFormed(gs') /\ CopyOK(copying', gs'.players)
    <2>1. gs' = gs /\ copying' = NoCopy
        BY <1>9 DEF EndUpdate
    <2>. QED BY <1>3, <2>1 DEF CopyOK
<1>10. /\ UNCHANGED <<muOwner, host, decks, joins, starts, updates>>
       /\ alive' \in BOOLEAN
    BY DEF CopyNext, UpdateField, UpdatePlayer, UpdateStack, UpdateInHand, EndUpdate,
           UpdatesPlayers, UpdatePanics
<1>. QED BY <1>1, <1>5, <1>6, <1>7, <1>8, <1>9, <1>10 DEF CopyNext

LEMMA JoinKeepsTypes ==
    ASSUME TypeOK, NEW p \in Peer, HandleJoin(p) PROVE TypeOK'
<1>. USE DEF TypeOK
<1>. DEFINE next == AddPlayer(gs, p, JoinInHand)
<1>0. next.players = gs.players \cup {p}
    BY DEF AddPlayer, WellFormed, GameStates
<1>00. JoinInHand \in BOOLEAN /\ WellFormed(gs)
    BY WiringAssumption
<1>1. /\ WellFormed(next) /\ (Solvent(gs) => Solvent(next))
      /\ next.players = gs.players \cup {p}
    BY <1>0, <1>00, AddPlayerWellFormed
<1>. HIDE DEF next
<1>2. /\ CopyOK(copying', next.players)
      /\ copying = NoCopy => copying' = NoCopy
    BY <1>1 DEF HandleJoin, CopyOK, Copies
<1>. QED BY <1>1, <1>2 DEF HandleJoin, next, CopyOK

LEMMA BetKeepsTypes ==
    ASSUME TypeOK, NEW p \in Peer, HandleBet(p) PROVE TypeOK'
<1>. USE DEF TypeOK
<1>1. PICK acted : /\ WellFormed(acted) /\ acted.players = gs.players
                   /\ (Solvent(gs) => Solvent(acted))
                   /\ p \in gs.players /\ Conclude(p, acted)
    BY ActedWellFormed
<1>. DEFINE marked == MarkActed(acted, p)
<1>2. /\ WellFormed(marked) /\ (Solvent(gs) => Solvent(marked))
      /\ marked.players = gs.players
    BY <1>1, MarkActedWellFormed DEF MarkActed, WellFormed, GameStates
<1>3. gs' \in {marked, EndTurn(marked)} /\ muOwner' \in {muOwner, p}
    BY <1>1 DEF Conclude
<1>. HIDE DEF marked
<1>4. /\ WellFormed(EndTurn(marked)) /\ (Solvent(gs) => Solvent(EndTurn(marked)))
    BY <1>2, EndTurnWellFormed
<1>5. EndTurn(marked).players = gs.players
    BY <1>2 DEF EndTurn, NextPhase, AdvanceTurn, WellFormed, GameStates
<1>. QED BY <1>2, <1>3, <1>4, <1>5 DEF HandleBet

LEMMA DealKeepsTypes ==
    ASSUME TypeOK, StartShuffle \/ DealCards PROVE TypeOK'
BY DEF TypeOK, StartShuffle, DealCards, WellFormed, Solvent, GameStates, Phases

\* Every reachable state is well formed, whatever game states the updates carry
\* and however bets and joins cut them in pieces; and before an update has come no
\* bet, call or blind takes a stack below zero.
THEOREM TypeCorrect == Spec => []TypeOK
<1>1. Init => TypeOK
    BY NewGameStateWellFormed DEF Init, TypeOK
<1>2. TypeOK /\ [Next]_vars => TypeOK'
    <2>. SUFFICES ASSUME TypeOK, [Next]_vars PROVE TypeOK'
        OBVIOUS
    <2>. USE DEF TypeOK
    <2>1. ASSUME NEW p \in Peer, HandleJoin(p) PROVE TypeOK'
        BY <2>1, JoinKeepsTypes
    <2>2. ASSUME NEW p \in Peer, HandleBet(p) PROVE TypeOK'
        BY <2>2, BetKeepsTypes
    <2>3. ASSUME NEW p \in Peer, HandleHandCommitment(p) PROVE TypeOK'
        <3>. DEFINE stored == [gs EXCEPT !.committed = @ \cup {p}]
        <3>1. /\ WellFormed(stored) /\ (Solvent(gs) => Solvent(stored))
              /\ stored.players = gs.players
            BY <2>3 DEF HandleHandCommitment, WellFormed, Solvent, GameStates
        <3>. HIDE DEF stored
        <3>2. StartPreFlop(stored).players = gs.players
            BY <3>1, StartPreFlopPlayers
        <3>3. /\ WellFormed(StartPreFlop(stored))
              /\ Solvent(gs) => Solvent(StartPreFlop(stored))
            BY <3>1, StartPreFlopWellFormed
        <3>. QED BY <2>3, <3>2, <3>3 DEF HandleHandCommitment, stored
    <2>4. ASSUME NEW u \in Updates, HandleStateUpdate(u) PROVE TypeOK'
        <3>1. copying' \in Copies /\ copying'.player = NoPeer
            BY <2>4, InputAssumption
                DEF HandleStateUpdate, Copies, GameStates, UpdatedFields
        <3>. QED BY <2>4, <3>1 DEF HandleStateUpdate
    <2>5. CASE StartShuffle \/ DealCards
        BY <2>5, DealKeepsTypes
    <2>7. CASE CopyNext
        BY <2>7, CopyTypes DEF CopyOK
    <2>8. CASE UNCHANGED vars
        BY <2>8 DEF vars
    <2>. QED BY <2>1, <2>2, <2>3, <2>4, <2>5, <2>7, <2>8 DEF Next
<1>. QED BY <1>1, <1>2, PTL DEF Spec
-----------------------------------------------------------------------------
(* The half-applied action, and the table without a host. *)

\* An update's assignments leave alone who has acted.
LEMMA CopyKeepsActed ==
    ASSUME TypeOK, CopyNext
    PROVE  gs'.hasActed = gs.hasActed
<1>1. gs \in GameStates
    BY DEF TypeOK, WellFormed
<1>2. ASSUME UpdateField PROVE gs'.hasActed = gs.hasActed
    <2>. DEFINE f == UpdatedFields[copying.fields + 1]
                u == copying.update
    <2>1. gs' = CopyField(gs, u, f)
        BY <1>2 DEF UpdateField
    <2>2. ASSUME NEW g \in {"phase", "pot", "currentBet", "currentTurn", "blinds"}
          PROVE  CopyField(gs, u, g).hasActed = gs.hasActed
        BY <1>1, <2>2 DEF CopyField, GameStates
    <2>3. f \in {"phase", "pot", "currentBet", "currentTurn", "blinds"}
        <3>1. copying.fields \in 0 .. 4
            BY <1>2 DEF TypeOK, UpdateField, Copies, UpdatedFields
        <3>2. copying.fields + 1 \in 1 .. 5
            BY <3>1
        <3>3. \A i \in 1 .. 5 : UpdatedFields[i] \in
                 {"phase", "pot", "currentBet", "currentTurn", "blinds"}
            BY DEF UpdatedFields
        <3>. QED BY <3>2, <3>3
    <2>. HIDE DEF f, u
    <2>. QED BY <2>1, <2>2, <2>3
<1>3. ASSUME NEW p \in Peer, UpdatePlayer(p) \/ UpdateStack(p) \/ UpdateInHand(p)
      PROVE  gs'.hasActed = gs.hasActed
    BY <1>1, <1>3 DEF UpdatePlayer, UpdateStack, UpdateInHand, CopyInHand, GameStates
<1>4. ASSUME EndUpdate PROVE gs'.hasActed = gs.hasActed
    BY <1>4 DEF EndUpdate
<1>. QED BY <1>2, <1>3, <1>4 DEF CopyNext

\* Nothing a message does takes back the mark of a player whose action stopped
\* inside ApplyAction: only NextPhase and AddPlayer clear it, and both are
\* behind the mutex that action keeps.
THEOREM HalfAppliedStays == Spec => []HalfApplied
<1>1. Init => HalfApplied
    BY DEF Init, HalfApplied
<1>2. TypeOK /\ HalfApplied /\ [Next]_vars => HalfApplied'
    <2>. SUFFICES ASSUME TypeOK, HalfApplied, [Next]_vars PROVE HalfApplied'
        OBVIOUS
    <2>. USE DEF HalfApplied, MuFree
    <2>0. gs \in GameStates
        BY DEF TypeOK, WellFormed
    <2>1. ASSUME NEW p \in Peer, HandleJoin(p) PROVE HalfApplied'
        BY <2>1 DEF HandleJoin
    <2>2. ASSUME NEW p \in Peer, HandleBet(p) PROVE HalfApplied'
        <3>1. PICK acted : WellFormed(acted) /\ Conclude(p, acted)
            BY <2>2, ActedWellFormed DEF TypeOK
        <3>2. acted \in GameStates
            BY <3>1 DEF WellFormed
        <3>3. p \in MarkActed(acted, p).hasActed
            BY <3>2 DEF MarkActed, GameStates
        <3>. QED BY <2>2, <3>1, <3>3 DEF HandleBet, Conclude
    <2>3. ASSUME NEW p \in Peer, HandleHandCommitment(p), muOwner # NoPeer
          PROVE  HalfApplied'
        <3>1. gs'.hasActed = gs.hasActed
            BY <2>0, <2>3 DEF HandleHandCommitment, StartPreFlop, EnterPreFlop,
                              GameStates
        <3>. QED BY <2>3, <3>1 DEF HandleHandCommitment
    <2>4. ASSUME NEW u \in Updates, HandleStateUpdate(u) PROVE HalfApplied'
        BY <2>4 DEF HandleStateUpdate
    <2>5. CASE StartShuffle
        BY <2>5 DEF StartShuffle
    <2>6. CASE DealCards
        BY <2>6 DEF DealCards
    <2>7. CASE UNCHANGED vars
        BY <2>7 DEF vars
    <2>8. ASSUME NEW p \in Peer, HandleHandCommitment(p), muOwner = NoPeer
          PROVE  HalfApplied'
        BY <2>8 DEF HandleHandCommitment
    <2>9. CASE CopyNext
        BY <2>9, CopyTypes, CopyKeepsActed
    <2>. QED BY <2>1, <2>2, <2>3, <2>4, <2>5, <2>6, <2>7, <2>8, <2>9 DEF Next
<1>. QED BY <1>1, <1>2, TypeCorrect, PTL DEF Spec

\* On a joiner, and on every node as long as gameState.HostID stays unassigned, no
\* sequence of joins, `start` commands, commitments and bets gives anybody the turn
\* or moves a chip before a state update has begun.
THEOREM BuiltTableIsIdle == Spec => []IdleUntilUpdated
<1>1. Init => IdleUntilUpdated
    BY DEF Init, NewGameState, IdleUntilUpdated
<1>2. TypeOK /\ IdleUntilUpdated /\ [Next]_vars => IdleUntilUpdated'
    <2>. SUFFICES ASSUME TypeOK, IdleUntilUpdated, [Next]_vars, ~IsHost',
                         updates' = 0
                  PROVE  gs'.pot = 0 /\ gs'.currentTurn = NoPeer
        BY DEF IdleUntilUpdated
    <2>0. gs \in GameStates /\ updates \in Nat
        BY DEF TypeOK, WellFormed
    <2>00. updates' \in {updates, updates + 1} /\ host' = host
        BY CopyTypes DEF Next, vars, HandleJoin, HandleBet, HandleHandCommitment,
               HandleStateUpdate, StartShuffle, DealCards
    <2>01. ~IsHost
        BY <2>00 DEF IsHost
    <2>1. CASE updates # 0
        BY <2>0, <2>1, <2>00
    <2>2. CASE updates = 0
        <3>0. gs.pot = 0 /\ gs.currentTurn = NoPeer
            BY <2>2, <2>01 DEF IdleUntilUpdated
        <3>1. ASSUME NEW p \in Peer, HandleJoin(p)
              PROVE  gs'.pot = 0 /\ gs'.currentTurn = NoPeer
            BY <2>0, <3>0, <3>1 DEF HandleJoin, AddPlayer, GameStates
        <3>2. ASSUME NEW p \in Peer PROVE ~HandleBet(p)
            BY <3>0, PeerAssumption
                DEF HandleBet, FoldAction, CheckAction, CallAction, BetAction, MayAct
        <3>3. ASSUME NEW p \in Peer, HandleHandCommitment(p)
              PROVE  gs'.pot = 0 /\ gs'.currentTurn = NoPeer
            BY <2>0, <2>01, <3>0, <3>3
                DEF HandleHandCommitment, StartPreFlop, EnterPreFlop, GameStates
        <3>4. ASSUME NEW u \in Updates PROVE ~HandleStateUpdate(u)
            BY <2>2 DEF HandleStateUpdate
        <3>8. ~CopyNext
            BY <2>2, CopyTypes
        <3>5. CASE StartShuffle
            BY <2>0, <3>0, <3>5 DEF StartShuffle, GameStates
        <3>6. CASE DealCards
            BY <2>01, <3>6 DEF DealCards
        <3>7. CASE UNCHANGED vars
            BY <3>0, <3>7 DEF vars
        <3>. QED BY <3>1, <3>2, <3>3, <3>4, <3>5, <3>6, <3>7, <3>8 DEF Next
    <2>. QED BY <2>1, <2>2
<1>. QED BY <1>1, <1>2, TypeCorrect, PTL DEF Spec
-----------------------------------------------------------------------------
(* What a betting step may do. *)

\* What an action of p makes of s, before its player is marked and the turn ends:
\* the chips that leave p's stack are in p's bet of the round and in the pot, and
\* neither the chips nor the hand of anybody else are touched.
AccountsFor(s, a, p) ==
    /\ a.phase = s.phase /\ a.players = s.players
    /\ a.currentTurn = s.currentTurn /\ a.hasActed = s.hasActed
    /\ a.smallBlind = s.smallBlind /\ a.bigBlind = s.bigBlind
    /\ a.smallBlindAmount = s.smallBlindAmount /\ a.bigBlindAmount = s.bigBlindAmount
    /\ s.inHand \ {p} \subseteq a.inHand
    /\ \A q \in Peer : a.bet[q] + a.stack[q] = s.bet[q] + s.stack[q]
    /\ \A q \in Peer \ {p} : a.stack[q] = s.stack[q]
    /\ a.pot - s.pot = s.stack[p] - a.stack[p]

\* Whichever case of the switch it takes, the action accounts for its chips.
LEMMA ActedBooks ==
    ASSUME WellFormed(gs), NEW p \in Peer, HandleBet(p)
    PROVE  \E acted : /\ WellFormed(acted) /\ Conclude(p, acted)
                      /\ AccountsFor(gs, acted, p)
                      /\ Solvent(gs) => Solvent(acted)
<1>. DEFINE Books(a) == AccountsFor(gs, a, p)
            Keeps(a) == WellFormed(a) /\ (Solvent(gs) => Solvent(a))
<1>0. /\ gs \in GameStates /\ gs.pot \in Int /\ gs.currentBet \in Int
      /\ \A q \in Peer : gs.stack[q] \in Int /\ gs.bet[q] \in Int
    BY DEF WellFormed, GameStates
<1>1. ASSUME NEW chips \in Int PROVE Books(Pay(gs, p, chips))
    BY <1>0 DEF Pay, GameStates, AccountsFor
<1>. HIDE DEF Books
<1>2. CASE FoldAction(p)
    <2>1. Keeps(Fold(gs, p)) /\ Books(Fold(gs, p))
        BY <1>0, FoldWellFormed DEF Fold, GameStates, Books, AccountsFor
    <2>. QED BY <1>2, <2>1 DEF FoldAction, Books
<1>3. CASE CheckAction(p)
    <2>1. Books(gs)
        BY <1>0 DEF Books, AccountsFor
    <2>. QED BY <1>3, <2>1 DEF CheckAction, Books
<1>4. CASE CallAction(p)
    <2>1. Lesser(gs.currentBet - gs.bet[p], gs.stack[p]) \in Int
        BY <1>0 DEF Lesser
    <2>2. Books(Call(gs, p)) /\ Keeps(Call(gs, p))
        BY <1>1, <2>1, CallWellFormed DEF Call
    <2>. QED BY <1>4, <2>2 DEF CallAction, Books
<1>5. ASSUME NEW amount \in Amounts, BetAction(p, amount)
      PROVE  Keeps(Bet(gs, p, amount)) /\ Books(Bet(gs, p, amount))
             /\ Conclude(p, Bet(gs, p, amount))
    <2>1. amount \in Nat /\ amount - gs.bet[p] \in Int
        BY <1>0, InputAssumption
    <2>2. Books(Pay(gs, p, amount - gs.bet[p]))
        BY <1>1, <2>1
    <2>3. Books(Bet(gs, p, amount))
        BY <1>0, <2>2 DEF Bet, Pay, Books, GameStates, AccountsFor
    <2>4. Keeps(Bet(gs, p, amount))
        BY <1>5, <2>1, BetWellFormed DEF BetAction
    <2>. QED BY <1>5, <2>3, <2>4 DEF BetAction
<1>6. CASE \E amount \in Amounts : BetAction(p, amount)
    BY <1>5, <1>6 DEF Books
<1>. QED BY <1>2, <1>3, <1>4, <1>6 DEF HandleBet

\* The end of a turn moves no chips.
LEMMA EndTurnKeepsChips ==
    ASSUME NEW s, s \in GameStates
    PROVE  EndTurn(s).stack = s.stack /\ EndTurn(s).pot = s.pot
BY DEF EndTurn, NextPhase, AdvanceTurn, GameStates

\* When the end of a turn changes the phase, the round was complete: every
\* player in the hand with chips behind has bet the same.
LEMMA PhaseChangesWhenEven ==
    ASSUME NEW s, s \in GameStates, EndTurn(s).phase # s.phase
    PROVE  /\ EndTurn(s).inHand = s.inHand
           /\ \A p \in s.inHand : s.stack[p] > 0 => s.bet[p] = s.currentBet
<1>. DEFINE a == AdvanceTurn(s)
<1>1. /\ a.phase = s.phase /\ a.inHand = s.inHand /\ a.stack = s.stack
      /\ a.bet = s.bet /\ a.currentBet = s.currentBet
    BY DEF AdvanceTurn, GameStates
<1>2. IsRoundComplete(a)
    BY <1>1 DEF EndTurn
<1>3. EndTurn(s).inHand = s.inHand
    BY DEF EndTurn, NextPhase, AdvanceTurn, GameStates
<1>. QED BY <1>1, <1>2, <1>3 DEF IsRoundComplete

\* A bet message that closes the round finds every two players who could still
\* bet with the same paid in.
LEMMA BetEndsEven ==
    ASSUME WellFormed(gs), NEW b \in Peer, HandleBet(b), gs'.phase # gs.phase,
           NEW p \in gs'.inHand, NEW q \in gs'.inHand,
           gs'.stack[p] > 0, gs'.stack[q] > 0
    PROVE  gs.bet[p] + Paid(gs, gs', p) = gs.bet[q] + Paid(gs, gs', q)
<1>1. PICK acted : /\ WellFormed(acted) /\ Conclude(b, acted)
                   /\ AccountsFor(gs, acted, b)
    BY ActedBooks
<1>. DEFINE marked == MarkActed(acted, b)
<1>2. /\ marked \in GameStates
      /\ marked.phase = gs.phase /\ marked.stack = acted.stack
      /\ marked.bet = acted.bet /\ marked.currentBet = acted.currentBet
      /\ marked.inHand = acted.inHand
    BY <1>1 DEF AccountsFor, MarkActed, WellFormed, GameStates
<1>. HIDE DEF marked
<1>3. gs' = EndTurn(marked)
    BY <1>1, <1>2 DEF Conclude, marked
<1>4. /\ gs'.inHand = marked.inHand /\ gs'.stack = marked.stack
      /\ marked.bet[p] = marked.currentBet
      /\ marked.bet[q] = marked.currentBet
    BY <1>2, <1>3, PhaseChangesWhenEven, EndTurnKeepsChips
<1>5. p \in Peer /\ q \in Peer
    BY <1>2, <1>4 DEF GameStates
<1>6. acted.bet[p] = acted.bet[q]
    BY <1>2, <1>4
<1>7. /\ gs.stack[p] \in Int /\ gs.bet[p] \in Int
      /\ gs.stack[q] \in Int /\ gs.bet[q] \in Int
      /\ acted.stack[p] \in Int /\ acted.stack[q] \in Int
      /\ acted.bet[p] \in Int /\ acted.bet[q] \in Int
    BY <1>1, <1>5 DEF WellFormed, GameStates
<1>8. /\ acted.bet[p] + acted.stack[p] = gs.bet[p] + gs.stack[p]
      /\ acted.bet[q] + acted.stack[q] = gs.bet[q] + gs.stack[q]
    BY <1>1, <1>5 DEF AccountsFor
<1>9. gs'.stack[p] = acted.stack[p] /\ gs'.stack[q] = acted.stack[q]
    BY <1>2, <1>4
<1>10. /\ Paid(gs, gs', p) = gs.stack[p] - acted.stack[p]
       /\ Paid(gs, gs', q) = gs.stack[q] - acted.stack[q]
    BY <1>9 DEF Paid
<1>11. ASSUME NEW r \in {p, q}
       PROVE  gs.bet[r] + (gs.stack[r] - acted.stack[r]) = acted.bet[r]
    <2>. DEFINE had == gs.stack[r]  put == gs.bet[r]
                has == acted.stack[r]  owes == acted.bet[r]
    <2>1. /\ had \in Int /\ put \in Int /\ has \in Int /\ owes \in Int
          /\ owes + has = put + had
        BY <1>7, <1>8
    <2>. HIDE DEF had, put, has, owes
    <2>2. put + (had - has) = owes
        BY <2>1
    <2>. QED BY <2>2 DEF had, put, has, owes
<1>12. /\ gs.bet[p] + (gs.stack[p] - acted.stack[p]) = acted.bet[p]
       /\ gs.bet[q] + (gs.stack[q] - acted.stack[q]) = acted.bet[q]
    BY <1>11
<1>. QED BY <1>6, <1>10, <1>12

\* No street ends while two players in the hand who still have chips have paid
\* different amounts into it.
THEOREM StreetsEndEven == Spec => StreetEndsEven
<1>1. TypeOK =>
         ((\E p \in Peer : HandleBet(p)) /\ gs'.phase # gs.phase =>
            \A p, q \in {r \in gs'.inHand : gs'.stack[r] > 0} :
               gs.bet[p] + Paid(gs, gs', p) = gs.bet[q] + Paid(gs, gs', q))
    BY BetEndsEven DEF TypeOK
<1>. QED BY <1>1, TypeCorrect, PTL DEF Spec, StreetEndsEven

-----------------------------------------------------------------------------
(* The chips. *)

\* Nobody owes, and the pot of s holds the bets of its round.
Covered(s) == Solvent(s) /\ s.pot >= SumFunctionOnSet(s.bet, s.players)

\* The roster is finite and its chips are numbers, so they can be added up.
LEMMA RosterAddsUp ==
    ASSUME NEW s, WellFormed(s)
    PROVE  /\ s \in GameStates
           /\ IsFiniteSet(s.players) /\ s.players \subseteq Peer
           /\ \A p \in Peer : s.stack[p] \in Int /\ s.bet[p] \in Int
           /\ s.pot \in Int
           /\ SumFunctionOnSet(s.stack, s.players) \in Int
           /\ SumFunctionOnSet(s.bet, s.players) \in Int
           /\ Solvent(s) => SumFunctionOnSet(s.bet, s.players) >= 0
<1>1. /\ s \in GameStates /\ s.players \subseteq Peer
      /\ \A p \in Peer : s.stack[p] \in Int /\ s.bet[p] \in Int
      /\ s.pot \in Int
    BY DEF WellFormed, GameStates
<1>2. IsFiniteSet(s.players)
    BY <1>1, FS_Subset, PeerAssumption
<1>3. ASSUME Solvent(s) PROVE SumFunctionOnSet(s.bet, s.players) \in Nat
    <2>1. \A p \in s.players : s.bet[p] \in Nat
        BY <1>1, <1>3 DEF Solvent
    <2>. QED BY <1>2, <2>1, SumIsNat
<1>4. /\ \A p \in s.players : s.stack[p] \in Int
      /\ \A p \in s.players : s.bet[p] \in Int
    BY <1>1
<1>5. /\ SumFunctionOnSet(s.stack, s.players) \in Int
      /\ SumFunctionOnSet(s.bet, s.players) \in Int
    BY <1>2, <1>4, SumIsInt
<1>. QED BY <1>1, <1>2, <1>3, <1>5

\* Two states with one roster, of which only p's chips differ.
LEMMA OnePlayersChips ==
    ASSUME NEW s, WellFormed(s), NEW t, WellFormed(t), NEW p \in s.players,
           t.players = s.players,
           \A q \in Peer \ {p} : t.stack[q] = s.stack[q] /\ t.bet[q] = s.bet[q]
    PROVE  /\ SumFunctionOnSet(t.stack, t.players) =
                SumFunctionOnSet(s.stack, s.players) + (t.stack[p] - s.stack[p])
           /\ SumFunctionOnSet(t.bet, t.players) =
                SumFunctionOnSet(s.bet, s.players) + (t.bet[p] - s.bet[p])
<1>1. IsFiniteSet(s.players) /\ s.players \subseteq Peer
    BY RosterAddsUp
<1>2. \A q \in s.players : /\ s.stack[q] \in Int /\ t.stack[q] \in Int
                           /\ s.bet[q] \in Int /\ t.bet[q] \in Int
    BY <1>1, RosterAddsUp
<1>3. \A q \in s.players \ {p} : t.stack[q] = s.stack[q] /\ t.bet[q] = s.bet[q]
    BY <1>1
<1>4. SumFunctionOnSet(t.stack, s.players) =
        SumFunctionOnSet(s.stack, s.players) + (t.stack[p] - s.stack[p])
    BY <1>1, <1>2, <1>3, SumShifts
<1>5. SumFunctionOnSet(t.bet, s.players) =
        SumFunctionOnSet(s.bet, s.players) + (t.bet[p] - s.bet[p])
    BY <1>1, <1>2, <1>3, SumShifts
<1>. QED BY <1>4, <1>5

\* A join brings a stack and no bet: of a player on the roster it takes the bet
\* away, and of a new one it adds none.
LEMMA AddPlayerCovered ==
    ASSUME NEW s, WellFormed(s), Covered(s), NEW p \in Peer, NEW dealtIn \in BOOLEAN
    PROVE  Covered(AddPlayer(s, p, dealtIn))
<1>. DEFINE t == AddPlayer(s, p, dealtIn)
<1>1. /\ t.players = s.players \cup {p} /\ t.pot = s.pot
      /\ t.bet = [s.bet EXCEPT ![p] = 0]
    BY DEF AddPlayer, WellFormed, GameStates
<1>2. /\ IsFiniteSet(s.players) /\ s.players \subseteq Peer /\ s.pot \in Int
      /\ \A q \in Peer : s.bet[q] \in Int /\ t.bet[q] \in Int
      /\ SumFunctionOnSet(s.bet, s.players) \in Int
      /\ s.bet[p] >= 0 /\ t.bet[p] = 0
      /\ \A q \in Peer \ {p} : t.bet[q] = s.bet[q]
      /\ Solvent(t)
    BY <1>1, RosterAddsUp, AddPlayerWellFormed DEF WellFormed, GameStates, Covered, Solvent
<1>. SUFFICES Covered(t)
    OBVIOUS
<1>. HIDE DEF t
<1>3. CASE p \in s.players
    <2>1. t.players = s.players
        BY <1>1, <1>3
    <2>2. /\ \A q \in s.players : s.bet[q] \in Int /\ t.bet[q] \in Int
          /\ \A q \in s.players \ {p} : t.bet[q] = s.bet[q]
        BY <1>2
    <2>3. SumFunctionOnSet(t.bet, s.players) =
            SumFunctionOnSet(s.bet, s.players) + (t.bet[p] - s.bet[p])
        BY <1>2, <1>3, <2>2, SumShifts
    <2>4. SumFunctionOnSet(t.bet, s.players) <= SumFunctionOnSet(s.bet, s.players)
        BY <1>2, <2>3
    <2>5. t.pot = s.pot /\ SumFunctionOnSet(t.bet, s.players) \in Int
        BY <1>1, <1>2, <2>2, SumIsInt
    <2>. QED BY <1>2, <2>1, <2>4, <2>5 DEF Covered
<1>4. CASE p \notin s.players
    <2>1. \A q \in s.players \cup {p} : t.bet[q] \in Int
        BY <1>2
    <2>2. SumFunctionOnSet(t.bet, s.players \cup {p}) =
            t.bet[p] + SumFunctionOnSet(t.bet, s.players)
        BY <1>2, <1>4, <2>1, SumAdds
    <2>3. \A q \in s.players : s.bet[q] \in Int /\ t.bet[q] = s.bet[q]
        BY <1>2, <1>4
    <2>4. SumFunctionOnSet(t.bet, s.players) = SumFunctionOnSet(s.bet, s.players)
        BY <1>2, <2>3, SumsAgree
    <2>. QED BY <1>1, <1>2, <2>2, <2>4 DEF Covered
<1>. QED BY <1>3, <1>4

\* What a betting action moves stays in the pot's books.
LEMMA ActedKeepsChips ==
    ASSUME NEW s, WellFormed(s), NEW a, WellFormed(a), NEW p \in s.players,
           AccountsFor(s, a, p), Solvent(s) => Solvent(a)
    PROVE  /\ TotalChips(a) = TotalChips(s)
           /\ Covered(s) => Covered(a)
<1>1. /\ s.players \subseteq Peer
      /\ \A q \in Peer : /\ s.stack[q] \in Int /\ s.bet[q] \in Int
                         /\ a.stack[q] \in Int /\ a.bet[q] \in Int
      /\ s.pot \in Int /\ a.pot \in Int
      /\ SumFunctionOnSet(s.stack, s.players) \in Int
      /\ SumFunctionOnSet(s.bet, s.players) \in Int
    BY RosterAddsUp
<1>2. ASSUME NEW q \in Peer \ {p}
      PROVE  a.stack[q] = s.stack[q] /\ a.bet[q] = s.bet[q]
    <2>1. a.stack[q] = s.stack[q] /\ a.bet[q] + a.stack[q] = s.bet[q] + s.stack[q]
        BY DEF AccountsFor
    <2>2. \A x, y, z \in Int : x + z = y + z => x = y
        OBVIOUS
    <2>3. a.bet[q] \in Int /\ s.bet[q] \in Int /\ s.stack[q] \in Int
        BY <1>1
    <2>. QED BY <2>1, <2>2, <2>3
<1>3. /\ p \in Peer /\ a.players = s.players
      /\ a.bet[p] + a.stack[p] = s.bet[p] + s.stack[p]
      /\ a.pot - s.pot = s.stack[p] - a.stack[p]
    BY <1>1 DEF AccountsFor
<1>4. /\ SumFunctionOnSet(a.stack, a.players) =
           SumFunctionOnSet(s.stack, s.players) + (a.stack[p] - s.stack[p])
      /\ SumFunctionOnSet(a.bet, a.players) =
           SumFunctionOnSet(s.bet, s.players) + (a.bet[p] - s.bet[p])
    BY <1>2, <1>3, OnePlayersChips
<1>. QED BY <1>1, <1>3, <1>4 DEF TotalChips, Covered

\* The end of a turn takes the bets of a round that closed off the players, not
\* out of the pot.
LEMMA EndTurnCovered ==
    ASSUME NEW s, WellFormed(s)
    PROVE  /\ TotalChips(EndTurn(s)) = TotalChips(s)
           /\ Covered(s) => Covered(EndTurn(s))
<1>. DEFINE t == EndTurn(s)
<1>1. /\ t.stack = s.stack /\ t.pot = s.pot /\ t.players = s.players
      /\ t.bet = s.bet \/ t.bet = [p \in Peer |-> 0]
    BY DEF EndTurn, NextPhase, AdvanceTurn, WellFormed, GameStates
<1>0. Solvent(s) => Solvent(t)
    BY EndTurnWellFormed
<1>. SUFFICES TotalChips(t) = TotalChips(s) /\ (Covered(s) => Covered(t))
    OBVIOUS
<1>. HIDE DEF t
<1>2. CASE t.bet = s.bet
    BY <1>0, <1>1, <1>2 DEF TotalChips, Covered
<1>3. CASE t.bet = [p \in Peer |-> 0]
    <2>1. SumFunctionOnSet(t.bet, s.players) = 0
        BY <1>3, RosterAddsUp, SumOfZeros
    <2>2. /\ SumFunctionOnSet(s.bet, s.players) \in Int /\ s.pot \in Int
          /\ Solvent(s) => SumFunctionOnSet(s.bet, s.players) >= 0
        BY RosterAddsUp
    <2>3. TotalChips(t) = TotalChips(s)
        BY <1>1 DEF TotalChips
    <2>. QED BY <1>0, <1>1, <2>1, <2>2, <2>3 DEF Covered
<1>. QED BY <1>1, <1>2, <1>3

\* One blind: what leaves the stack enters the pot, and covers the bet it
\* becomes, whatever it replaces.
LEMMA PostBlindCovered ==
    ASSUME NEW s, WellFormed(s), NEW p \in s.players, NEW due \in Int
    PROVE  /\ TotalChips(PostBlind(s, p, due)) = TotalChips(s)
           /\ Covered(s) /\ due >= 0 => Covered(PostBlind(s, p, due))
<1>. DEFINE t == PostBlind(s, p, due)
            paid == Lesser(due, s.stack[p])
<1>1. /\ s \in GameStates /\ p \in Peer
      /\ s.pot \in Int /\ s.stack[p] \in Int /\ s.bet[p] \in Int
      /\ SumFunctionOnSet(s.stack, s.players) \in Int
      /\ SumFunctionOnSet(s.bet, s.players) \in Int
    BY RosterAddsUp DEF WellFormed, GameStates
<1>2. paid \in Int
    BY <1>1 DEF Lesser
<1>3. /\ t.players = s.players /\ t.pot = s.pot + paid
      /\ t.stack[p] = s.stack[p] - paid /\ t.bet[p] = paid
      /\ \A q \in Peer \ {p} : t.stack[q] = s.stack[q] /\ t.bet[q] = s.bet[q]
    BY <1>1 DEF PostBlind, GameStates
<1>4. WellFormed(t) /\ (Solvent(s) /\ due >= 0 => Solvent(t))
    BY <1>1, PostBlindWellFormed
<1>. HIDE DEF t, paid
<1>5. /\ SumFunctionOnSet(t.stack, t.players) =
           SumFunctionOnSet(s.stack, s.players) + (t.stack[p] - s.stack[p])
      /\ SumFunctionOnSet(t.bet, t.players) =
           SumFunctionOnSet(s.bet, s.players) + (t.bet[p] - s.bet[p])
    BY <1>3, <1>4, OnePlayersChips
<1>6. TotalChips(t) = TotalChips(s)
    BY <1>1, <1>2, <1>3, <1>5 DEF TotalChips
<1>7. ASSUME Covered(s), due >= 0 PROVE Covered(t)
    <2>1. Solvent(t) /\ s.bet[p] >= 0
        BY <1>1, <1>4, <1>7 DEF Covered, Solvent
    <2>. QED BY <1>1, <1>2, <1>3, <1>5, <1>7, <2>1 DEF Covered
<1>. QED BY <1>6, <1>7 DEF t

LEMMA SetupBlindsCovered ==
    ASSUME NEW s, WellFormed(s)
    PROVE  /\ TotalChips(SetupBlinds(s)) = TotalChips(s)
           /\ Covered(s) => Covered(SetupBlinds(s))
<1>1. LET t == SetupBlinds(s)
      IN  t.stack = s.stack /\ t.bet = s.bet /\ t.pot = s.pot /\ t.players = s.players
    BY DEF SetupBlinds, WellFormed, GameStates
<1>. QED BY <1>1, SetupBlindsWellFormed DEF TotalChips, Covered

LEMMA EnterPreFlopCovered ==
    ASSUME NEW s, WellFormed(s)
    PROVE  /\ TotalChips(EnterPreFlop(s)) = TotalChips(s)
           /\ Covered(s) => Covered(EnterPreFlop(s))
<1>1. LET t == EnterPreFlop(s)
      IN  t.stack = s.stack /\ t.bet = s.bet /\ t.pot = s.pot /\ t.players = s.players
    BY DEF EnterPreFlop, WellFormed, GameStates
<1>. QED BY <1>1, EnterPreFlopWellFormed DEF TotalChips, Covered

LEMMA PostBlindsCovered ==
    ASSUME NEW s, WellFormed(s)
    PROVE  /\ TotalChips(PostBlinds(s)) = TotalChips(s)
           /\ Covered(s) => Covered(PostBlinds(s))
<1>1. CASE ~BlindsKnown(s)
    BY <1>1 DEF PostBlinds
<1>2. CASE BlindsKnown(s)
    <2>. DEFINE small == PostBlind(s, s.smallBlind, s.smallBlindAmount)
                both == PostBlind(small, s.bigBlind, s.bigBlindAmount)
    <2>1. /\ s.smallBlind \in s.players /\ s.bigBlind \in s.players
          /\ s.players \subseteq Peer /\ s \in GameStates
          /\ s.smallBlindAmount \in Int /\ s.bigBlindAmount \in Int
        BY <1>2 DEF BlindsKnown, WellFormed, GameStates
    <2>2. Covered(s) => s.smallBlindAmount >= 0 /\ s.bigBlindAmount >= 0
        BY DEF Covered, Solvent
    <2>3. /\ WellFormed(small) /\ small.players = s.players
          /\ TotalChips(small) = TotalChips(s)
          /\ Covered(s) => Covered(small)
        <3>1. WellFormed(small)
            BY <2>1, PostBlindWellFormed
        <3>2. small.players = s.players
            BY <2>1 DEF PostBlind, GameStates
        <3>3. TotalChips(small) = TotalChips(s) /\ (Covered(s) => Covered(small))
            BY <2>1, <2>2, PostBlindCovered
        <3>. QED BY <3>1, <3>2, <3>3
    <2>. HIDE DEF small
    <2>4. /\ WellFormed(both)
          /\ TotalChips(both) = TotalChips(small)
          /\ Covered(s) => Covered(both)
        BY <2>1, <2>2, <2>3, PostBlindCovered, PostBlindWellFormed
    <2>. HIDE DEF both
    <2>5. PostBlinds(s) = [both EXCEPT !.currentBet = both.bet[s.bigBlind],
                                       !.currentTurn = NextAround(s.players, s.bigBlind)]
        BY <1>2 DEF PostBlinds, both, small
    <2>6. LET t == PostBlinds(s)
          IN  /\ t.stack = both.stack /\ t.bet = both.bet
              /\ t.pot = both.pot /\ t.players = both.players
        BY <2>4, <2>5 DEF WellFormed, GameStates
    <2>. QED BY <2>3, <2>4, <2>6, PostBlindsWellFormed DEF TotalChips, Covered
<1>. QED BY <1>1, <1>2

LEMMA StartPreFlopCovered ==
    ASSUME NEW s, WellFormed(s)
    PROVE  /\ TotalChips(StartPreFlop(s)) = TotalChips(s)
           /\ Covered(s) => Covered(StartPreFlop(s))
<1>. DEFINE entered == EnterPreFlop(s)
            setUp == SetupBlinds(entered)
<1>1. WellFormed(entered) /\ TotalChips(entered) = TotalChips(s)
      /\ (Covered(s) => Covered(entered))
    BY EnterPreFlopWellFormed, EnterPreFlopCovered
<1>. HIDE DEF entered
<1>2. WellFormed(setUp) /\ TotalChips(setUp) = TotalChips(entered)
      /\ (Covered(entered) => Covered(setUp))
    BY <1>1, SetupBlindsWellFormed, SetupBlindsCovered
<1>. HIDE DEF setUp
<1>3. TotalChips(PostBlinds(setUp)) = TotalChips(setUp)
      /\ (Covered(setUp) => Covered(PostBlinds(setUp)))
    BY <1>2, PostBlindsCovered
<1>4. StartPreFlop(s) \in {s, entered, PostBlinds(setUp)}
    BY DEF StartPreFlop, entered, setUp
<1>. QED BY <1>1, <1>2, <1>3, <1>4

\* A bet message, whatever the action in it, moves chips and keeps the books.
LEMMA BetMovesChips ==
    ASSUME WellFormed(gs), NEW p \in Peer, HandleBet(p)
    PROVE  /\ WellFormed(gs')
           /\ TotalChips(gs') = TotalChips(gs)
           /\ Covered(gs) => Covered(gs')
<1>1. PICK acted : /\ WellFormed(acted) /\ Conclude(p, acted)
                   /\ AccountsFor(gs, acted, p) /\ (Solvent(gs) => Solvent(acted))
    BY ActedBooks
<1>2. p \in gs.players
    BY ActedWellFormed
<1>3. TotalChips(acted) = TotalChips(gs) /\ (Covered(gs) => Covered(acted))
    BY <1>1, <1>2, ActedKeepsChips
<1>. DEFINE marked == MarkActed(acted, p)
<1>4. WellFormed(marked) /\ (Solvent(acted) => Solvent(marked))
    BY <1>1, <1>2, MarkActedWellFormed DEF AccountsFor
<1>5. /\ marked.stack = acted.stack /\ marked.bet = acted.bet
      /\ marked.pot = acted.pot /\ marked.players = acted.players
    BY <1>1 DEF MarkActed, WellFormed, GameStates
<1>6. TotalChips(marked) = TotalChips(gs) /\ (Covered(gs) => Covered(marked))
    BY <1>3, <1>4, <1>5 DEF TotalChips, Covered
<1>7. gs' = marked \/ gs' = EndTurn(marked)
    BY <1>1 DEF Conclude
<1>. HIDE DEF marked
<1>8. /\ WellFormed(EndTurn(marked))
      /\ TotalChips(EndTurn(marked)) = TotalChips(marked)
      /\ Covered(marked) => Covered(EndTurn(marked))
    BY <1>4, EndTurnWellFormed, EndTurnCovered
<1>. QED BY <1>4, <1>6, <1>7, <1>8

\* A commitment stores a fact and may start the hand: blinds are moved, no more.
LEMMA CommitmentMovesChips ==
    ASSUME WellFormed(gs), NEW p \in Peer, HandleHandCommitment(p)
    PROVE  /\ TotalChips(gs') = TotalChips(gs)
           /\ Covered(gs) => Covered(gs')
<1>. DEFINE stored == [gs EXCEPT !.committed = @ \cup {p}]
<1>1. WellFormed(stored) /\ (Solvent(gs) => Solvent(stored))
    BY DEF HandleHandCommitment, WellFormed, Solvent, GameStates
<1>2. /\ stored.stack = gs.stack /\ stored.bet = gs.bet
      /\ stored.pot = gs.pot /\ stored.players = gs.players
    BY DEF WellFormed, GameStates
<1>3. gs' = StartPreFlop(stored)
    BY DEF HandleHandCommitment
<1>. HIDE DEF stored
<1>4. TotalChips(stored) = TotalChips(gs) /\ (Covered(gs) => Covered(stored))
    BY <1>1, <1>2 DEF TotalChips, Covered
<1>. QED BY <1>1, <1>3, <1>4, StartPreFlopCovered

\* The `start` command and the deal only set the phase.
LEMMA DealMovesNothing ==
    ASSUME WellFormed(gs), StartShuffle \/ DealCards
    PROVE  /\ TotalChips(gs') = TotalChips(gs)
           /\ Covered(gs) => Covered(gs')
<1>1. /\ gs'.stack = gs.stack /\ gs'.bet = gs.bet
      /\ gs'.pot = gs.pot /\ gs'.players = gs.players
      /\ Solvent(gs) => Solvent(gs')
    BY DEF StartShuffle, DealCards, WellFormed, Solvent, GameStates
<1>. QED BY <1>1 DEF TotalChips, Covered

\* Until a state update overwrites the pot, it holds at least the bets of the
\* round: whoever calls below their own bet is refunded from chips that are there.
THEOREM PotCovers == Spec => []PotCoversBets
<1>. DEFINE Inv == updates = 0 => Covered(gs)
<1>1. Init => Inv
    <2>1. SUFFICES ASSUME Init PROVE Covered(gs)
        OBVIOUS
    <2>2. gs.players = {} /\ gs.pot = 0 /\ Solvent(gs)
        BY <2>1, NewGameStateWellFormed DEF Init, NewGameState
    <2>. QED BY <2>2, SumOfNone DEF Covered
<1>2. TypeOK /\ Inv /\ [Next]_vars => Inv'
    <2>. SUFFICES ASSUME TypeOK, Inv, [Next]_vars, updates' = 0
                  PROVE  Covered(gs')
        OBVIOUS
    <2>0. WellFormed(gs) /\ updates \in Nat
        BY DEF TypeOK
    <2>1. updates = 0 /\ ~CopyNext /\ \A u \in Updates : ~HandleStateUpdate(u)
        <3>1. updates' \in {updates, updates + 1}
            BY CopyTypes DEF Next, vars, HandleJoin, HandleBet, HandleHandCommitment,
                   HandleStateUpdate, StartShuffle, DealCards
        <3>2. updates = 0
            BY <2>0, <3>1
        <3>. QED BY <3>2, CopyTypes DEF HandleStateUpdate
    <2>2. Covered(gs)
        BY <2>1
    <2>3. ASSUME NEW p \in Peer, HandleJoin(p) PROVE Covered(gs')
        BY <2>0, <2>2, <2>3, AddPlayerCovered, WiringAssumption DEF HandleJoin
    <2>4. ASSUME NEW p \in Peer, HandleBet(p) PROVE Covered(gs')
        BY <2>0, <2>2, <2>4, BetMovesChips
    <2>5. ASSUME NEW p \in Peer, HandleHandCommitment(p) PROVE Covered(gs')
        BY <2>0, <2>2, <2>5, CommitmentMovesChips
    <2>6. CASE StartShuffle \/ DealCards
        BY <2>0, <2>2, <2>6, DealMovesNothing
    <2>7. CASE UNCHANGED vars
        BY <2>2, <2>7 DEF vars
    <2>. QED BY <2>1, <2>3, <2>4, <2>5, <2>6, <2>7 DEF Next
<1>3. Inv => PotCoversBets
    BY DEF Covered, PotCoversBets
<1>. QED BY <1>1, <1>2, <1>3, TypeCorrect, PTL DEF Spec

\* Joins and the assignments of state updates aside, no step creates a chip or
\* loses one, whatever an update has left behind: pot and stacks add up to what
\* they were.
THEOREM ChipsAreKept == Spec => ChipsOnlyMove
<1>1. ASSUME TypeOK, Next, TotalChips(gs') # TotalChips(gs),
             ~(\E p \in Peer : HandleJoin(p))
      PROVE  CopyNext
    <2>0. WellFormed(gs)
        BY <1>1 DEF TypeOK
    <2>1. \A p \in Peer : ~HandleBet(p) /\ ~HandleHandCommitment(p)
        BY <1>1, <2>0, BetMovesChips, CommitmentMovesChips
    <2>2. ~StartShuffle /\ ~DealCards
        BY <1>1, <2>0, DealMovesNothing
    <2>3. \A u \in Updates : ~HandleStateUpdate(u)
        BY <1>1 DEF HandleStateUpdate
    <2>. QED BY <1>1, <2>1, <2>2, <2>3 DEF Next
<1>2. TypeOK /\ [Next]_vars =>
         [TotalChips(gs') # TotalChips(gs) =>
            (\E p \in Peer : HandleJoin(p)) \/ CopyNext]_vars
    BY <1>1
<1>. QED BY <1>2, TypeCorrect, PTL DEF Spec, ChipsOnlyMove

-----------------------------------------------------------------------------
(* The start of a hand: what Table's theorems say holds of the finer steps. *)

\* A step of HandStart is one that the table's lemmas are about, or one of the
\* six a commitment is taken apart into.
LEMMA SmallStepsKeepBooks ==
    ASSUME WellFormed(gs), NEW p \in Peer,
           StoreCommitment(p) \/ ReadPhase(p) \/ ReadCommitments(p) \/ SetPreFlop(p)
              \/ CallSetupBlinds(p) \/ CallPostBlinds(p)
    PROVE  /\ WellFormed(gs') /\ gs'.players = gs.players
           /\ Solvent(gs) => Solvent(gs')
           /\ TotalChips(gs') = TotalChips(gs)
           /\ Covered(gs) => Covered(gs')
<1>1. CASE StoreCommitment(p)
    <2>1. /\ WellFormed(gs') /\ gs'.stack = gs.stack /\ gs'.bet = gs.bet
          /\ gs'.pot = gs.pot /\ gs'.players = gs.players
          /\ Solvent(gs) => Solvent(gs')
        BY <1>1 DEF StoreCommitment, WellFormed, Solvent, GameStates
    <2>. QED BY <2>1 DEF TotalChips, Covered
<1>2. CASE ReadPhase(p) \/ ReadCommitments(p)
    <2>1. gs' = gs
        BY <1>2 DEF ReadPhase, ReadCommitments
    <2>. QED BY <2>1
<1>3. CASE SetPreFlop(p)
    <2>1. gs' = EnterPreFlop(gs)
        BY <1>3 DEF SetPreFlop
    <2>2. gs'.players = gs.players
        BY <2>1 DEF EnterPreFlop, WellFormed, GameStates
    <2>. QED BY <2>1, <2>2, EnterPreFlopWellFormed, EnterPreFlopCovered
<1>4. CASE CallSetupBlinds(p)
    <2>1. gs' = SetupBlinds(gs)
        BY <1>4 DEF CallSetupBlinds
    <2>2. gs'.players = gs.players
        BY <2>1 DEF SetupBlinds, WellFormed, GameStates
    <2>. QED BY <2>1, <2>2, SetupBlindsWellFormed, SetupBlindsCovered
<1>5. CASE CallPostBlinds(p)
    <2>1. gs' = PostBlinds(gs)
        BY <1>5 DEF CallPostBlinds
    <2>2. gs'.players = gs.players
        BY <2>1 DEF PostBlinds, PostBlind, WellFormed, GameStates
    <2>. QED BY <2>1, <2>2, PostBlindsWellFormed, PostBlindsCovered
<1>. QED BY <1>1, <1>2, <1>3, <1>4, <1>5

\* The game state stays well formed and every handler where it can be, however
\* the steps of several commitments interleave.
THEOREM HandTypeCorrect == HandSpec => []HandTypeOK
<1>1. HandInit => HandTypeOK
    BY NewGameStateWellFormed DEF HandInit, Init, HandTypeOK, TypeOK, Steps
<1>2. HandTypeOK /\ [HandNext]_handVars => HandTypeOK'
    <2>. SUFFICES ASSUME HandTypeOK, [HandNext]_handVars PROVE HandTypeOK'
        OBVIOUS
    <2>0. TypeOK /\ WellFormed(gs) /\ pc \in [Peer -> Steps]
        BY DEF HandTypeOK, TypeOK
    <2>1. ASSUME NEW p \in Peer,
                 StoreCommitment(p) \/ ReadPhase(p) \/ ReadCommitments(p) \/ SetPreFlop(p)
                    \/ CallSetupBlinds(p) \/ CallPostBlinds(p)
          PROVE  HandTypeOK'
        <3>1. /\ WellFormed(gs') /\ gs'.players = gs.players
              /\ Solvent(gs) => Solvent(gs')
            BY <2>0, <2>1, SmallStepsKeepBooks
        <3>2. pc' \in [Peer -> Steps]
            BY <2>0, <2>1 DEF StoreCommitment, ReadPhase, ReadCommitments, SetPreFlop,
                CallSetupBlinds, CallPostBlinds, Goto, Steps
        <3>3. UNCHANGED <<muOwner, alive, host, copying, decks, joins, starts, updates>>
            BY <2>1 DEF StoreCommitment, ReadPhase, ReadCommitments, SetPreFlop,
                CallSetupBlinds, CallPostBlinds, OnlyGame
        <3>4. TypeOK'
            BY <2>0, <3>1, <3>3 DEF TypeOK
        <3>. QED BY <3>2, <3>4 DEF HandTypeOK
    <2>2. ASSUME NEW p \in Peer, HandleJoin(p), UNCHANGED pc PROVE HandTypeOK'
        BY <2>0, <2>2, JoinKeepsTypes DEF HandTypeOK
    <2>3. ASSUME NEW p \in Peer, HandleBet(p), UNCHANGED pc PROVE HandTypeOK'
        BY <2>0, <2>3, BetKeepsTypes DEF HandTypeOK
    <2>4. CASE (StartShuffle \/ DealCards) /\ UNCHANGED pc
        BY <2>0, <2>4, DealKeepsTypes DEF HandTypeOK
    <2>5. CASE UNCHANGED handVars
        BY <2>0, <2>5 DEF handVars, vars, HandTypeOK, TypeOK
    <2>. QED BY <2>1, <2>2, <2>3, <2>4, <2>5 DEF HandNext, OtherMessage
<1>. QED BY <1>1, <1>2, PTL DEF HandSpec

\* Blinds posted twice, or by a handler that comes late, are still paid into the
\* pot they replace a bet in: the pot always covers the bets of the round.
THEOREM HandPotCovers == HandSpec => []PotCoversBets
<1>1. HandInit => Covered(gs)
    <2>1. SUFFICES ASSUME HandInit PROVE Covered(gs)
        OBVIOUS
    <2>2. gs.players = {} /\ gs.pot = 0 /\ Solvent(gs)
        BY <2>1, NewGameStateWellFormed DEF HandInit, Init, NewGameState
    <2>. QED BY <2>2, SumOfNone DEF Covered
<1>2. HandTypeOK /\ Covered(gs) /\ [HandNext]_handVars => Covered(gs)'
    <2>. SUFFICES ASSUME HandTypeOK, Covered(gs), [HandNext]_handVars
                  PROVE  Covered(gs')
        OBVIOUS
    <2>0. WellFormed(gs)
        BY DEF HandTypeOK, TypeOK
    <2>1. ASSUME NEW p \in Peer,
                 StoreCommitment(p) \/ ReadPhase(p) \/ ReadCommitments(p) \/ SetPreFlop(p)
                    \/ CallSetupBlinds(p) \/ CallPostBlinds(p)
          PROVE  Covered(gs')
        BY <2>0, <2>1, SmallStepsKeepBooks
    <2>2. ASSUME NEW p \in Peer, HandleJoin(p) PROVE Covered(gs')
        BY <2>0, <2>2, AddPlayerCovered, WiringAssumption DEF HandleJoin
    <2>3. ASSUME NEW p \in Peer, HandleBet(p) PROVE Covered(gs')
        BY <2>0, <2>3, BetMovesChips
    <2>4. CASE StartShuffle \/ DealCards
        BY <2>0, <2>4, DealMovesNothing
    <2>5. CASE UNCHANGED handVars
        BY <2>5 DEF handVars, vars
    <2>. QED BY <2>1, <2>2, <2>3, <2>4, <2>5 DEF HandNext, OtherMessage
<1>3. Covered(gs) => PotCoversBets
    BY DEF Covered, PotCoversBets
<1>. QED BY <1>1, <1>2, <1>3, HandTypeCorrect, PTL DEF HandSpec

\* No interleaving of handlers creates a chip or loses one.
THEOREM HandChipsAreKept == HandSpec => ChipsOnlyMove
<1>1. ASSUME HandTypeOK, HandNext, TotalChips(gs') # TotalChips(gs)
      PROVE  \E p \in Peer : HandleJoin(p)
    <2>0. WellFormed(gs)
        BY <1>1 DEF HandTypeOK, TypeOK
    <2>1. \A p \in Peer : ~HandleBet(p)
        BY <1>1, <2>0, BetMovesChips
    <2>2. ~StartShuffle /\ ~DealCards
        BY <1>1, <2>0, DealMovesNothing
    <2>3. \A p \in Peer : ~(StoreCommitment(p) \/ ReadPhase(p) \/ ReadCommitments(p) \/ SetPreFlop(p)
                              \/ CallSetupBlinds(p) \/ CallPostBlinds(p))
        BY <1>1, <2>0, SmallStepsKeepBooks
    <2>. QED BY <1>1, <2>1, <2>2, <2>3 DEF HandNext, OtherMessage
<1>2. HandTypeOK /\ [HandNext]_handVars =>
         [TotalChips(gs') # TotalChips(gs) =>
            (\E p \in Peer : HandleJoin(p)) \/ CopyNext]_vars
    BY <1>1 DEF handVars, vars
<1>. QED BY <1>2, HandTypeCorrect, PTL DEF HandSpec, ChipsOnlyMove

\* A street still ends even while the handlers of other commitments are held up.
THEOREM HandStreetsEndEven == HandSpec => StreetEndsEven
<1>1. HandTypeOK =>
         ((\E p \in Peer : HandleBet(p)) /\ gs'.phase # gs.phase =>
            \A p, q \in {r \in gs'.inHand : gs'.stack[r] > 0} :
               gs.bet[p] + Paid(gs, gs', p) = gs.bet[q] + Paid(gs, gs', q))
    BY BetEndsEven DEF HandTypeOK, TypeOK
<1>. QED BY <1>1, HandTypeCorrect, PTL DEF HandSpec, StreetEndsEven

-----------------------------------------------------------------------------
(* A handler that sets the phase late. *)

\* The first hand is on: its cards are dealt and every player has committed.
HandIsOn == starts # 0 /\ decks = 0 /\ gs.phase # "WaitingForPlayers"

\* The dearer of the two blinds.
Dearest == IF SmallBlindAmount > BigBlindAmount THEN SmallBlindAmount
                                                ELSE BigBlindAmount

\* The handlers that read WaitingForPlayers and are not done with the hand, and
\* those of them that have yet to set the phase.
LateSteps == {"loop", "enter", "setup", "post"}
Late == {p \in Peer : pc[p] \in LateSteps}
IsHeld(p) == pc[p] \in {"loop", "enter"}

\* What the other handlers, each posting the blinds once, can have left of the
\* stack of a player whose handler is held up.
LeftOver == StartStack - (Cardinality(Peer) - Cardinality(Late)) * Dearest

\* A handler about to set the phase holds up its own player, who is in the hand,
\* has not acted, and has chips: the betting round cannot end without.
HeldUp(p) ==
    /\ HandIsOn => gs.phase = "PreFlop"
    /\ starts # 0 /\ decks = 0
    /\ p \in gs.inHand \ gs.hasActed
    /\ gs.stack[p] >= LeftOver

LateInv ==
    /\ starts <= 1 /\ decks <= starts
    /\ starts = 0 => gs.phase = "Idle"
    /\ decks > 0 => gs.phase = "Shuffling"
    /\ gs.smallBlind = gs.bigBlind => gs.smallBlind = NoPeer
    /\ \A p \in Peer : pc[p] # "idle" => p \in gs.players
    /\ ~HandIsOn => /\ gs.currentTurn = NoPeer
                    /\ gs.inHand = gs.players /\ gs.hasActed = {}
                    /\ \A p \in gs.players : gs.stack[p] = StartStack
                    /\ \A p \in Peer : pc[p] \notin {"setup", "post"}
    /\ gs.smallBlindAmount = SmallBlindAmount /\ gs.bigBlindAmount = BigBlindAmount
    /\ \A p \in Peer : IsHeld(p) => HeldUp(p)

\* On a roster of two or more, the walk round it leaves the place it starts from.
LEMMA NextAroundIsOther ==
    ASSUME NEW S \in SUBSET Peer, NEW p \in S, S # {p}
    PROVE  NextAround(S, p) # p
<1>. DEFINE after == {q \in S : q > p}
<1>1. S \subseteq Nat /\ after \subseteq Nat /\ p \in Nat
    BY PeerAssumption
<1>2. CASE after # {}
    <2>1. Min(after) \in after
        BY <1>1, <1>2, MinIsMember
    <2>. QED BY <1>1, <1>2, <2>1 DEF NextAround
<1>3. CASE after = {}
    <2>1. Min(S) \in S /\ \A q \in S : Min(S) <= q
        BY <1>1, MinIsMember
    <2>2. PICK q \in S : q # p
        OBVIOUS
    <2>3. Min(S) # p
        BY <1>1, <1>3, <2>1, <2>2
    <2>. QED BY <1>3, <2>3 DEF NextAround
<1>. QED BY <1>2, <1>3

\* The blinds are set up on two different players.
LEMMA SetupBlindsApart ==
    ASSUME NEW s, WellFormed(s), s.smallBlind = s.bigBlind => s.smallBlind = NoPeer
    PROVE  LET t == SetupBlinds(s)
           IN  t.smallBlind = t.bigBlind => t.smallBlind = NoPeer
<1>1. CASE Cardinality(s.players) < 2
    BY <1>1 DEF SetupBlinds
<1>2. CASE ~(Cardinality(s.players) < 2)
    <2>1. /\ s \in GameStates /\ s.players \in SUBSET Peer
          /\ s.players # {} /\ \A p : s.players # {p}
        <3>1. Cardinality({}) = 0 /\ \A p : Cardinality({p}) = 1
            BY FS_EmptySet, FS_Singleton
        <3>2. s.players # {}
            BY <1>2, <3>1
        <3>3. ASSUME NEW p PROVE s.players # {p}
            <4>1. CASE s.players = {p}
                BY <1>2, <3>1, <4>1
            <4>. QED BY <4>1
        <3>. QED BY <3>2, <3>3 DEF WellFormed, GameStates
    <2>. DEFINE dealer == IF s.dealer \in s.players THEN s.dealer ELSE Min(s.players)
                small == NextAround(s.players, dealer)
                big == NextAround(s.players, small)
    <2>2. dealer \in Peer
        BY <2>1, MinIsMember, PeerAssumption
    <2>3. small \in s.players
        BY <2>1, <2>2, NextAroundIsMember
    <2>4. big # small
        BY <2>1, <2>3, NextAroundIsOther
    <2>5. SetupBlinds(s) = [s EXCEPT !.dealer = dealer, !.smallBlind = small,
                                     !.bigBlind = big]
        BY <1>2 DEF SetupBlinds
    <2>. QED BY <2>1, <2>4, <2>5 DEF GameStates
<1>. QED BY <1>1, <1>2

\* Posting the blinds takes at most one of the two from any player.
LEMMA PostBlindsTakesOne ==
    ASSUME NEW s, WellFormed(s), s.smallBlind = s.bigBlind => s.smallBlind = NoPeer,
           s.smallBlindAmount = SmallBlindAmount, s.bigBlindAmount = BigBlindAmount,
           NEW p \in Peer
    PROVE  PostBlinds(s).stack[p] >= s.stack[p] - Dearest
<1>. DEFINE small == PostBlind(s, s.smallBlind, SmallBlindAmount)
            both == PostBlind(small, s.bigBlind, BigBlindAmount)
<1>0. /\ s \in GameStates /\ s.stack \in [Peer -> Int] /\ s.stack[p] \in Int
      /\ Dearest \in Nat /\ SmallBlindAmount <= Dearest /\ BigBlindAmount <= Dearest
      /\ SmallBlindAmount \in Nat /\ BigBlindAmount \in Nat
    BY ChipsAssumption DEF WellFormed, GameStates, Dearest
<1>1. CASE ~BlindsKnown(s)
    BY <1>0, <1>1 DEF PostBlinds
<1>2. CASE BlindsKnown(s)
    <2>1. /\ s.smallBlind \in Peer /\ s.bigBlind \in Peer /\ s.smallBlind # s.bigBlind
        BY <1>0, <1>2, PeerAssumption DEF BlindsKnown, GameStates
    <2>. DEFINE paid == Lesser(SmallBlindAmount, s.stack[s.smallBlind])
    <2>2. /\ WellFormed(small) /\ small.stack \in [Peer -> Int]
          /\ small.stack = [s.stack EXCEPT ![s.smallBlind] = @ - paid]
          /\ paid \in Int /\ paid <= SmallBlindAmount
        <3>1. WellFormed(small)
            BY <2>1, PostBlindWellFormed, ChipsAssumption
        <3>2. small.stack = [s.stack EXCEPT ![s.smallBlind] = @ - paid]
            BY <1>0 DEF PostBlind, GameStates
        <3>3. s.stack[s.smallBlind] \in Int
            BY <1>0, <2>1
        <3>4. paid \in Int /\ paid <= SmallBlindAmount
            BY <1>0, <3>3 DEF Lesser
        <3>. HIDE DEF paid, small
        <3>. QED BY <3>1, <3>2, <3>4 DEF WellFormed, GameStates
    <2>. HIDE DEF small, paid
    <2>. DEFINE due == Lesser(BigBlindAmount, small.stack[s.bigBlind])
    <2>3. /\ both.stack = [small.stack EXCEPT ![s.bigBlind] = @ - due]
          /\ due \in Int /\ due <= BigBlindAmount
        <3>1. small.stack[s.bigBlind] \in Int
            BY <2>1, <2>2
        <3>2. due \in Int /\ due <= BigBlindAmount
            BY <1>0, <3>1 DEF Lesser
        <3>3. both.stack = [small.stack EXCEPT ![s.bigBlind] = @ - due]
            BY <2>2 DEF PostBlind, WellFormed, GameStates
        <3>. QED BY <3>2, <3>3
    <2>4. PostBlinds(s).stack = both.stack
        <3>1. WellFormed(both)
            BY <2>1, <2>2, PostBlindWellFormed, ChipsAssumption
        <3>2. PostBlinds(s) = [both EXCEPT !.currentBet = both.bet[s.bigBlind],
                                 !.currentTurn = NextAround(s.players, s.bigBlind)]
            BY <1>2 DEF PostBlinds, small
        <3>. HIDE DEF both
        <3>. QED BY <3>1, <3>2 DEF WellFormed, GameStates
    <2>. HIDE DEF due
    <2>. QED BY <1>0, <2>1, <2>2, <2>3, <2>4
<1>. QED BY <1>1, <1>2

\* There are no more handlers to come than peers, and while one of them is held
\* up the others leave its player a chip.
LEMMA LateAreFew ==
    /\ IsFiniteSet(Late) /\ Cardinality(Late) \in Nat
    /\ Cardinality(Peer) \in Nat /\ Cardinality(Late) <= Cardinality(Peer)
    /\ Dearest \in Nat
<1>1. Late \in SUBSET Peer
    BY DEF Late
<1>. QED BY <1>1, FS_Subset, FS_CardinalityType, PeerAssumption, ChipsAssumption
        DEF Dearest

LEMMA TimesIsMonotone ==
    ASSUME NEW a \in Int, NEW b \in Int, a <= b, NEW m \in Nat
    PROVE  a * m <= b * m /\ a * m \in Int /\ b * m \in Int
OBVIOUS

LEMMA LeftOverIsInt == LeftOver \in Int
<1>1. (Cardinality(Peer) - Cardinality(Late)) * Dearest \in Int
    BY LateAreFew
<1>. QED BY <1>1, ChipsAssumption DEF LeftOver

LEMMA SomethingIsLeft ==
    ASSUME StartStack > (Cardinality(Peer) - 1) * Dearest,
           NEW p \in Peer, IsHeld(p)
    PROVE  LeftOver > 0
<1>1. p \in Late
    BY DEF Late, LateSteps, IsHeld
<1>2. Cardinality(Late) # 0
    BY <1>1, LateAreFew, FS_EmptySet
<1>. DEFINE done == Cardinality(Peer) - Cardinality(Late)
            others == Cardinality(Peer) - 1
<1>3. done \in Int /\ others \in Int /\ done <= others
    BY <1>2, LateAreFew
<1>. HIDE DEF done, others
<1>4. done * Dearest <= others * Dearest /\ done * Dearest \in Int
      /\ others * Dearest \in Int
    BY <1>3, LateAreFew, TimesIsMonotone
<1>. QED BY <1>4, ChipsAssumption DEF LeftOver, done, others

\* A bet message leaves alone a player who is not its sender and holds the round
\* open.
LEMMA BetLeavesHeldUp ==
    ASSUME WellFormed(gs), NEW b \in Peer, HandleBet(b)
    PROVE  /\ gs.currentTurn = b
           /\ gs'.players = gs.players
           /\ gs'.smallBlind = gs.smallBlind /\ gs'.bigBlind = gs.bigBlind
           /\ gs'.smallBlindAmount = gs.smallBlindAmount
           /\ gs'.bigBlindAmount = gs.bigBlindAmount
           /\ gs'.phase \in {"WaitingForPlayers", "PreFlop"} => gs'.phase = gs.phase
           /\ \A p \in Peer \ {b} :
                 p \in gs.inHand \ gs.hasActed /\ gs.stack[p] > 0 =>
                    /\ gs'.phase = gs.phase
                    /\ p \in gs'.inHand \ gs'.hasActed
                    /\ gs'.stack[p] = gs.stack[p]
<1>1. PICK acted : /\ WellFormed(acted) /\ Conclude(b, acted)
                   /\ AccountsFor(gs, acted, b)
    BY ActedBooks
<1>2. gs.currentTurn = b /\ b \in gs.players
    BY DEF HandleBet, FoldAction, CheckAction, CallAction, BetAction, MayAct
<1>. DEFINE m == MarkActed(acted, b)
            a == AdvanceTurn(m)
            Kept(t) == /\ t.players = gs.players
                       /\ t.smallBlind = gs.smallBlind /\ t.bigBlind = gs.bigBlind
                       /\ t.smallBlindAmount = gs.smallBlindAmount
                       /\ t.bigBlindAmount = gs.bigBlindAmount
            Held(t, p) == p \in t.inHand \ t.hasActed /\ t.stack[p] = gs.stack[p]
<1>3. /\ m \in GameStates /\ Kept(m) /\ m.phase = gs.phase
      /\ \A p \in Peer \ {b} : p \in gs.inHand \ gs.hasActed => Held(m, p)
    BY <1>1 DEF MarkActed, AccountsFor, WellFormed, GameStates
<1>4. gs' = m \/ gs' = EndTurn(m)
    BY <1>1 DEF Conclude
<1>. HIDE DEF m
<1>5. /\ a \in GameStates /\ Kept(a) /\ a.phase = gs.phase
      /\ \A p \in Peer \ {b} : p \in gs.inHand \ gs.hasActed => Held(a, p)
    <2>1. WellFormed(m)
        BY <1>1, <1>2, MarkActedWellFormed DEF AccountsFor, m
    <2>2. a \in GameStates
        BY <2>1, AdvanceTurnWellFormed DEF WellFormed
    <2>3. /\ a.players = m.players /\ a.smallBlind = m.smallBlind
          /\ a.bigBlind = m.bigBlind /\ a.phase = m.phase
          /\ a.smallBlindAmount = m.smallBlindAmount
          /\ a.bigBlindAmount = m.bigBlindAmount
          /\ a.inHand = m.inHand /\ a.hasActed = m.hasActed /\ a.stack = m.stack
        BY <1>3 DEF AdvanceTurn, GameStates
    <2>. QED BY <1>3, <2>2, <2>3
<1>. HIDE DEF a
<1>6. /\ Kept(NextPhase(a))
      /\ NextPhase(a).phase \in {"WaitingForPlayers", "PreFlop"} =>
            NextPhase(a).phase = a.phase
    BY <1>5 DEF NextPhase, Streets, NextStreet, GameStates
<1>7. IsRoundComplete(a) =>
         \A p \in Peer \ {b} : ~(p \in gs.inHand \ gs.hasActed /\ gs.stack[p] > 0)
    BY <1>5 DEF IsRoundComplete
<1>8. EndTurn(m) = IF IsRoundComplete(a) THEN NextPhase(a) ELSE a
    BY DEF EndTurn, a
<1>. QED BY <1>2, <1>3, <1>4, <1>5, <1>6, <1>7, <1>8

-----------------------------------------------------------------------------
(* LateInv is kept, one lemma for each kind of step. *)

\* When a handler moves, Late changes by at most that handler.
LEMMA LateMoves ==
    ASSUME pc \in [Peer -> Steps], NEW q \in Peer, NEW to \in Steps,
           pc' = [pc EXCEPT ![q] = to]
    PROVE  /\ \A p \in Peer \ {q} : pc'[p] = pc[p]
           /\ pc'[q] = to
           /\ Late' = IF to \in LateSteps THEN Late \cup {q}
                                                          ELSE Late \ {q}
           /\ Cardinality(Late') =
                 IF to \in LateSteps
                 THEN (IF q \in Late THEN Cardinality(Late) ELSE Cardinality(Late) + 1)
                 ELSE (IF q \in Late THEN Cardinality(Late) - 1 ELSE Cardinality(Late))
<1>1. (\A p \in Peer \ {q} : pc'[p] = pc[p]) /\ pc'[q] = to
    OBVIOUS
<1>2. Late' = IF to \in LateSteps THEN Late \cup {q} ELSE Late \ {q}
    BY <1>1 DEF Late, LateSteps
<1>3. IsFiniteSet(Late)
    BY LateAreFew
<1>4. /\ Cardinality(Late \cup {q}) =
            IF q \in Late THEN Cardinality(Late) ELSE Cardinality(Late) + 1
      /\ Cardinality(Late \ {q}) =
            IF q \in Late THEN Cardinality(Late) - 1 ELSE Cardinality(Late)
    BY <1>3, FS_AddElement, FS_RemoveElement
<1>. QED BY <1>1, <1>2, <1>4

\* A handler that is done leaves the others a blind less.
LEMMA LeftOverFalls ==
    ASSUME pc \in [Peer -> Steps], NEW q \in Late,
           pc' = [pc EXCEPT ![q] = "idle"]
    PROVE  LeftOver' = LeftOver - Dearest
<1>1. q \in Peer /\ "idle" \in Steps
    BY DEF Late, Steps
<1>2. Cardinality(Late') = Cardinality(Late) - 1
    BY <1>1, LateMoves DEF LateSteps
<1>. DEFINE done == Cardinality(Peer) - Cardinality(Late)
<1>3. done \in Int /\ Dearest \in Int /\ StartStack \in Int
    BY LateAreFew, ChipsAssumption
<1>4. Cardinality(Peer) - Cardinality(Late') = done + 1
    BY <1>2, LateAreFew
<1>. HIDE DEF done
<1>5. /\ LeftOver' = StartStack - (done + 1) * Dearest
      /\ LeftOver = StartStack - done * Dearest
    BY <1>4 DEF LeftOver, done, Dearest
<1>6. (done + 1) * Dearest = done * Dearest + Dearest /\ done * Dearest \in Int
    BY <1>3
<1>. QED BY <1>3, <1>5, <1>6

\* Nothing in Late changes when no handler leaves it or enters it.
LEMMA LeftOverStays ==
    ASSUME Late' = Late PROVE LeftOver' = LeftOver
BY DEF LeftOver, Dearest

LEMMA LeftOverIsBounded == LeftOver <= StartStack
<1>. DEFINE done == Cardinality(Peer) - Cardinality(Late)
<1>1. 0 <= done /\ done \in Int
    BY LateAreFew
<1>. HIDE DEF done
<1>2. 0 * Dearest <= done * Dearest /\ done * Dearest \in Int
    BY <1>1, LateAreFew, TimesIsMonotone
<1>. QED BY <1>2, ChipsAssumption, LateAreFew DEF LeftOver, done

LEMMA StoreKeepsLateInv ==
    ASSUME HandTypeOK, LateInv, NEW q \in Peer, StoreCommitment(q)
    PROVE  LateInv'
<1>1. /\ gs \in GameStates /\ pc \in [Peer -> Steps]
      /\ pc[q] = "idle" /\ pc' = [pc EXCEPT ![q] = "check"] /\ "check" \in Steps
      /\ q \in gs.players /\ UNCHANGED <<decks, starts>>
    BY DEF HandTypeOK, TypeOK, WellFormed, StoreCommitment, Goto, OnlyGame, Steps
<1>2. gs' = [gs EXCEPT !.committed = @ \cup {q}]
    BY DEF StoreCommitment
<1>3. /\ gs'.phase = gs.phase /\ gs'.smallBlind = gs.smallBlind
      /\ gs'.bigBlind = gs.bigBlind /\ gs'.players = gs.players
      /\ gs'.currentTurn = gs.currentTurn /\ gs'.inHand = gs.inHand
      /\ gs'.hasActed = gs.hasActed /\ gs'.stack = gs.stack
      /\ gs'.smallBlindAmount = gs.smallBlindAmount
      /\ gs'.bigBlindAmount = gs.bigBlindAmount
    BY <1>1, <1>2 DEF GameStates
<1>4. /\ \A p \in Peer \ {q} : pc'[p] = pc[p]
      /\ pc'[q] = "check" /\ Late' = Late
    BY <1>1, LateMoves DEF Late, LateSteps
<1>5. LeftOver' = LeftOver
    BY <1>4, LeftOverStays
<1>6. HandIsOn' <=> HandIsOn
    BY <1>1, <1>3 DEF HandIsOn
<1>7. \A p \in Peer : IsHeld(p)' => HeldUp(p)'
    BY <1>1, <1>3, <1>4, <1>5, <1>6 DEF LateInv, HeldUp, IsHeld
<1>. QED BY <1>1, <1>3, <1>4, <1>6, <1>7 DEF LateInv

\* The phase is read in WaitingForPlayers only while the hand is not on, and then
\* every stack is whole and nobody has acted.
LEMMA ReadPhaseKeepsLateInv ==
    ASSUME HandTypeOK, LateInv, NEW q \in Peer, ReadPhase(q)
    PROVE  LateInv'
<1>. DEFINE ready == gs.phase = "WaitingForPlayers"
<1>1. /\ gs \in GameStates /\ pc \in [Peer -> Steps]
      /\ pc[q] = "check" /\ UNCHANGED <<gs, decks, starts>>
      /\ pc' = [pc EXCEPT ![q] = IF ready THEN "loop" ELSE "idle"]
      /\ q \in gs.players /\ gs.players \subseteq Peer
      /\ \A p \in Peer : gs.stack[p] \in Int
    BY DEF HandTypeOK, TypeOK, WellFormed, GameStates, ReadPhase, Goto, OnlyGame, LateInv
<1>2. HandIsOn' <=> HandIsOn
    BY <1>1 DEF HandIsOn
<1>3. CASE ready
    <2>1. /\ ~HandIsOn /\ starts # 0 /\ decks = 0
        BY <1>3 DEF LateInv, HandIsOn, HandTypeOK, TypeOK
    <2>2. (\A p \in Peer \ {q} : pc'[p] = pc[p]) /\ pc'[q] = "loop"
        BY <1>1, <1>3
    <2>3. (LeftOver <= StartStack)'
        BY LeftOverIsBounded, PTL
    <2>4. \A p \in Peer : IsHeld(p)' => HeldUp(p)'
        BY <1>1, <1>2, <2>1, <2>2, <2>3 DEF LateInv, HeldUp, IsHeld
    <2>. QED BY <1>1, <1>2, <2>1, <2>2, <2>4 DEF LateInv
<1>4. CASE ~ready
    <2>1. pc' = [pc EXCEPT ![q] = "idle"] /\ "idle" \in Steps
        BY <1>1, <1>4 DEF Steps
    <2>2. /\ \A p \in Peer \ {q} : pc'[p] = pc[p]
          /\ pc'[q] = "idle" /\ Late' = Late
        BY <1>1, <2>1, LateMoves DEF Late, LateSteps
    <2>3. LeftOver' = LeftOver
        BY <2>2, LeftOverStays
    <2>4. \A p \in Peer : IsHeld(p)' => HeldUp(p)'
        BY <1>1, <1>2, <2>2, <2>3 DEF LateInv, HeldUp, IsHeld
    <2>. QED BY <1>1, <1>2, <2>2, <2>4 DEF LateInv
<1>. QED BY <1>3, <1>4

\* Reading the commitments lets go of the handler or takes it a step on.
LEMMA ReadCommitmentsKeepsLateInv ==
    ASSUME HandTypeOK, LateInv, NEW q \in Peer, ReadCommitments(q)
    PROVE  LateInv'
<1>. DEFINE to == IF AllCommitted(gs) THEN "enter" ELSE "idle"
<1>1. /\ gs \in GameStates /\ pc \in [Peer -> Steps]
      /\ pc[q] = "loop" /\ UNCHANGED <<gs, decks, starts>>
      /\ pc' = [pc EXCEPT ![q] = to] /\ to \in {"enter", "idle"}
      /\ \A p \in Peer : gs.stack[p] \in Int
    BY DEF HandTypeOK, TypeOK, WellFormed, GameStates, ReadCommitments, Goto, OnlyGame
<1>. HIDE DEF to
<1>2. HandIsOn' <=> HandIsOn
    BY <1>1 DEF HandIsOn
<1>3. (\A p \in Peer \ {q} : pc'[p] = pc[p]) /\ pc'[q] = to
    BY <1>1
<1>4. LeftOver' <= LeftOver /\ LeftOver' \in Int /\ LeftOver \in Int
    <2>1. CASE to = "enter"
        <3>1. Late' = Late
            BY <1>1, <1>3, <2>1 DEF Late, LateSteps
        <3>. QED BY <3>1, LeftOverStays, LeftOverIsInt
    <2>2. CASE to = "idle"
        <3>1. q \in Late /\ pc' = [pc EXCEPT ![q] = "idle"]
            BY <1>1, <2>2 DEF Late, LateSteps
        <3>2. LeftOver' = LeftOver - Dearest
            BY <1>1, <3>1, LeftOverFalls
        <3>. QED BY <3>2, LeftOverIsInt, LateAreFew
    <2>. QED BY <1>1, <2>1, <2>2
<1>5. ASSUME NEW p \in Peer, IsHeld(p)' PROVE HeldUp(p)'
    <2>1. HeldUp(p)
        BY <1>1, <1>3, <1>5 DEF LateInv, IsHeld
    <2>2. gs'.stack[p] >= LeftOver'
        BY <1>1, <1>4, <2>1 DEF HeldUp
    <2>. QED BY <1>1, <1>2, <2>1, <2>2 DEF HeldUp
<1>. QED BY <1>1, <1>2, <1>3, <1>5 DEF LateInv

LEMMA SetPreFlopKeepsLateInv ==
    ASSUME HandTypeOK, LateInv, NEW q \in Peer, SetPreFlop(q)
    PROVE  LateInv'
<1>. DEFINE to == IF IsHost THEN "setup" ELSE "idle"
<1>1. /\ gs \in GameStates /\ pc \in [Peer -> Steps]
      /\ pc[q] = "enter" /\ pc' = [pc EXCEPT ![q] = to] /\ to \in Steps
      /\ UNCHANGED <<decks, starts>>
      /\ \A p \in Peer : gs.stack[p] \in Int
    BY DEF HandTypeOK, TypeOK, WellFormed, GameStates, SetPreFlop, Goto, OnlyGame, Steps
<1>2. gs' = EnterPreFlop(gs)
    BY DEF SetPreFlop
<1>3. /\ gs'.phase = "PreFlop" /\ gs'.smallBlind = gs.smallBlind
      /\ gs'.bigBlind = gs.bigBlind /\ gs'.players = gs.players
      /\ gs'.inHand = gs.inHand
      /\ gs'.hasActed = gs.hasActed /\ gs'.stack = gs.stack
      /\ gs'.smallBlindAmount = gs.smallBlindAmount
      /\ gs'.bigBlindAmount = gs.bigBlindAmount
    BY <1>1, <1>2 DEF EnterPreFlop, GameStates
<1>4. HeldUp(q) /\ HandIsOn'
    BY <1>1, <1>3 DEF LateInv, HeldUp, HandIsOn, IsHeld
<1>5. LeftOver' <= LeftOver /\ LeftOver' \in Int /\ LeftOver \in Int
    <2>1. CASE IsHost
        <3>1. Late' = Late
            BY <1>1, <2>1 DEF Late, LateSteps
        <3>. QED BY <3>1, LeftOverStays, LeftOverIsInt
    <2>2. CASE ~IsHost
        <3>1. q \in Late /\ pc' = [pc EXCEPT ![q] = "idle"]
            BY <1>1, <2>2 DEF Late, LateSteps
        <3>2. LeftOver' = LeftOver - Dearest
            BY <1>1, <3>1, LeftOverFalls
        <3>. QED BY <3>2, LeftOverIsInt, LateAreFew
    <2>. QED BY <2>1, <2>2
<1>6. (\A p \in Peer \ {q} : pc'[p] = pc[p]) /\ pc'[q] \in {"setup", "idle"}
    BY <1>1
<1>7. \A p \in Peer : IsHeld(p)' => HeldUp(p)'
    <2>1. SUFFICES ASSUME NEW p \in Peer, IsHeld(p)' PROVE HeldUp(p)'
        OBVIOUS
    <2>2. HeldUp(p)
        BY <1>6, <2>1 DEF LateInv, IsHeld
    <2>3. gs'.stack[p] >= LeftOver'
        BY <1>1, <1>3, <1>5, <2>2 DEF HeldUp
    <2>. QED BY <1>1, <1>3, <2>2, <2>3 DEF HeldUp
<1>. QED BY <1>1, <1>3, <1>4, <1>6, <1>7 DEF LateInv, HeldUp, IsHeld

LEMMA SetupKeepsLateInv ==
    ASSUME HandTypeOK, LateInv, NEW q \in Peer, CallSetupBlinds(q)
    PROVE  LateInv'
<1>1. /\ WellFormed(gs) /\ gs \in GameStates /\ pc \in [Peer -> Steps]
      /\ pc[q] = "setup" /\ pc' = [pc EXCEPT ![q] = "post"] /\ "post" \in Steps
      /\ UNCHANGED <<decks, starts>> /\ HandIsOn
    BY DEF HandTypeOK, TypeOK, WellFormed, CallSetupBlinds, Goto, OnlyGame, Steps, LateInv
<1>2. gs' = SetupBlinds(gs)
    BY DEF CallSetupBlinds
<1>3. /\ gs'.phase = gs.phase /\ gs'.players = gs.players
      /\ gs'.inHand = gs.inHand
      /\ gs'.hasActed = gs.hasActed /\ gs'.stack = gs.stack
      /\ gs'.smallBlindAmount = gs.smallBlindAmount
      /\ gs'.bigBlindAmount = gs.bigBlindAmount
    BY <1>1, <1>2 DEF SetupBlinds, GameStates
<1>4. gs'.smallBlind = gs'.bigBlind => gs'.smallBlind = NoPeer
    BY <1>1, <1>2, SetupBlindsApart DEF LateInv
<1>5. /\ \A p \in Peer \ {q} : pc'[p] = pc[p]
      /\ pc'[q] = "post" /\ Late' = Late
    BY <1>1, LateMoves DEF Late, LateSteps
<1>6. LeftOver' = LeftOver
    BY <1>5, LeftOverStays
<1>7. HandIsOn'
    BY <1>1, <1>3 DEF HandIsOn
<1>8. \A p \in Peer : IsHeld(p)' => HeldUp(p)'
    BY <1>1, <1>3, <1>5, <1>6, <1>7 DEF LateInv, HeldUp, IsHeld
<1>. QED BY <1>1, <1>3, <1>4, <1>5, <1>7, <1>8 DEF LateInv, HandIsOn

LEMMA PostKeepsLateInv ==
    ASSUME HandTypeOK, LateInv, NEW q \in Peer, CallPostBlinds(q)
    PROVE  LateInv'
<1>1. /\ WellFormed(gs) /\ gs \in GameStates /\ pc \in [Peer -> Steps]
      /\ pc[q] = "post" /\ pc' = [pc EXCEPT ![q] = "idle"] /\ "idle" \in Steps
      /\ UNCHANGED <<decks, starts>> /\ HandIsOn
    BY DEF HandTypeOK, TypeOK, WellFormed, CallPostBlinds, Goto, OnlyGame, Steps, LateInv
<1>2. gs' = PostBlinds(gs) /\ WellFormed(gs')
    BY <1>1, PostBlindsWellFormed DEF CallPostBlinds
<1>3. /\ gs'.phase = gs.phase /\ gs'.players = gs.players
      /\ gs'.smallBlind = gs.smallBlind /\ gs'.bigBlind = gs.bigBlind
      /\ gs'.inHand = gs.inHand /\ gs'.hasActed = gs.hasActed
      /\ gs'.smallBlindAmount = gs.smallBlindAmount
      /\ gs'.bigBlindAmount = gs.bigBlindAmount
    BY <1>1, <1>2 DEF PostBlinds, PostBlind, GameStates
<1>4. \A p \in Peer : /\ gs'.stack[p] >= gs.stack[p] - Dearest
                      /\ gs'.stack[p] \in Int /\ gs.stack[p] \in Int
    BY <1>1, <1>2, PostBlindsTakesOne, RosterAddsUp DEF LateInv
<1>5. q \in Late /\ LeftOver' = LeftOver - Dearest /\ LeftOver \in Int /\ Dearest \in Nat
    <2>1. q \in Late
        BY <1>1 DEF Late, LateSteps
    <2>. QED BY <1>1, <2>1, LeftOverFalls, LeftOverIsInt, LateAreFew
<1>6. (\A p \in Peer \ {q} : pc'[p] = pc[p]) /\ pc'[q] = "idle"
    BY <1>1
<1>7. HandIsOn'
    BY <1>1, <1>3 DEF HandIsOn
<1>8. \A p \in Peer : IsHeld(p)' => HeldUp(p)'
    <2>1. SUFFICES ASSUME NEW p \in Peer, IsHeld(p)' PROVE HeldUp(p)'
        OBVIOUS
    <2>2. HeldUp(p)
        BY <1>6, <2>1 DEF LateInv, IsHeld
    <2>3. gs'.stack[p] >= LeftOver'
        BY <1>4, <1>5, <2>2 DEF HeldUp
    <2>. QED BY <1>1, <1>3, <1>7, <2>2, <2>3 DEF HeldUp
<1>. QED BY <1>1, <1>3, <1>6, <1>7, <1>8 DEF LateInv, HandIsOn

LEMMA JoinKeepsLateInv ==
    ASSUME JoinInHand, HandTypeOK, LateInv, NEW q \in Peer, pc[q] = "idle",
           HandleJoin(q), UNCHANGED pc
    PROVE  LateInv'
<1>1. /\ gs \in GameStates /\ UNCHANGED <<decks, starts, pc>>
      /\ gs' = AddPlayer(gs, q, JoinInHand)
    BY DEF HandTypeOK, TypeOK, WellFormed, HandleJoin
<1>2. /\ gs'.phase = gs.phase /\ gs'.smallBlind = gs.smallBlind
      /\ gs'.bigBlind = gs.bigBlind /\ gs'.currentTurn = gs.currentTurn
      /\ gs'.players = gs.players \cup {q} /\ gs'.inHand = gs.inHand \cup {q}
      /\ gs'.hasActed = gs.hasActed \ {q}
      /\ gs'.smallBlindAmount = gs.smallBlindAmount
      /\ gs'.bigBlindAmount = gs.bigBlindAmount
      /\ gs'.stack = [gs.stack EXCEPT ![q] = StartStack]
      /\ gs.stack \in [Peer -> Int] /\ gs.players \subseteq Peer
    BY <1>1 DEF AddPlayer, GameStates
<1>3. Late' = Late
    BY <1>1 DEF Late, LateSteps
<1>4. LeftOver' = LeftOver
    BY <1>3, LeftOverStays
<1>5. HandIsOn' <=> HandIsOn
    BY <1>1, <1>2 DEF HandIsOn
<1>6. \A p \in Peer : IsHeld(p)' => HeldUp(p)'
    BY <1>1, <1>2, <1>4, <1>5 DEF LateInv, HeldUp, IsHeld
<1>7. ~HandIsOn' => \A p \in gs'.players : gs'.stack[p] = StartStack
    BY <1>2, <1>5 DEF LateInv
<1>. QED BY <1>1, <1>2, <1>5, <1>6, <1>7 DEF LateInv

LEMMA BetKeepsLateInv ==
    ASSUME StartStack > (Cardinality(Peer) - 1) * Dearest,
           HandTypeOK, LateInv, NEW q \in Peer, pc[q] = "idle",
           HandleBet(q), UNCHANGED pc
    PROVE  LateInv'
<1>1. WellFormed(gs) /\ UNCHANGED <<decks, starts, pc>>
    BY DEF HandTypeOK, TypeOK, HandleBet
<1>2. /\ gs.currentTurn = q
      /\ gs'.players = gs.players
      /\ gs'.smallBlind = gs.smallBlind /\ gs'.bigBlind = gs.bigBlind
      /\ gs'.smallBlindAmount = gs.smallBlindAmount
      /\ gs'.bigBlindAmount = gs.bigBlindAmount
      /\ gs'.phase \in {"WaitingForPlayers", "PreFlop"} => gs'.phase = gs.phase
    BY <1>1, BetLeavesHeldUp
<1>3. HandIsOn
    BY <1>2, PeerAssumption DEF LateInv
<1>4. HandIsOn'
    BY <1>1, <1>2, <1>3 DEF HandIsOn
<1>5. Late' = Late
    BY <1>1 DEF Late, LateSteps
<1>6. LeftOver' = LeftOver
    BY <1>5, LeftOverStays
<1>7. ASSUME NEW p \in Peer, IsHeld(p)' PROVE HeldUp(p)'
    <2>1. HeldUp(p) /\ p # q /\ IsHeld(p)
        BY <1>1, <1>7 DEF LateInv, IsHeld
    <2>2. LeftOver > 0 /\ LeftOver \in Int
        BY <2>1, SomethingIsLeft, LeftOverIsInt
    <2>3. gs.stack[p] \in Int
        BY <1>1, RosterAddsUp
    <2>4. p \in gs.inHand \ gs.hasActed /\ gs.stack[p] > 0
        BY <2>1, <2>2, <2>3 DEF HeldUp
    <2>5. /\ gs'.phase = gs.phase
          /\ p \in gs'.inHand \ gs'.hasActed
          /\ gs'.stack[p] = gs.stack[p]
        BY <1>1, <2>1, <2>4, BetLeavesHeldUp
    <2>. QED BY <1>1, <1>3, <1>6, <2>1, <2>5 DEF HeldUp
<1>. QED BY <1>1, <1>2, <1>3, <1>4, <1>7 DEF LateInv, HandIsOn

LEMMA DealKeepsLateInv ==
    ASSUME MaxStarts = 1, HandTypeOK, LateInv, StartShuffle \/ DealCards, UNCHANGED pc
    PROVE  LateInv'
<1>1. /\ gs \in GameStates /\ starts \in Nat /\ decks \in Nat
      /\ starts <= 1 /\ decks <= starts
      /\ starts = 0 => gs.phase = "Idle"
      /\ decks > 0 => gs.phase = "Shuffling"
    BY DEF HandTypeOK, TypeOK, WellFormed, LateInv
<1>2. ~HandIsOn /\ \A p \in Peer : ~IsHeld(p) /\ ~IsHeld(p)'
    <2>1. starts = 0 \/ decks > 0
        BY <1>1 DEF StartShuffle, DealCards
    <2>. QED BY <1>1, <2>1 DEF HandIsOn, LateInv, HeldUp, IsHeld
<1>3. /\ gs'.smallBlind = gs.smallBlind
      /\ gs'.bigBlind = gs.bigBlind /\ gs'.players = gs.players
      /\ gs'.currentTurn = gs.currentTurn /\ gs'.inHand = gs.inHand
      /\ gs'.hasActed = gs.hasActed /\ gs'.stack = gs.stack
      /\ gs'.smallBlindAmount = gs.smallBlindAmount
      /\ gs'.bigBlindAmount = gs.bigBlindAmount
    BY <1>1 DEF StartShuffle, DealCards, GameStates
<1>4. CASE StartShuffle
    <2>1. starts' = 1 /\ decks' = 1 /\ gs'.phase = "Shuffling" /\ ~HandIsOn'
        BY <1>1, <1>4 DEF StartShuffle, GameStates, HandIsOn
    <2>. QED BY <1>2, <1>3, <2>1 DEF LateInv
<1>5. CASE DealCards
    <2>1. starts' = 1 /\ decks' = 0 /\ gs'.phase = "WaitingForPlayers" /\ ~HandIsOn'
        BY <1>1, <1>5 DEF DealCards, GameStates, HandIsOn
    <2>. QED BY <1>2, <1>3, <2>1 DEF LateInv
<1>. QED BY <1>4, <1>5

\* In a table's one hand, a handler that found the hand ready may set the phase
\* at any later time without reopening a closed street, as long as a stack
\* outlasts the blinds every other handler may post once more: one chip less and
\* a player put all-in by repeated blinds lets PreFlop end without them.
THEOREM ClosedStreetsStayClosed ==
    ASSUME JoinInHand, MaxStarts = 1,
           StartStack > (Cardinality(Peer) - 1) * Dearest
    PROVE  HandSpec => ClosedStaysClosed
<1>1. HandInit => LateInv
    BY DEF HandInit, Init, NewGameState, LateInv, HandIsOn, IsHeld
<1>2. HandTypeOK /\ LateInv /\ [HandNext]_handVars => LateInv'
    <2>. SUFFICES ASSUME HandTypeOK, LateInv, [HandNext]_handVars PROVE LateInv'
        OBVIOUS
    <2>1. ASSUME NEW q \in Peer,
                 StoreCommitment(q) \/ ReadPhase(q) \/ ReadCommitments(q) \/ SetPreFlop(q)
                    \/ CallSetupBlinds(q) \/ CallPostBlinds(q)
          PROVE  LateInv'
        BY <2>1, StoreKeepsLateInv, ReadPhaseKeepsLateInv,
           ReadCommitmentsKeepsLateInv, SetPreFlopKeepsLateInv,
           SetupKeepsLateInv, PostKeepsLateInv
    <2>2. ASSUME NEW q \in Peer, OtherMessage(q) PROVE LateInv'
        BY <2>2, JoinKeepsLateInv, BetKeepsLateInv DEF OtherMessage
    <2>3. CASE (StartShuffle \/ DealCards) /\ UNCHANGED pc
        BY <2>3, DealKeepsLateInv
    <2>4. CASE UNCHANGED handVars
        BY <2>4 DEF handVars, LateInv, HandIsOn, HeldUp, LeftOver, Late,
                      LateSteps, IsHeld, Dearest, vars
    <2>. QED BY <2>1, <2>2, <2>3, <2>4 DEF HandNext
<1>3. ASSUME HandTypeOK, LateInv, HandNext, gs.phase \in Streets \ {"PreFlop"}
      PROVE  gs'.phase # "PreFlop"
    <2>0. WellFormed(gs) /\ gs \in GameStates
        BY <1>3 DEF HandTypeOK, TypeOK, WellFormed
    <2>1. ASSUME NEW q \in Peer PROVE ~SetPreFlop(q)
        <3>1. ~HandIsOn => gs.phase = "WaitingForPlayers" \/ starts = 0 \/ decks # 0
            BY DEF HandIsOn
        <3>2. pc[q] # "enter"
            BY <1>3, <3>1 DEF LateInv, HeldUp, IsHeld, Streets
        <3>. QED BY <3>2 DEF SetPreFlop, Goto
    <2>2. ASSUME NEW q \in Peer, StoreCommitment(q) \/ ReadPhase(q) \/ ReadCommitments(q)
                                    \/ CallSetupBlinds(q) \/ CallPostBlinds(q)
          PROVE  gs'.phase = gs.phase
        BY <2>0, <2>2 DEF StoreCommitment, ReadPhase, ReadCommitments, CallSetupBlinds, CallPostBlinds,
                          SetupBlinds, PostBlinds, PostBlind, GameStates
    <2>3. ASSUME NEW q \in Peer, OtherMessage(q) PROVE gs'.phase # "PreFlop"
        <3>1. HandleJoin(q) => gs'.phase = gs.phase
            BY <2>0 DEF HandleJoin, AddPlayer, GameStates
        <3>2. HandleBet(q) => (gs'.phase = "PreFlop" => gs'.phase = gs.phase)
            BY <2>0, BetLeavesHeldUp
        <3>. QED BY <1>3, <2>3, <3>1, <3>2 DEF OtherMessage
    <2>4. CASE StartShuffle \/ DealCards
        BY <2>0, <2>4 DEF StartShuffle, DealCards, GameStates
    <2>. QED BY <1>3, <2>1, <2>2, <2>3, <2>4 DEF HandNext
<1>4. HandTypeOK /\ LateInv /\ [HandNext]_handVars =>
         [gs.phase \in Streets \ {"PreFlop"} => gs'.phase # "PreFlop"]_handVars
    BY <1>3
<1>. QED BY <1>1, <1>2, <1>4, HandTypeCorrect, PTL DEF HandSpec, ClosedStaysClosed
=============================================================================
