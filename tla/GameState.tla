------------------------------ MODULE GameState ------------------------------
(***************************************************************************)
(* The betting state of pkg/game/state.go as a value, and its methods as   *)
(* operators from one such value to the next.  Nothing here is a state     *)
(* machine: Table.tla says which message or command calls which method,    *)
(* and under which lock.  An operator whose comment starts with "Mutant"   *)
(* is a faulty variant of the definition after it; no definition uses it.  *)
(*                                                                         *)
(* A Player record of the Go map becomes one entry in each of the          *)
(* functions and sets below; `players` is the domain of the map.  Names,   *)
(* cards and deck indices are left out: no method branches on them.        *)
(***************************************************************************)
EXTENDS Integers, FiniteSets, FiniteSetsExt

CONSTANTS
    Peer,               \* peer IDs; their order is that of their strings
    StartStack,         \* chips of a player who joins
    SmallBlindAmount,   \* the blinds of a new game state
    BigBlindAmount

\* The empty peer.ID "".
NoPeer == 0

ASSUME PeerAssumption == Peer \subseteq Nat \ {NoPeer} /\ IsFiniteSet(Peer)
ASSUME ChipsAssumption == /\ StartStack \in Nat
                          /\ SmallBlindAmount \in Nat
                          /\ BigBlindAmount \in Nat

\* GamePhase is an int: "Other" is any value that names no phase.
Phases == {"Idle", "Shuffling", "WaitingForPlayers", "PreFlop", "Flop",
           "Turn", "River", "Showdown", "Other"}

\* The phases in which a betting round is played, each with its successor.
NextStreet == [PreFlop |-> "Flop", Flop |-> "Turn",
               Turn |-> "River", River |-> "Showdown"]
Streets == {"PreFlop", "Flop", "Turn", "River"}

GameStates ==
    [players : SUBSET Peer, stack : [Peer -> Int], bet : [Peer -> Int],
     inHand : SUBSET Peer, hasActed : SUBSET Peer, committed : SUBSET Peer,
     phase : Phases, pot : Int, currentBet : Int,
     currentTurn : Peer \cup {NoPeer}, lastRaiser : Peer \cup {NoPeer},
     dealer : Peer \cup {NoPeer}, smallBlind : Peer \cup {NoPeer},
     bigBlind : Peer \cup {NoPeer},
     smallBlindAmount : Int, bigBlindAmount : Int]

\* A well-formed state: what it says of players, it says of its roster's.
WellFormed(gs) ==
    /\ gs \in GameStates
    /\ gs.inHand \cup gs.hasActed \cup gs.committed \subseteq gs.players

\* No stack, bet or blind is below zero.
Solvent(gs) ==
    /\ \A p \in Peer : gs.stack[p] >= 0 /\ gs.bet[p] >= 0
    /\ gs.currentBet >= 0 /\ gs.smallBlindAmount >= 0 /\ gs.bigBlindAmount >= 0

NewGameState ==
    [players |-> {}, stack |-> [p \in Peer |-> 0], bet |-> [p \in Peer |-> 0],
     inHand |-> {}, hasActed |-> {}, committed |-> {},
     phase |-> "Idle", pot |-> 0, currentBet |-> 0,
     currentTurn |-> NoPeer, lastRaiser |-> NoPeer,
     dealer |-> NoPeer, smallBlind |-> NoPeer, bigBlind |-> NoPeer,
     smallBlindAmount |-> SmallBlindAmount, bigBlindAmount |-> BigBlindAmount]

Lesser(a, b) == IF a <= b THEN a ELSE b

-----------------------------------------------------------------------------
(* The roster and the turn. *)

\* The record of p is replaced, whatever it held: a second join starts over.
AddPlayer(gs, p, inHand) ==
    [gs EXCEPT !.players = @ \cup {p},
               !.stack[p] = StartStack,
               !.bet[p] = 0,
               !.inHand = IF inHand THEN @ \cup {p} ELSE @ \ {p},
               !.hasActed = @ \ {p},
               !.committed = @ \ {p}]

\* Walking the sorted roster from the place after p and wrapping round, the
\* first member of S; p itself comes last.
NextAround(S, p) ==
    LET after == {q \in S : q > p}
    IN  IF after # {} THEN Min(after) ELSE Min(S)

\* A turn holder who is not on the roster keeps the turn for ever.
AdvanceTurn(gs) ==
    IF gs.currentTurn \notin gs.players THEN gs
    ELSE [gs EXCEPT !.currentTurn =
             IF gs.inHand = {} THEN NoPeer ELSE NextAround(gs.inHand, @)]

-----------------------------------------------------------------------------
(* Blinds. *)

SetupBlinds(gs) ==
    LET dealer == IF gs.dealer \in gs.players THEN gs.dealer
                                              ELSE Min(gs.players)
        small  == NextAround(gs.players, dealer)
    IN  IF Cardinality(gs.players) < 2 THEN gs
        ELSE [gs EXCEPT !.dealer = dealer,
                        !.smallBlind = small,
                        !.bigBlind = NextAround(gs.players, small)]

\* Mutant: the pot is credited with the blind that was due, not with the chips
\* that were there.
PostBlindInFull(gs, p, due) ==
    LET paid == Lesser(due, gs.stack[p])
    IN  [gs EXCEPT !.stack[p] = @ - paid, !.bet[p] = paid, !.pot = @ + due]

\* A blind is capped at the stack, and replaces what p had bet before.
PostBlind(gs, p, due) ==
    LET paid == Lesser(due, gs.stack[p])
    IN  [gs EXCEPT !.stack[p] = @ - paid, !.bet[p] = paid, !.pot = @ + paid]

BlindsKnown(gs) == gs.smallBlind \in gs.players /\ gs.bigBlind \in gs.players

\* The method returns an error, and changes nothing, unless BlindsKnown.
PostBlinds(gs) ==
    LET small == PostBlind(gs, gs.smallBlind, gs.smallBlindAmount)
        both  == PostBlind(small, gs.bigBlind, gs.bigBlindAmount)
    IN  IF ~BlindsKnown(gs) THEN gs
        ELSE [both EXCEPT !.currentBet = both.bet[gs.bigBlind],
                          !.currentTurn = NextAround(gs.players, gs.bigBlind)]

-----------------------------------------------------------------------------
(* ApplyAction, in the order of its steps. *)

\* Mutant: no turn order.
MayActOutOfTurn(gs, p, isFold) ==
    /\ gs.phase = "PreFlop" /\ ~isFold => p \in gs.committed
    /\ p \in gs.players

\* The checks every action passes first.  A fold is exempt from the first.
MayAct(gs, p, isFold) ==
    /\ gs.phase = "PreFlop" /\ ~isFold => p \in gs.committed
    /\ gs.currentTurn = p
    /\ p \in gs.players

Fold(gs, p) == [gs EXCEPT !.inHand = @ \ {p}]

MayCheck(gs, p) == gs.currentBet <= gs.bet[p]

\* Mutant: the pot is forgotten.
PayNobody(gs, p, chips) ==
    [gs EXCEPT !.stack[p] = @ - chips, !.bet[p] = @ + chips]

\* p moves chips (a refund when negative) from the stack to the pot.
Pay(gs, p, chips) ==
    [gs EXCEPT !.stack[p] = @ - chips, !.bet[p] = @ + chips, !.pot = @ + chips]

\* Mutant: no all-in.
CallInFull(gs, p) == Pay(gs, p, gs.currentBet - gs.bet[p])

Call(gs, p) == Pay(gs, p, Lesser(gs.currentBet - gs.bet[p], gs.stack[p]))

MayBet(gs, p, amount) ==
    /\ amount > 0
    /\ amount - gs.bet[p] <= gs.stack[p]
    /\ amount >= gs.currentBet

\* Mutant: the pot is credited with the total bet, not with what it adds.
BetAddsTotal(gs, p, amount) ==
    [gs EXCEPT !.stack[p] = @ - (amount - gs.bet[p]), !.bet[p] = amount,
               !.pot = @ + amount, !.currentBet = amount, !.lastRaiser = p]

\* "bet" and "raise" are one case of the switch; amount is the total bet.
Bet(gs, p, amount) ==
    [Pay(gs, p, amount - gs.bet[p])
        EXCEPT !.currentBet = amount, !.lastRaiser = p]

MarkActed(gs, p) == [gs EXCEPT !.hasActed = @ \cup {p}]

\* Mutant: acting is enough, whatever the bets.
EveryoneActed(gs) ==
    \A p \in gs.inHand : gs.stack[p] > 0 => p \in gs.hasActed

\* Mutant: an all-in player has to match the bet too.
EveryoneMatched(gs) ==
    \A p \in gs.inHand : p \in gs.hasActed /\ gs.bet[p] = gs.currentBet

IsRoundComplete(gs) ==
    \A p \in gs.inHand :
        gs.stack[p] > 0 => p \in gs.hasActed /\ gs.bet[p] = gs.currentBet

\* The turn is left where it is.
NextPhase(gs) ==
    [gs EXCEPT !.bet = [p \in Peer |-> 0],
               !.hasActed = {},
               !.currentBet = 0,
               !.lastRaiser = NoPeer,
               !.phase = IF @ \in Streets THEN NextStreet[@] ELSE @]

\* The tail of an accepted action, once the player is marked.
EndTurn(gs) ==
    LET advanced == AdvanceTurn(gs)
    IN  IF IsRoundComplete(advanced) THEN NextPhase(advanced) ELSE advanced

-----------------------------------------------------------------------------
(* The start of a hand and the state update of cmd/poker/main.go. *)

\* Players without InHand are not waited for.
AllCommitted(gs) == gs.inHand \subseteq gs.committed

EnterPreFlop(gs) == [gs EXCEPT !.phase = "PreFlop"]

\* The assignments of handleStateUpdate, in their order: first the fields of the
\* game state, then of each player's record Bet, Stack and InHand.  HasActed,
\* LastRaiser, Dealer and Commitment are not copied.  "blinds" is four fields, the
\* two players and the two amounts: only a host reads them elsewhere.
UpdatedFields == <<"phase", "pot", "currentBet", "currentTurn", "blinds">>

CopyField(gs, u, field) ==
    CASE field = "phase" -> [gs EXCEPT !.phase = u.phase]
      [] field = "pot" -> [gs EXCEPT !.pot = u.pot]
      [] field = "currentBet" -> [gs EXCEPT !.currentBet = u.currentBet]
      [] field = "currentTurn" -> [gs EXCEPT !.currentTurn = u.currentTurn]
      [] field = "blinds" -> [gs EXCEPT !.smallBlind = u.smallBlind,
                                        !.bigBlind = u.bigBlind,
                                        !.smallBlindAmount = u.smallBlindAmount,
                                        !.bigBlindAmount = u.bigBlindAmount]

CopyInHand(gs, u, p) ==
    [gs EXCEPT !.inHand = IF p \in u.inHand THEN @ \cup {p} ELSE @ \ {p}]

\* The handler then reads the names of both blinds through the local roster.
UpdatePanics(gs, u) == u.phase = "PreFlop" /\ gs.pot > 0 /\ ~BlindsKnown(gs)

-----------------------------------------------------------------------------
(* What the properties measure. *)

TotalChips(gs) == gs.pot + SumFunctionOnSet(gs.stack, gs.players)

\* What a step from gs to next took from p.
Paid(gs, next, p) == gs.stack[p] - next.stack[p]
=============================================================================
