-------------------------------- MODULE Table --------------------------------
(***************************************************************************)
(* One node's game state under the messages and commands that reach it:    *)
(* the dispatch of handleGameMessage, the handlers that change the betting *)
(* state, the host's `start` command and assignCards.  Every peer has a    *)
(* stream goroutine of its own, so handlers of different peers interleave; *)
(* GameState.mu serialises those that take it.                             *)
(*                                                                         *)
(* The node made the room, or it is a joiner, which a state update of the  *)
(* host may reach.                                                         *)
(*                                                                         *)
(* Three constants say how the node is wired.  The program as built has    *)
(* all three FALSE, and then hardly anything behind them can run; with     *)
(* TRUE the code behind the gap is checked as it would run once joined up. *)
(***************************************************************************)
EXTENDS GameState, Sequences

CONSTANTS
    MuReentrant,  \* ApplyAction may take mu.RLock under its own mu.Lock.
                  \* sync.RWMutex is not reentrant: FALSE.
    HostKnown,    \* gameState.HostID is the ID of the node that made the room.
                  \* No code assigns HostID: FALSE.
    JoinInHand,   \* a joining player's record has InHand set.  The handler
                  \* leaves it out: FALSE.
    Amounts,      \* amounts a bet message may carry
    Updates,      \* game states an update may carry: nothing in it is checked
    MaxJoins,     \* bound on the joins and state updates together
    MaxUpdates,   \* bounds on the state updates and the `start` commands
    MaxStarts

ASSUME WiringAssumption == {MuReentrant, HostKnown, JoinInHand} \subseteq BOOLEAN
ASSUME InputAssumption == /\ Amounts \subseteq Nat
                          /\ Updates \subseteq GameStates

VARIABLES
    gs,       \* p.gameState
    muOwner,  \* peer whose handler keeps gameState.mu for ever, or NoPeer
    alive,    \* FALSE after a panic
    host,     \* this node made the room
    copying,  \* how far handleStateUpdate is, or NoCopy
    decks,    \* decks sent into the ring that may still come back
    joins, starts, updates   \* spent bounds

vars == <<gs, muOwner, alive, host, copying, decks, joins, starts, updates>>

\* An update of which some fields have been written, and the records of players
\* but those in left; of player's record, that of Bet or those of Bet and Stack.
Copies == [update : Updates, fields : 0 .. Len(UpdatedFields), left : SUBSET Peer,
           player : Peer \cup {NoPeer}, written : 0 .. 2]

NoCopy == [fields |-> 0]

Init ==
    /\ gs = NewGameState
    /\ muOwner = NoPeer
    /\ alive = TRUE
    /\ host \in BOOLEAN
    /\ copying = NoCopy
    /\ decks = 0
    /\ joins = 0
    /\ starts = 0
    /\ updates = 0

\* The step needs gameState.mu, for reading or writing.
MuFree == muOwner = NoPeer

IsHost == host /\ HostKnown

-----------------------------------------------------------------------------

\* case MsgJoin.  A join blocked on mu has changed nothing.  An update that has
\* begun with the old record of p writes the rest of it to that record.
HandleJoin(p) ==
    /\ alive /\ MuFree
    /\ joins + updates < MaxJoins
    /\ joins' = joins + 1
    /\ gs' = AddPlayer(gs, p, JoinInHand)
    /\ copying' = IF copying # NoCopy /\ copying.player = p
                  THEN [copying EXCEPT !.player = NoPeer]
                  ELSE copying
    /\ UNCHANGED <<muOwner, alive, host, decks, starts, updates>>

\* The tail of ApplyAction, once the switch turned gs into `acted`: AdvanceTurn
\* asks for mu.RLock under mu.Lock.
Conclude(p, acted) ==
    IF MuReentrant
    THEN gs' = EndTurn(MarkActed(acted, p)) /\ UNCHANGED muOwner
    ELSE gs' = MarkActed(acted, p) /\ muOwner' = p

FoldAction(p) == MayAct(gs, p, TRUE) /\ Conclude(p, Fold(gs, p))

CheckAction(p) == MayAct(gs, p, FALSE) /\ MayCheck(gs, p) /\ Conclude(p, gs)

CallAction(p) == MayAct(gs, p, FALSE) /\ Conclude(p, Call(gs, p))

BetAction(p, amount) ==
    /\ MayAct(gs, p, FALSE)
    /\ MayBet(gs, p, amount)
    /\ Conclude(p, Bet(gs, p, amount))

\* case "bet" when ApplyAction accepts; when it returns an error nothing
\* changes.  No condition on the phase, nor on p being in the hand.
HandleBet(p) ==
    /\ alive /\ MuFree
    /\ \/ FoldAction(p)
       \/ CheckAction(p)
       \/ CallAction(p)
       \/ \E amount \in Amounts : BetAction(p, amount)
    /\ UNCHANGED <<alive, host, copying, decks, joins, starts, updates>>

\* What checkAndStartPreFlop makes of a state: the phase is set without mu;
\* the host then needs mu for the blinds, and blocks when it is taken.
StartPreFlop(state) ==
    IF state.phase # "WaitingForPlayers" \/ ~AllCommitted(state) THEN state
    ELSE IF IsHost /\ MuFree
         THEN PostBlinds(SetupBlinds(EnterPreFlop(state)))
         ELSE EnterPreFlop(state)

\* handleHandCommitment reads the roster without mu.
HandleHandCommitment(p) ==
    /\ alive
    /\ p \in gs.players
    /\ gs' = StartPreFlop([gs EXCEPT !.committed = @ \cup {p}])
    /\ UNCHANGED <<muOwner, alive, host, copying, decks, joins, starts, updates>>

\* handleStateUpdate takes no lock: other handlers run between its assignments.
\* Joiners are who the host's updates are for; the code does not look who sent it.
HandleStateUpdate(u) ==
    /\ alive /\ ~host /\ copying = NoCopy
    /\ updates < MaxUpdates /\ joins + updates < MaxJoins
    /\ updates' = updates + 1
    /\ copying' = [update |-> u, fields |-> 0, left |-> u.players,
                   player |-> NoPeer, written |-> 0]
    /\ UNCHANGED <<gs, muOwner, alive, host, decks, joins, starts>>

\* The next field of the game state.
UpdateField ==
    /\ alive /\ copying # NoCopy /\ copying.fields < Len(UpdatedFields)
    /\ gs' = CopyField(gs, copying.update, UpdatedFields[copying.fields + 1])
    /\ copying' = [copying EXCEPT !.fields = @ + 1]
    /\ UNCHANGED <<muOwner, alive, host, decks, joins, starts, updates>>

UpdatesPlayers == alive /\ copying # NoCopy /\ copying.fields = Len(UpdatedFields)

\* Players come in the order of a Go map, which is any; those this node does not
\* know are passed over.
UpdatePlayer(p) ==
    /\ UpdatesPlayers /\ copying.player = NoPeer /\ p \in copying.left
    /\ gs' = IF p \in gs.players THEN [gs EXCEPT !.bet[p] = copying.update.bet[p]] ELSE gs
    /\ copying' = [copying EXCEPT !.left = @ \ {p},
                                  !.player = IF p \in gs.players THEN p ELSE NoPeer,
                                  !.written = 1]
    /\ UNCHANGED <<muOwner, alive, host, decks, joins, starts, updates>>

UpdateStack(p) ==
    /\ UpdatesPlayers /\ copying.player = p /\ copying.written = 1
    /\ gs' = [gs EXCEPT !.stack[p] = copying.update.stack[p]]
    /\ copying' = [copying EXCEPT !.written = 2]
    /\ UNCHANGED <<muOwner, alive, host, decks, joins, starts, updates>>

UpdateInHand(p) ==
    /\ UpdatesPlayers /\ copying.player = p /\ copying.written = 2
    /\ gs' = CopyInHand(gs, copying.update, p)
    /\ copying' = [copying EXCEPT !.player = NoPeer, !.written = 0]
    /\ UNCHANGED <<muOwner, alive, host, decks, joins, starts, updates>>

EndUpdate ==
    /\ UpdatesPlayers /\ copying.player = NoPeer /\ copying.left = {}
    /\ alive' = ~UpdatePanics(gs, copying.update)
    /\ copying' = NoCopy
    /\ UNCHANGED <<gs, muOwner, host, decks, joins, starts, updates>>

\* One assignment of an update.
CopyNext ==
    \/ UpdateField
    \/ \E p \in Peer : UpdatePlayer(p) \/ UpdateStack(p) \/ UpdateInHand(p)
    \/ EndUpdate

\* The host's `start` command, in whatever phase the game is.
StartShuffle ==
    /\ alive /\ host /\ MuFree
    /\ starts < MaxStarts
    /\ starts' = starts + 1
    /\ decks' = decks + 1
    /\ gs' = [gs EXCEPT !.phase = "Shuffling"]
    /\ UNCHANGED <<muOwner, alive, host, copying, joins, updates>>

\* The end of handleShuffleRound on the host: assignCards.  What the ring did
\* with the deck in between is ShuffleRing's subject.
DealCards ==
    /\ alive /\ MuFree
    /\ IsHost
    /\ decks > 0
    /\ decks' = decks - 1
    /\ gs' = [gs EXCEPT !.phase = "WaitingForPlayers"]
    /\ UNCHANGED <<muOwner, alive, host, copying, joins, starts, updates>>

Next ==
    \/ \E p \in Peer : HandleJoin(p) \/ HandleBet(p) \/ HandleHandCommitment(p)
    \/ \E u \in Updates : HandleStateUpdate(u)
    \/ CopyNext
    \/ StartShuffle
    \/ DealCards

Spec == Init /\ [][Next]_vars

\* The players at the table keep acting.  The code has no clock on a turn, so
\* this is the users' part, not the program's.
FairSpec == Spec /\ WF_vars(\E p \in Peer : HandleBet(p))

-----------------------------------------------------------------------------
(* Safety. *)

\* The state has its types, and what is said of a player is said of one on the
\* roster, however an update, of whatever contents, is cut in pieces by bets and
\* joins.  Until an update has come no call, bet, blind or refund takes a stack
\* or a bet below zero.
TypeOK ==
    /\ WellFormed(gs)
    /\ updates = 0 => Solvent(gs) /\ copying = NoCopy
    /\ muOwner \in Peer \cup {NoPeer}
    /\ {alive, host} \subseteq BOOLEAN
    /\ \/ copying = NoCopy
       \/ copying \in Copies /\ copying.player \in gs.players \cup {NoPeer}
    /\ {decks, joins, starts, updates} \subseteq Nat

\* Until an update overwrites it the pot holds at least the bets of the round, so
\* that a call that refunds (the current bet below one's own) is paid from chips
\* that are there.
PotCoversBets ==
    updates = 0 => gs.pot >= SumFunctionOnSet(gs.bet, gs.players)

\* An action that stops inside ApplyAction leaves it half applied: its player
\* is marked as having acted, and no state update or commitment afterwards ends
\* the round and clears the mark.
HalfApplied == muOwner # NoPeer => muOwner \in gs.hasActed

\* On a joiner, and as built on every node, chips move only once a state update
\* has come: before, no hand this node counts or deals ever gives anybody the turn.
IdleUntilUpdated ==
    ~IsHost /\ updates = 0 => gs.pot = 0 /\ gs.currentTurn = NoPeer

-----------------------------------------------------------------------------
(* What a step may never do. *)

\* Chips enter or leave the table only with a join (a fresh stack) or an
\* assignment of a state update: blinds, bets, calls, refunds and new streets only
\* move them, also while an update is half copied.
ChipsOnlyMove ==
    [][TotalChips(gs') # TotalChips(gs) =>
          (\E p \in Peer : HandleJoin(p)) \/ CopyNext]_vars

\* When a bet, call, check or fold closes the round, every two players still in
\* the hand with chips behind have paid the same into it, this action included.
StreetEndsEven ==
    [][(\E p \in Peer : HandleBet(p)) /\ gs'.phase # gs.phase =>
          \A p, q \in {r \in gs'.inHand : gs'.stack[r] > 0} :
             gs.bet[p] + Paid(gs, gs', p) = gs.bet[q] + Paid(gs, gs', q)]_vars

-----------------------------------------------------------------------------
(* Liveness. *)

\* While the players act, a betting round somebody has the turn in ends: in the
\* next street, or with nobody left in the hand.  A second deal may overlap
\* it: turn and HasActed of before are left, and betting can go on for ever.
\* Of a joiner's table after an update nothing is said: the commitments the
\* update relies on may not have come.
RoundEnds ==
    \A street \in Streets :
        (gs.phase = street /\ gs.currentTurn \in gs.inHand)
            ~> (gs.phase # street \/ gs.inHand = {} \/ starts > 1 \/ updates > 0)
=============================================================================
