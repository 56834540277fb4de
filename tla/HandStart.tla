------------------------------ MODULE HandStart ------------------------------
(***************************************************************************)
(* Table with the start of a hand taken apart.  handleHandCommitment and   *)
(* checkAndStartPreFlop hold no lock from the first read to the last       *)
(* write; only SetupBlinds and PostBlinds take gameState.mu, one after the *)
(* other.  Commitments of different players arrive on different streams,   *)
(* so their handlers interleave with each other and with joins and bets.   *)
(* State updates are left to Table.                                        *)
(***************************************************************************)
EXTENDS Table

VARIABLE pc   \* where the handler of each peer's stream is

handVars == <<vars, pc>>

\* "check": the commitment is stored; "loop": the phase has been read and was
\* WaitingForPlayers; "enter": so have been the commitments, and none was missing;
\* "setup", "post": the phase is set, SetupBlinds, PostBlinds are to be called.
Steps == {"idle", "check", "loop", "enter", "setup", "post"}

HandInit == Init /\ pc = [p \in Peer |-> "idle"]

Goto(p, from, to) == pc[p] = from /\ pc' = [pc EXCEPT ![p] = to]

\* What these steps leave alone.
OnlyGame == UNCHANGED <<muOwner, alive, host, copying, decks, joins, starts, updates>>

StoreCommitment(p) ==
    /\ alive /\ p \in gs.players
    /\ Goto(p, "idle", "check")
    /\ gs' = [gs EXCEPT !.committed = @ \cup {p}]
    /\ OnlyGame

ReadPhase(p) ==
    /\ alive
    /\ Goto(p, "check", IF gs.phase = "WaitingForPlayers" THEN "loop" ELSE "idle")
    /\ UNCHANGED gs /\ OnlyGame

\* The loop over the players; it can be one step: commitments only come, but for a
\* player who joins again.
ReadCommitments(p) ==
    /\ alive
    /\ Goto(p, "loop", IF AllCommitted(gs) THEN "enter" ELSE "idle")
    /\ UNCHANGED gs /\ OnlyGame

\* The phase is set on the strength of what was read.
SetPreFlop(p) ==
    /\ alive
    /\ Goto(p, "enter", IF IsHost THEN "setup" ELSE "idle")
    /\ gs' = EnterPreFlop(gs)
    /\ OnlyGame

CallSetupBlinds(p) ==
    /\ alive /\ MuFree
    /\ Goto(p, "setup", "post")
    /\ gs' = SetupBlinds(gs)
    /\ OnlyGame

CallPostBlinds(p) ==
    /\ alive /\ MuFree
    /\ Goto(p, "post", "idle")
    /\ gs' = PostBlinds(gs)
    /\ OnlyGame

\* Mutant: a peer's next message need not wait for the handler of the last.
MessageOutOfStep(p) == (HandleJoin(p) \/ HandleBet(p)) /\ UNCHANGED pc

\* Messages of one stream are handled one at a time.
OtherMessage(p) == pc[p] = "idle" /\ (HandleJoin(p) \/ HandleBet(p)) /\ UNCHANGED pc

HandNext ==
    \/ \E p \in Peer : \/ StoreCommitment(p) \/ ReadPhase(p) \/ ReadCommitments(p) \/ SetPreFlop(p)
                       \/ CallSetupBlinds(p) \/ CallPostBlinds(p)
                       \/ OtherMessage(p)
    \/ (StartShuffle \/ DealCards) /\ UNCHANGED pc

HandSpec == HandInit /\ [][HandNext]_handVars

-----------------------------------------------------------------------------
(* Properties.  ChipsOnlyMove, PotCoversBets and StreetEndsEven of Table are   *)
(* checked of these finer steps too.                                         *)

\* The handlers keep their types, and the game state stays well formed.
HandTypeOK == TypeOK /\ pc \in [Peer -> Steps]

\* A handler that found the hand ready may set the phase long after others
\* have posted the blinds, yet it never reopens a street that betting has
\* closed: its own player cannot have acted while it is held up, so that
\* PreFlop is still on, unless the blinds took that player's last chip.
ClosedStaysClosed ==
    [][gs.phase \in Streets \ {"PreFlop"} => gs'.phase # "PreFlop"]_handVars
=============================================================================
