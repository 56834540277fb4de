----------------------------- MODULE LapShuffle -----------------------------
(***************************************************************************)
(* What the distributed shuffle promises, without decks, messages or       *)
(* counters: the global step that the comments of HandleShuffleMessage     *)
(* (shuffle.go) ask for.  The players work on one deck in laps, nobody     *)
(* begins a lap before everybody has finished the last, and the deck is    *)
(* dealt after the last lap.  ShuffleRing implements this with a counter   *)
(* at each peer.                                                           *)
(***************************************************************************)
EXTENDS Naturals

CONSTANTS Player,   \* who shuffles
          Dealer,   \* the player who begins each lap and deals
          Laps      \* laps before the deck is dealt

VARIABLES lap,      \* the lap the table is in; 0 before a deck is out
          finished, \* players who are through with it
          dealt     \* the deck has been dealt

Init == lap = 0 /\ finished = Player /\ dealt = FALSE

\* The dealer begins a lap, and deals when all laps are done.
BeginLap ==
    /\ finished = Player /\ lap <= Laps
    /\ lap' = lap + 1
    /\ finished' = {Dealer}
    /\ dealt' = (lap = Laps)

\* Another player takes its turn.
TakeTurn(p) ==
    /\ p \notin finished /\ lap <= Laps
    /\ finished' = finished \cup {p}
    /\ UNCHANGED <<lap, dealt>>

Next == BeginLap \/ \E p \in Player : TakeTurn(p)

Spec == Init /\ [][Next]_<<lap, finished, dealt>>
=============================================================================
