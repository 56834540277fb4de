------------------------------ MODULE PotPayout ------------------------------
(***************************************************************************)
(* What the end of a hand promises about chips, without cards, reveals or  *)
(* streets: chips go between the pot and a player of the hand, a player    *)
(* gives the hand up, or one who has played it receives the whole pot.     *)
(* Showdown implements this until two judgements, or a judgement and a     *)
(* bet, meet at the pot.                                                   *)
(***************************************************************************)
EXTENDS Integers

CONSTANTS
    Player,   \* who begins the hand
    Stack,    \* what each of them has
    Pot       \* what they have paid by then

VARIABLES inHand, stack, pot

Init ==
    /\ inHand = Player /\ stack = Stack
    /\ pot = Pot

\* A bet, or the refund of one.
Pay(p) ==
    /\ pot' \in Int
    /\ stack' = [stack EXCEPT ![p] = @ + pot - pot']
    /\ UNCHANGED inHand

GiveUp(p) ==
    /\ inHand' = inHand \ {p}
    /\ UNCHANGED <<stack, pot>>

Win(p) ==
    /\ stack' = [stack EXCEPT ![p] = @ + pot]
    /\ pot' = 0
    /\ UNCHANGED inHand

Next ==
    \/ \E p \in inHand : Pay(p) \/ GiveUp(p)
    \/ \E p \in Player : Win(p)

Spec == Init /\ [][Next]_<<inHand, stack, pot>>
=============================================================================
