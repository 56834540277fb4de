----------------------------- MODULE CardOpening -----------------------------
(***************************************************************************)
(* What the key exchange promises, without messages, locks or handlers: a  *)
(* card of a deal is opened to its owner only after every other player has *)
(* released a key for that very card of that very deal ("N-1 Key           *)
(* Protocol", ARCHITECTURE.md).  KeyExchange implements this.              *)
(***************************************************************************)
CONSTANTS Player,     \* who shares the secrets of a deck
          Card,       \* cards of one deal
          Deal,       \* deals
          OwnerOf     \* OwnerOf[c]: the player card c is assigned to

VARIABLES released,   \* <<q, c, d>>: q has given away its key for c of deal d
          open        \* <<c, d>>: the owner of c has read it

Init == released = {} /\ open = {}

Release(q, c, d) ==
    /\ q # OwnerOf[c]
    /\ released' = released \cup {<<q, c, d>>}
    /\ UNCHANGED open

Open(c, d) ==
    /\ \A q \in Player \ {OwnerOf[c]} : <<q, c, d>> \in released
    /\ open' = open \cup {<<c, d>>}
    /\ UNCHANGED released

Next == \E c \in Card, d \in Deal :
            Open(c, d) \/ \E q \in Player : Release(q, c, d)

Spec == Init /\ [][Next]_<<released, open>>
=============================================================================
