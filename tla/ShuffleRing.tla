----------------------------- MODULE ShuffleRing -----------------------------
(***************************************************************************)
(* The distributed shuffle of pkg/game/shuffle.go as cmd/poker/main.go     *)
(* drives it: the host's `start` command puts a deck into the ring, and    *)
(* every peer that receives it toggles its own XOR layer, shuffles while   *)
(* its local counter says "encrypt", and passes it on.                     *)
(*                                                                         *)
(* A deck is abstracted to the set of cipher layers it still carries (XOR  *)
(* with the same key stream twice is no XOR), and to two facts about its   *)
(* past: somebody has begun to decrypt it, and somebody has shuffled it    *)
(* after that.  Peers are numbered along the ring from the host, which is  *)
(* sound because GetNextPeer only depends on the cyclic order of the IDs.  *)
(***************************************************************************)
EXTENDS Integers, FiniteSets, FiniteSetsExt

CONSTANTS
    N,          \* number of peers, the host included
    Roster,     \* Roster[p]: the Participants of p's shuffle state, from p's
                \* own Players map.  As built the host's holds the joiners
                \* only, and a joiner's is empty.
    Link,       \* <<p, q>>: p has a stream to q.  joinRoom connects joiners
                \* to the host and to nobody else.
    HostKnown,  \* the host's gameState.HostID is its own ID; as built FALSE
    MayQuit,    \* peers that may leave for good
    MaxInits,   \* bounds: shuffle_init messages per joiner (no code in the
    MaxStarts,  \* repository sends one), `start` commands,
    MaxStep     \* and the number of times a peer touches a deck

Peer == 0 .. N - 1
Host == 0
Joiners == Peer \ {Host}

ASSUME NAssumption == N \in Nat /\ N >= 2
ASSUME RosterAssumption == Roster \in [Peer -> SUBSET Peer]
ASSUME LinkAssumption == Link \subseteq Peer \X Peer /\ MayQuit \subseteq Peer
ASSUME HostKnownAssumption == HostKnown \in BOOLEAN
ASSUME BoundAssumption == MaxInits \in Nat /\ MaxStarts \in Nat /\ MaxStep \in Nat

VARIABLES
    ready,   \* peers whose shuffleState is not nil
    step,    \* CurrentStep of each shuffle state
    decks,   \* decks on the wire
    dealt,   \* decks the host found complete and assigned cards from
    down,    \* peers that panicked or left
    starts, inits   \* spent bounds

vars == <<ready, step, decks, dealt, down, starts, inits>>

\* The secrets ciphers are made from: a joiner's shuffle state, the host's, and
\* the host's own myCipher.  An operator whose comment starts with "Mutant" is a
\* faulty variant of the definition after it; no definition uses it.
Layers == {"some_secret", "host_secret", "my_cipher"}
SecretOf(p) == IF p = Host THEN "host_secret" ELSE "some_secret"

Decks == [id : Nat, at : Peer, layers : SUBSET Layers,
          opened : BOOLEAN, spoiled : BOOLEAN]

\* The phase of a shuffle state whose counter stands at `touches`.
PhaseAfter(p, touches) ==
    LET n == Cardinality(Roster[p])
    IN  IF touches <= n THEN "encrypt"
        ELSE IF touches <= 2 * n THEN "decrypt" ELSE "done"

\* XOR with the key stream of one secret.
XOR(layers, secret) ==
    IF secret \in layers THEN layers \ {secret} ELSE layers \cup {secret}

\* Mutant: the last participant has no successor.
GetNextPeerInLine(p) ==
    LET after == {q \in Roster[p] : q > p}
    IN  IF after = {} \/ p \notin Roster[p] THEN {} ELSE {Min(after)}

\* The next participant, wrapping round; nobody when p is not on its own roster.
GetNextPeer(p) ==
    LET after == {q \in Roster[p] : q > p}
    IN  IF p \notin Roster[p] THEN {}
        ELSE IF after # {} THEN {Min(after)} ELSE {Min(Roster[p])}

\* sendMessageToPeer: without a stream the deck is dropped, with a log line.
Send(p, deck) ==
    {[deck EXCEPT !.at = q] :
        q \in {r \in GetNextPeer(p) \ down : <<p, r>> \in Link}}

\* Mutant: shuffling in every phase.
TouchAndShuffle(p, deck, touches) ==
    [deck EXCEPT !.layers = XOR(@, SecretOf(p)),
                 !.opened = @ \/ PhaseAfter(p, touches) # "encrypt",
                 !.spoiled = @ \/ deck.opened]

\* What p's turn makes of a deck when its counter reaches `touches`.  The
\* shuffle is applied in phase "encrypt" only.
Touch(p, deck, touches) ==
    LET shuffles == PhaseAfter(p, touches) = "encrypt"
    IN  [deck EXCEPT !.layers = XOR(@, SecretOf(p)),
                     !.opened = @ \/ ~shuffles,
                     !.spoiled = @ \/ (deck.opened /\ shuffles)]

Init ==
    /\ ready = {}
    /\ step = [p \in Peer |-> 0]
    /\ decks = {}
    /\ dealt = {}
    /\ down = {}
    /\ starts = 0
    /\ inits = [p \in Joiners |-> 0]

-----------------------------------------------------------------------------

\* Mutant: the host's own first touch is not counted.
StartUncounted ==
    /\ Host \notin down /\ starts < MaxStarts
    /\ starts' = starts + 1
    /\ ready' = ready \cup {Host}
    /\ decks' = decks \cup Send(Host, [id |-> starts, at |-> Host,
                      layers |-> XOR({"my_cipher"}, SecretOf(Host)),
                      opened |-> FALSE, spoiled |-> FALSE])
    /\ UNCHANGED <<step, dealt, down, inits>>

\* The `start` command: a fresh shuffle state, one touch, and a shuffle that
\* does not ask for the phase.
Start ==
    LET fresh == [id |-> starts, at |-> Host,
                  layers |-> XOR({"my_cipher"}, SecretOf(Host)),
                  opened |-> FALSE, spoiled |-> FALSE]
    IN  /\ Host \notin down
        /\ starts < MaxStarts
        /\ starts' = starts + 1
        /\ ready' = ready \cup {Host}
        /\ step' = [step EXCEPT ![Host] = 1]
        /\ decks' = decks \cup Send(Host, fresh)
        /\ UNCHANGED <<dealt, down, inits>>

\* Mutant: the counter starts one touch behind.
HandleShuffleInitBehind(p) ==
    /\ p \notin down /\ inits[p] < MaxInits
    /\ inits' = [inits EXCEPT ![p] = @ + 1]
    /\ ready' = ready \cup {p}
    /\ step' = [step EXCEPT ![p] = -1]
    /\ UNCHANGED <<decks, dealt, down, starts>>

\* handleShuffleInit: a fresh state, whatever the old one had counted.
HandleShuffleInit(p) ==
    /\ p \notin down
    /\ inits[p] < MaxInits
    /\ inits' = [inits EXCEPT ![p] = @ + 1]
    /\ ready' = ready \cup {p}
    /\ step' = [step EXCEPT ![p] = 0]
    /\ UNCHANGED <<decks, dealt, down, starts>>

\* handleShuffleRound with a shuffle state: deal when this is the host and its
\* counter is past both phases, else pass the deck on.
HandleShuffleRound(p, deck) ==
    LET touches == step[p] + 1
        touched == Touch(p, deck, touches)
        complete == p = Host /\ HostKnown /\ PhaseAfter(p, touches) = "done"
    IN  /\ p \in ready \ down
        /\ deck.at = p
        /\ step[p] < MaxStep
        /\ step' = [step EXCEPT ![p] = touches]
        /\ IF complete
           THEN /\ dealt' = dealt \cup {touched}
                /\ decks' = decks \ {deck}
           ELSE /\ decks' = (decks \ {deck}) \cup Send(p, touched)
                /\ UNCHANGED dealt
        /\ UNCHANGED <<ready, down, starts, inits>>

\* handleShuffleRound without one: a nil dereference ends the process.
PanicOnShuffleRound(p, deck) ==
    /\ p \notin ready \cup down
    /\ deck.at = p
    /\ decks' = decks \ {deck}
    /\ down' = down \cup {p}
    /\ UNCHANGED <<ready, step, dealt, starts, inits>>

\* A peer leaves; what is on its way to it is lost.
Quit(p) ==
    /\ p \in MayQuit \ down
    /\ down' = down \cup {p}
    /\ decks' = {d \in decks : d.at # p}
    /\ UNCHANGED <<ready, step, dealt, starts, inits>>

Deliver(p, deck) == HandleShuffleRound(p, deck) \/ PanicOnShuffleRound(p, deck)

Next ==
    \/ Start
    \/ \E p \in Joiners : HandleShuffleInit(p)
    \/ \E p \in Peer, deck \in decks : Deliver(p, deck)
    \/ \E p \in Peer : Quit(p)

Spec == Init /\ [][Next]_vars

\* Streams are reliable: what is on the wire to a running peer is delivered.
FairSpec == Spec /\ WF_vars(\E p \in Peer, deck \in decks : Deliver(p, deck))

-----------------------------------------------------------------------------
(* Properties.  OneHand is what they are stated for: everybody counts with   *)
(* the same roster, no shuffle state is reset, and one deck is started.      *)

OneHand == /\ Roster = [p \in Peer |-> Peer]
           /\ MaxInits <= 1
           /\ MaxStarts <= 1

TypeOK ==
    /\ ready \subseteq Peer /\ down \subseteq Peer
    /\ step \in [Peer -> Nat]
    /\ decks \subseteq Decks /\ dealt \subseteq Decks
    /\ starts \in Nat /\ inits \in [Joiners -> Nat]

\* "CRITICAL: no shuffling in decryption phase" (ARCHITECTURE.md): once one peer
\* has begun to decrypt a deck nobody reorders it, although each peer decides
\* from a counter of its own.
NeverSpoiled == \A deck \in decks \cup dealt : ~deck.spoiled

\* Local counters stand in for the global step the comments of shuffle.go ask
\* for: along the ring from the host they fall by at most one.
CountersAgree ==
    \A p, q \in Peer : p < q => step[p] \in {step[q], step[q] + 1}

\* The shuffle as it is documented: the deck has passed everybody twice when it
\* is done, "P1 -> P2 -> ... -> Pn -> P1 -> P2 -> ... -> Pn -> Done"
\* (shuffle.go), and "Final: Deck is shuffled but unencrypted"
\* (ARCHITECTURE.md).  Each peer counts its own touches up to twice the number
\* of participants, and the host's layers stay on: the code does neither.
ShuffledAsDocumented ==
    dealt # {} => /\ \A p \in Joiners : step[p] = 2
                  /\ \A deck \in dealt : deck.layers = {}

\* What the code does instead.  The host deals when every joiner has touched
\* the deck 2N times, N times to encrypt and N times to decrypt.
DealtAfterAll ==
    dealt # {} => \A p \in Joiners : step[p] = 2 * N

\* The touches cancel every joiner's layer, but not the host's two: that of its
\* cipher, put on before the ring, and that of the touch at which it finds the
\* shuffle done.
HostLayersRemain ==
    \A deck \in dealt : deck.layers = {"my_cipher", "host_secret"}

\* Everybody's counters together are one global step: laps in which each peer
\* has its turn once.  The host deals after 2N laps, where the comment in
\* shuffle.go has two.
Laps == INSTANCE LapShuffle
            WITH Player <- Peer, Dealer <- Host, Laps <- 2 * N,
                 lap <- step[Host],
                 finished <- {p \in Peer : step[p] = step[Host]},
                 dealt <- dealt # {}

TurnsGoInLaps == Laps!Spec

\* "Mental Poker shuffle completes" (TESTING.md): a started deck is dealt,
\* unless somebody left, or panicked since shuffle_init had not reached it.
ShuffleCompletes == starts > 0 ~> dealt # {} \/ down # {}
=============================================================================
