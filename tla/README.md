# A TLA+ model of the P2P poker client

This directory models the Go program next to it: a peer-to-peer Texas Hold'em
client on libp2p, in which one peer hosts a room, a deck is shuffled by passing
it round the players, each player commits to a hand, and bets are messages that
every peer applies to its own copy of the game. TLC checks the models on small
instances; TLAPS proves the main safety properties for all of them.

## The system

| component | code | state | operations |
|---|---|---|---|
| betting state | `pkg/game/state.go` | players (stack, bet, in hand, acted, commitment), pot, phase, turn, blinds; `mu` | `AddPlayer`, `SetupBlinds`, `PostBlinds`, `ApplyAction`, `AdvanceTurn`, `nextPhase` |
| start of a hand | `main.go` 695-877, 1693-1729 | phase, commitments | `start`, `assignCards`, `handleHandCommitment`, `checkAndStartPreFlop` |
| state update | `main.go` 916-964 | the betting state, overwritten from a message | `handleStateUpdate` |
| shuffle ring | `pkg/game/shuffle.go`, `main.go` 352-413 | per peer: participants, counter of touches, phase, cipher | `start`, `handleShuffleInit`, `handleShuffleRound` |
| deck, cipher | `pkg/game/deck.go`, `pkg/crypto` | cards and their XOR layers | `Encrypt`, `XOR`, `Shuffle`, `DecryptCard` |
| card locks, keys | `card_lock.go`, `key_exchange.go`, `main.go` 415-547 | owner and received keys of each card | `LockCard`, `AddKey`, `CanReveal`, four handlers |
| community cards, showdown | `main.go` 549-647, 758-802, 880-1097 | community cards, revealed hands | reveal with a timeout, `handleHandReveal`, `checkAndDetermineWinner` |
| hand evaluation | `eval.go`, `card.go` | none | `Evaluate` |
| stream table | `main.go` 198-243, 1114-1179, 1442-1524 | `peers`: peer to stream; `peersMu` | accept, join, read, clean up, broadcast, remove |
| rooms | `main.go` 1181-1497 | current and discovered rooms, `isAdvertising` | create, advertise, list, refresh, join, answer |
| shutdown | `main.go` 1558-1589, 1741-1781 | context, `WaitGroup` | signal, `quit`, wait with a timeout, close |
| command line, bootstrap node | `main.go` 1591-1739, `bootstrap_node.go` | | |

**Interaction.** libp2p runs `handleStream` in a goroutine per inbound stream;
`joinRoom` starts one per outbound stream. Each reads lines and calls
`handleGameMessage`, so messages of one stream are handled one at a time and
those of different streams concurrently, together with the command loop. They
share `gameState` (partly under `gameState.mu`), `shuffleState` and
`cardLockManager` (under no lock) and `peers` (under `peersMu`). Joiners are
connected to the host only.

**What is hard.** `ApplyAction` asks for its own lock again.
`checkAndStartPreFlop` reads, decides and writes without a lock. The phase of the
shuffle is counted by each peer for itself. A state update is a dozen assignments
without a lock. An entry of `peers` may outlive, or die before, the stream it
belongs to, and a broadcast holds `peersMu` over writes that have no deadline. A
key request, the deck it is about and the assignment travel on different streams;
the last two keys to a card may come at once. Every reveal may award the pot, on a
stream of its own and without a lock. One flag says for all rooms of a client that
a goroutine advertises. `Shutdown` needs `peersMu` after its timeout.
PROJECT.json lists each of these, and the smaller ones, under `hazards`.

**What makes each component correct.** Betting: chips are neither made nor
lost, a street closes when everybody paid the same, a round ends. Start of a hand:
late handlers reopen nothing. Shuffle: no shuffling after the first decryption,
the deck comes back. Streams: whoever is connected is reached, broken streams go,
the table stands still under a broadcast. Key exchange: a card opens with the keys
of all others, and not before. Showdown: the pot goes to the best hand, once.
Evaluation: agrees with the ranking of poker hands. Rooms: what is listed is its
host's, what is full is withdrawn. Shutdown: it ends.

## Modules

| module | what it is |
|---|---|
| `GameState` | the methods of `state.go`, and what `handleStateUpdate` copies, as operators on a record |
| `Table` | one node's game state; an action per message type or command, the lock, panics; state updates assignment by assignment |
| `HandStart` | `Table` with the commitment handler cut into its unlocked reads and writes |
| `ShuffleRing` | all peers of a shuffle, the decks on the wire, peers that leave |
| `LapShuffle` | abstract: players take turns in laps, and the deck is dealt after the last; `ShuffleRing` implements it |
| `Connections` | the table of streams, its readers and senders, and its lock |
| `KeyExchange` | all peers, their streams, decks, locks and hands, handlers cut into steps; from `start` to the commitments |
| `CardOpening` | abstract: a card opens once everybody else has released a key to it; `KeyExchange` implements it |
| `HandEval` | `Evaluate` and its helpers, beside the ranking of poker hands |
| `Showdown` | the host from the first bet to the award, one judgement per stream; uses `HandEval` |
| `PotPayout` | abstract: chips go between pot and players, and the pot leaves whole, to one of them; `Showdown` implements it until an award is torn |
| `Lobby` | rooms, their discovery, broadcasts that block, and the end of a client |
| `MCTable`, `MCHandStart`, `MCShuffleRing`, `MCConnections`, `MCKeyExchange`, `MCShowdown`, `MCLobby` | values for TLC |
| `TableProofs`, `ShuffleRingProofs`, `ConnectionsProofs`, `KeyExchangeProofs`, `HandEvalProofs`, `ShowdownProofs`, `LobbyProofs` | theorems; those about `HandStart` are in `TableProofs` |
| `FiniteSetFacts` | what they share about finite sets: the minimum, induction, sums |

An operator whose comment starts with "Mutant" is a faulty variant of the
definition after it, kept to show that the properties notice; no definition uses
one.

### Correspondence with the code

*GameState.* A `Player` of the Go map is one entry in the functions `stack`,
`bet` and the sets `inHand`, `hasActed`, `committed`; `players` is the map's
domain. `peer.ID("")` is `NoPeer`. Go iterates over player IDs sorted as strings;
here peers are numbers and `NextAround` is the walk from one place of that order
to the next member of a set. Cards and names are left out.

*Table.* `HandleBet(p)` is one accepted `bet` message: the checks at the top of
`ApplyAction` (`MayAct`), the case of the action, then `Conclude`, the tail.
Rejected actions change nothing and are no steps. `HandleHandCommitment` is the
handler with `checkAndStartPreFlop`, in one step; `HandStart` has it in its parts.
`DealCards` is the end of a shuffle on the host.
The lock: a handler that returns holds `mu` within its step; one that never
returns leaves `muOwner` set, and steps that need `mu` are disabled from then on
(`MuFree`). Handlers that take no lock are not.

A state update is one step per assignment: the fields of the game state in the
order of the source (`UpdatedFields`), then bet, stack and membership of one
player after the other, in any order of the players, then the look-up of the
blinds with its panic. Bets, joins and commitments run in between. An update may
hold anything (`GameStates` has integers, not naturals): nothing in it is checked.
`host` says whether this node made the room; updates come to nodes that did not,
as the host is who sends them.

*Three wiring constants.* As built, little of the betting code can run:
`sync.RWMutex` is not reentrant (`MuReentrant = FALSE`), nothing assigns
`GameState.HostID` (`HostKnown = FALSE`), and a joining player's record lacks
`InHand` (`JoinInHand = FALSE`). The runs set constants to `TRUE` to check the code
behind a gap as it would run once the gap is closed; `table_wedge` and
`ring_as_built` show what the first two gaps break. The theorems hold for all eight
combinations, but for `ClosedStreetsStayClosed`, which says which it needs.

*HandStart.* `pc[p]` is where the goroutine of p's stream is: the commitment
stored, the hand found ready, the phase set, the blinds set up. Only `SetupBlinds`
and `PostBlinds` need `mu`. While `pc[p]` is not "idle" no other message of p is
handled. State updates are left to `Table`.

*ShuffleRing.* A deck is the set of cipher layers on it (XOR twice is none) and
two bits: it has been decrypted by somebody, and shuffled after that. Peers are
numbered along the ring from the host. `Roster` and `Link` give who knows and who
has a stream to whom; `MCShuffleRing` has both the complete ones and those the
program builds. `handleShuffleRound` without a shuffle state is a panic.

*Connections.* A step is one hold of `peersMu` or one event of a stream. The
reader of a stream goes "accepted" (limit passed), "reading", "stopped", "gone"; a
stream of `joinRoom` is "stored" first, then "joining" while the join message goes
out, and only then "reading". `peersMu` is a `sync.RWMutex`: `readLocks` counts its
readers, and a `Lock` that waits (`lockWaits`) keeps new readers out. `sendMessage`
holds it from its first write to its last, and a write to a recipient that has
stopped reading (`Stall`) does not end; `sendMessageToPeer` writes without it. Broken
peers are collected while writing and removed one by one afterwards. There are
several senders, of which the console is busy during `joinRoom`.
`connectToPeer` has no caller and is not modelled.

*KeyExchange.* A message waits in the FIFO stream from its sender to its reader;
`Deliver(q, p)` is q's goroutine for that stream handling the next one. The ring
is only a token that passes through the same streams, so that a deal comes after
what was on them. A deal is a number; a key records from whom it is and from the
card of which deal it was made, since `GenerateKeyForCard` encrypts whatever lies
in that place of the deck the peer has at the time. That key is the card's data
XOR the peer's key stream, and `DecryptCard` XORs all keys to the data: the data
itself stays only if the number of keys is even, and the card appears if the
streams are the layers it was dealt with (`Decrypts`).

`task` is where the goroutine of each stream is inside a handler. `card_assign`
locks one card after the other and asks for its own; `key_response` adds the key,
looks whether there are enough (`CheckKeys`), decrypts and shows the card
(`RevealCard`), reads the hand, writes it back (`ReadHand`, `WriteHand`) and counts
it (`CountHand`). Nothing of this takes a lock, so that two last keys on two
streams may both find the card complete: then it is in the hand twice, or the
write of one handler undoes that of the other. The deal of the host is four steps
for the same reason. That the Go runtime ends a process it finds writing a map from
two goroutines at once is in the model as a peer that takes no more steps: nothing
is said of it afterwards. `opened`, `released` and `rejected` are history variables
for the properties.

As built no card opens: the deck is dealt under the host's layers and not the
others' (`DealtLayers`), the suit of a card's text has three bytes where
`ParseCard` takes one (`SuitBytes`), and joiners are connected to the host only.
`keys` closes these gaps, as a deck under the layers of all others, texts of two
bytes and a complete mesh; the type theorem holds for every choice. With an odd
number of other players no card opens either, so three peers is the smallest
instance.

*HandEval.* Ranks are kept, suits only for flushes, the order of cards as the
code leaves it (the wheel rotated). `Keep` is one round of the loop with its
comparison card by card, and the panic of indexing an empty hand. `Combinations`
are all fives of seven places in the order in which the recursion of
`generateCombinations` comes to them: with a card before without it.
`Kind`, `Beats`, `IsBest` are the rules of poker, written without the code: `Groups`
are the ranks a hand has once, twice and so on, a straight is five single ranks
from a lowest one on, with the ace as a one in the wheel, and of two hands of a kind
the larger groups decide first.

*Showdown.* As built `isHost` is false and `revealCommunityCards`,
`advanceToNextPhase` and `revealHandAtShowdown` are never called; joiners would
reveal and the host would judge as in this module. Bets, calls and folds are what
`Table` lets through, with the refund of a call whose player has bet more than
`CurrentBet`; whether an action closes the round is left open (`Bets`). A street
that was asked for is `pending` until its goroutine appends it to the board or
times out, several may be pending together, and of two that append at the same
moment one may be lost. A card that does not decrypt or parse is skipped
(`Readable`), so a street may append less than it has. `judge[p]` is the judgement
on p's stream with its locals: has everybody revealed, one player of the loop after
the other (in any order, as Go iterates over a map), the pot added to a stack
(1080), the pot cleared (1082). Other streams do what they like in between. Neither
hands nor community cards are ever cleared, and a second hand never commits, so the
module ends with one hand.

*Lobby.* A client has a room or none, a list, and one advertising goroutine for
each room it made; `createRoom` sets the room, raises the flag and starts the
goroutine in three steps. `provided` holds the DHT records: a search finds any part
of them, or never ends (its read of an answer has no deadline): then its step is
not taken, and no fairness asks for it. Of a stream, its two ends are kept; the end
at the host is stored in a step of its own. Of `peersMu` what matters here is what
keeps it: `blocked[c]` are the recipients that c's broadcasts hang at. `Shutdown`
goes "waiting" for the goroutines or its two seconds, "locking" `peersMu`, "closed".

## Runs

| run | shows | bounds |
|---|---|---|
| `table_hands` | types, pot covers bets, idle until updated, chips only move, streets end even, rounds end | 3 players, stack 4, blinds 1/2, bets 3 and 4, 3 joins or updates, 1 update, 2 starts |
| `handstart_race` | chips, pot and streets under interleaved commitment handlers; PreFlop not reopened | 3 players, stack 7, bet 3, 1 start |
| `ring_hand` | local counters in step, no late shuffle, the deck is dealt | 6 peers, 1 deck, 2 peers may leave |
| `conn_table` | entries have readers or are about to, the table stands still under a broadcast, sole stream reachable; closed streams go | 2 streams of 2 peers, 2 senders, limit 1 |
| `keys` | no card opens early; every card opens unless a request or key was overtaken | 3 peers, 1 card, 1 lap, 2 deals |
| `showdown` | the pot goes whole to one player, with the best kind of hand; `Evaluate` finds the best five or panics, in every order of the streets | 3 players, one hand played out and 42 evaluated from ranks 2 to 7, 2 reveals, one raise, one refund |
| `lobby` | rooms lead to their hosts, advertised rooms have a goroutine, full ones are withdrawn, shutdowns end | 2 clients with 2 rooms and 1, rooms of 2, both may end |

Why the bounds are enough: three players are the first number at which dealer,
small and big blind are different and one more can be skipped; a stack of 4 is
used up by a big blind and a bet, so all-in calls, short blinds (in the second
deal) and refunds occur; two starts reach a second hand over the remains of the
first. The update is a hand another host has just started, with two players: this
node may know one of them, neither, or others, and may get the update between a bet
and a join. Joins and updates share a bound, since a fourth of them adds states and
no new order of two. In `handstart_race` the stack of 7 outlasts three postings of
the big blind. `ClosedStreetsStayClosed` says that five chips would do; with four
the blinds can take a player's last chip, betting closes PreFlop without that
player, and the player's own late handler does reopen it.
Six peers give full phases of 6 laps. In `conn_table` two streams are a
reconnection if they are of one peer, and two broken recipients of one broadcast if
not; of the two senders one may be joining while the other writes or waits for the lock,
and a limit of one refuses the second stream. In `keys` one joiner
has a seat and needs two keys, which may come at once; two deals are what a stale
key, a cleared lock and a card opened again need. (The instance with a card for
everybody and one deal has 450 020 states and passes as well.) The deals of
`showdown` are chosen so that all kinds from one pair to the royal flush, the wheel
and the panic occur; the one that is played out has a different winner for each set
of players left and panics in one order of the streets; a big blind who is all in
for less than the small one makes the refund. In `lobby` a client with two rooms has
two goroutines under one flag, a room of two is full with one guest, and two clients
that end may each be writing to the other. Deadlock checking is off: with the
bounds spent, or a hand nobody acts in, the program really stops.

Each of the remaining runs finds one statement of the documentation or of a
comment violated; `findings` in PROJECT.json quotes the statement.

| run | the code |
|---|---|
| `table_wedge` | `ApplyAction` blocks on its own lock |
| `ring_documented` | the deck goes round 2N times, not twice (shuffle.go:48, ARCHITECTURE.md:625, TESTING.md:272), and is dealt under the host's layers, not unencrypted (ARCHITECTURE.md:148) |
| `ring_as_built` | the first send of the deck has no recipient |
| `conn_broadcast` | the end of an old stream unregisters the new one |
| `showdown_panics` | a hand is compared with one that is not there, and the host's process ends |

The modules contain more places where code and documentation part, which no run
is spent on.

- Start of a hand: with one player on the roster `StartPreFlop` enters PreFlop
  without blinds or turn. Without `InHand` the first commitment starts the hand.
  Two commitments that arrive together both find the hand ready and post the
  blinds twice (`HandStart`), where TESTING.md:114 has "Pot starts at 6 chips", and
  from players who do not have the turn. A commitment that arrives before the
  host's last step of dealing (`AwaitPlayers`) is stored but may start nothing. A
  second hand never commits: the cards of the first are still there.
- Betting: a big blind with fewer chips than the small blind sets the current
  bet below a bet on the table, where state.go:51 has "The highest bet amount".
  After PreFlop a late joiner bets without a commitment. When the last player
  folds nobody is awarded the pot. In a second hand the turn may come to a player
  who folded in the first. A player who joins again has a fresh stack.
- State updates: one that meets a bet or a join half way leaves a state nobody
  sent; one with a blind this node does not know ends the process.
- Streams: a recipient that stops reading without closing holds up the broadcast,
  with it everybody who needs to change the table, and then every broadcast.
- Shuffle: a second `start` leaves the counters apart, so that an opened deck is
  shuffled.
- Keys: as built no card opens (above). A request that overtakes the deck or the
  assignment is turned down for good (`QuietMeansOpened`), and in a second hand an
  answer can come from the deck of the first. Two last keys at once may double a
  card, or lose one, where TESTING.md:273 has "Each player receives exactly 2 hole
  cards".
- Showdown: two reveals may both add the pot before either clears it, so that it is
  paid twice (main.go:1080-1082), and a bet between the two is lost. Hands of one
  kind are not told apart by their cards, and a tie goes to whoever the map
  iteration meets first. Reveals before the river award nothing, and nobody reveals
  again. `advanceToNextPhase`, were it called, would add the bets to a pot that
  already has them.
- Rooms: the limit of eight players stops the advertisement and no join; a room
  that was full is never advertised again; the goroutine of an older room may
  withdraw a newer one that has seats; a host that joined another room goes on
  advertising, though the comment at main.go:1270 speaks of "no longer hosting".
  The limit of peers is passed by a race and by `joinRoom`.
- Shutdown: ARCHITECTURE.md:474 has "Shutdown waits for all goroutines". With
  `quit` it waits for the goroutine it runs in, and with an open stream for a
  reader whose stream it closes after the wait: it is the two seconds that end the
  wait. After it `peersMu.Lock` has no timeout: a broadcast that hangs at a live
  recipient keeps the process, and so do two clients that end while each writes to
  the other.

### Fairness

`Table`: weak fairness of "some player's action is accepted", that is, users act
while they can. The code has no clock on a turn; without this nothing need happen.
`ShuffleRing`: weak fairness of delivery, since libp2p streams are reliable while
both ends run; none on leaving or starting. `Connections`: a goroutine that can run
does, a reader on a closed stream gets to see it, a write returns unless its
recipient has stalled, and a goroutine that waits for the lock gets it if it is free
again and again (strong fairness, since others take it in between; `sync.RWMutex`
lets a waiting writer in before new readers). Nothing is fair about peers
connecting, stalling or failing, nor about starting to send. `Lobby`: tickers tick
while their goroutine cannot be waiting for `peersMu`, `createRoom` goes on, timers
run out, a `Lock` that nobody prevents is had, and a write to a client that has
closed returns; no user, no search and no live recipient is fair. `KeyExchange`,
`Showdown`, `HandStart` state safety only.

## Proofs

All theorems are for arbitrary constants under the named assumptions (finite set
of positive peer numbers, natural chip amounts, at least two peers in a ring),
and, where a theorem has an `ASSUME` of its own, under what it says there. Every
safety property of the passing runs has one, but `QuietMeansOpened`.

*TypeCorrect.* One lemma per method shows that it keeps `WellFormed` (types, and
that what is said of a player is said of one on the roster), whatever integers an
update has brought, and that it keeps `Solvent`: for `Pay` that nothing below zero is
taken is exactly the all-in rule of `call` and the funds check of `bet`. `Solvent` is
claimed until the first update, as nobody checks what one holds. `CopyTypes` takes
the assignments of an update one by one. The step theorem then has one case per
action.

*HalfAppliedStays.* `HalfApplied`: an action that hangs in `ApplyAction` has marked
its player, and the mark stays. With `MuReentrant` the lock is never kept. Without it
the holder was just marked; after that only steps that need no lock run, and neither a
commitment nor any assignment of a state update clears `hasActed`. No run checks it:
`table_wedge` shows what comes of it.

*BuiltTableIsIdle.* Inductive by itself: without the turn no action is accepted,
and a node that is not the host posts no blinds.

*StreetsEndEven.* An action property, from a lemma about the books of one action
(what leaves the player's stack enters bet and pot, and nobody else's chips change)
and that `IsRoundComplete` makes every bet equal to the current bet before
`NextPhase` clears them.

*PotCovers*, *ChipsAreKept.* Sums over all players. `FiniteSetFacts` has the
induction over a finite set that the library only has for a predicate: stated over
a set of sets, which a prover can instantiate with a comprehension. From it come
the equations of `SumFunctionOnSet`, and from those that a sum changes by what one
member's value changes by. Each method then either moves an amount from a stack to
bet and pot, or leaves all three alone. `PotCovers` is for a table that no state
update has reached: an update writes pot and bets as it finds them. `ChipsAreKept`
holds in the middle of an update too, of the chips there are by then.

*HandStart.* The theorems of `Table` on types and chips carry over to the finer
steps (`SmallStepsKeepBooks`): even blinds posted twice come out of stacks.
`ClosedStreetsStayClosed` rests on `LateInv`: a handler about to set the phase is
that of a player in the hand who has not acted, since its stream is held up, so
that a round in which this player has chips cannot close. What keeps the chips
there is the bound: every other handler posts the blinds once at most, and a stack
larger than all of those together is not used up. The bound is exact, as the
run at it, with a stack of 4, fails in TLC.

*ShuffleRing.* `RingInv` says where the one deck is: with the host's counter at k,
the peers before the deck's holder have touched it k times and the others k - 1
times, and whether it is opened and unspoiled. It is needed since none of
`NeverSpoiled`, `CountersAgree`, `DealtAfterAll` is inductive: each rests on the
position of the deck. The theorems assume `OneHand` (complete rosters, one
shuffle_init per peer, one start); with a second start `NeverSpoiled` fails.

`RingTypeCorrect` needs none of this.

Three theorems say what the code does where `ring_documented` shows that it is not
what is documented; no passing run checks them as properties. `HostKeepsDeckSealed`
adds `LayersInv`: a layer is on when it was toggled an odd number of times, and the
host's counter with the deck's place say how often. In 2N laps joiners toggle theirs
an even number of times; the host, which also touches the deck when it begins, is one
ahead, and its own cipher is put on once and never taken off. `HostDealsLast`: the
host deals when every joiner has had the deck 2N times. `CountersImplementLaps` is a
refinement of `LapShuffle` with 2N laps: the host's counter is the lap, the peers
whose counter equals it are through with it; a shuffle_init that arrives in time
changes nothing in this view. What is common to the code and the document is that
the turns have one global order.

*Connections.* `LockInv`: `readLocks` is the number of senders inside a broadcast, so
that nobody gives back a lock that is not held, and `Lock` means that nobody is
inside one. `TableKeepsStill` follows: every change of an entry waits for the lock.
(A write to the table while `sendMessage` iterates over it would end the process.)
`EntriesHaveReaders` is inductive with the types; `SoleStreamIsReachable` follows from
it together with the fact that only streams of the same peer touch an entry, and
that a stream has an entry from the moment it is read.

*KeyExchange.* `KeyInv` adds to the types what may be under way: a key on a stream
has been released by its sender for that card and deal, the keys in a lock manager
were all released, and a handler in the middle of its work holds cards and hands of
the right kind. It is kept by appending to and reading from any stream (two lemmas),
and each step of a handler adds its own messages. `OpensOnlyWithAllKeys` is the
refinement: `HandleKeyRequest` maps to `Release`, a `RevealCard` that reads the card to
`Open`, the rest to stutters; a card that two handlers read is opened once. It assumes
that each card carries the layers of all peers but its owner; any roster will do,
since `Decrypts` asks for the layers and not for the number of participants, and looks
at the keys there are when the card is decrypted, whatever was counted before.

*Showdown.* Types first. `BestHandWins` is unconditional. `BoardInv` says that the
board is what could be read of streets, each once, in any order; with five cards on
it none is missing (`FiveCardsAreAll`), so every player in the hand has seven, of
cards that are the committed ones. A street that timed out, was lost or lacks a card
leaves fewer than five, and then nobody is awarded anything. `JudgeInv` is what each
judgement has established while the others go on: everybody in the hand has revealed;
whoever it keeps has been compared over a full board, and that board does not
change; no player it has looked at, and not passed over, is stronger. Nothing that
other streams do can undo this (`OthersStand`): hands only come, players only
leave, and a full board is the last. A player passed over for want of cards, since
the last street came in the middle of the loop, is what `short` records, and then the
best hand is not claimed to win. That the seven cards of a player are different
(`SevenToChooseFrom`) is `DifferentCards`, a fact of the deck and of `assignCards`;
for what they are worth `EvaluateFindsTheBest` is cited. `EvaluationIsRight` is the
same of every deal and order of the streets, whether or not the hand gets there, and
`OnlyNothingEndsTheHost` the other side of `showdown_panics`: a judgement ends the
host's process only if the first five cards of somebody in the hand make no pair or
better.

`ShowdownImplementsPayout` maps the pot to what is left to be paid (`PotLeft`: nothing
once it is added to a stack): `AddPot` is `Win`, `ClearPot` a stutter, bets and
refunds are `Pay`, folds `GiveUp`. It is claimed until `torn`: chips that move while
some judgement stands between 1080 and 1082 are where the code pays twice or loses a
bet. So it says that this is the only way: side by side judgements, repeated reveals,
folds in the middle of one and refunds do not tear the pot elsewhere.

*HandEval.* `Evaluate` is proved right for every number of ranks and suits and all
seven different cards, in four parts.

- `StrengthIsKind`: a hand gets the strength of its kind. `HighToLow` sorts
  (`HighToLowSorts`: the k-th highest of five exists and falls with k), and of five
  sorted numbers the counts of `getRankCounts` follow from which neighbours are
  equal (`CountsOfSorted`); with that strength and kind are compared case by case.
- `CombinationsAreAll`: the combinations are all 21 fives. Card by card is a strict
  linear order (`HigherIsOrder`), and in a finite set with one each place is
  taken by one member (`EachHasItsPlace`).
- The loop. `FoldLeft` of the community modules is a recursive function over sets of
  places; `EvaluateByRounds` shows that it exists and takes the combinations one
  after the other, and `RoundsKeepTheBest` is the loop invariant: the kept hand is
  one of those seen, and none seen is stronger, or as strong and higher card by
  card; or the first was a high card, and there was the panic.
- `HighestIsUnbeaten`: what is left is beaten by no other five. The code compares
  card by card from the highest, poker the larger groups first: of a pair of kings
  and a pair of queens with an ace the code prefers the second. It is right since both hands come from the same seven cards: were there a hand with
  the same kind and better groups, another could be made of the better group and
  the higher cards (`HandAtPlaces`), of a higher kind or higher card by card.
  `SinglesDecide`, `PairsDecide`, `ThreesDecide` and `OneFour` count the places each
  rank has among the seven (`With`) to find it.

*Lobby.* `AdvertInv` strengthens `AdvertisedByALoop` by "while the flag is up the
client is in a room": a tick then ends no goroutine under a flag that is up, one
that found the room full takes the flag down as it ends, with the flag down there is
nothing to serve, and between `RaiseFlag` and `StartAdvertising` the command loop is
there. Rooms are named after a counter that only grows.

*Only model-checked.* Liveness (beyond TLAPS): `RoundEnds`, `ShuffleCompletes`,
`DeadEntriesGo`, `FullRoomIsWithdrawn`, `ShutdownEnds`; and `QuietMeansOpened`, which
needs an account of every request and answer under way. The properties of the
runs that expect a violation are no theorems, of course.

## Not modelled

`advanceToNextPhase` as a whole and what joiners store from `community_reveal`:
nothing calls the first, and only it leads to the second; `Showdown` has the part
the award depends on. The functions without a caller (`connectToPeer`, `Deal`,
`Decrypt`, `GetLock`, `GetMyCards`). The DHT, NAT and relay services are libp2p's.
`bootstrap_node.go` and `cmd/bootstrap` start it and wait. What a process does
after two goroutines have written a map at once (`AddKey`, `LockCard`): Go promises
nothing but that it may end it. Exchanges of cards of different owners share only
streams. Who counts in the `WaitGroup`, the end of the refresher and of the input:
`Shutdown` may go on without them. The contents of salts and hashes,
card bytes beyond their number, and all printing are abstracted away.

## Plan

Done:

1. `GameState`, `Table`: the betting state under messages, with proofs.
2. `ShuffleRing`, with proofs, and the refinement of `LapShuffle`.
3. `Connections`, with proofs.
4. `HandStart`: the race at the start of a hand.
5. `KeyExchange` over `CardOpening`, with proofs.
6. `HandEval` and `Showdown` over `PotPayout`, with proofs.
7. `Lobby`: rooms and shutdown, with proofs.
8. Proofs of the remaining safety properties: chips of `Table`,
   `HandStart`, the layers of `ShuffleRing`, the best hand in `Showdown`.
9. `HandEvalProofs`: `Evaluate` is right for all cards, so that the theorems of
   `Showdown` need no hypothesis about it.

10. The unlocked handlers taken apart: state updates, key responses, card
   assignments, judgements; `peersMu` over blocking writes in `Connections` and
   `Lobby`; the proofs over the finer steps.

To do:

11. Copies of `Table` on several nodes with the messages between them, against
   "Game state is synchronized across all peers" (README.md:10).
12. `Connections` with `Table`: players who leave keep their seat and their turn.
13. Proofs: `QuietMeansOpened`; what is left of `PotCoversBets` after a state update
    that is itself in order.
