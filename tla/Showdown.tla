------------------------------ MODULE Showdown ------------------------------
(***************************************************************************)
(* The end of a hand on the host: hands are revealed and held against the  *)
(* commitments, community cards come or time out, players bet or fold      *)
(* meanwhile, and each reveal that completes the set awards the pot.       *)
(* handleHandReveal, checkAndDetermineWinner, revealCommunityCards of      *)
(* cmd/poker/main.go over Evaluate of HandEval.                            *)
(*                                                                         *)
(* Each player's stream has a goroutine of its own and none of this takes  *)
(* a lock: a judgement goes from player to player, then adds the pot to a  *)
(* stack, then clears it, and the other streams go on in between.          *)
(*                                                                         *)
(* It begins with the betting: everybody has committed, and the host has   *)
(* its own two cards in its hand since they were dealt.                    *)
(***************************************************************************)
EXTENDS HandEval

CONSTANTS
    Player,      \* who is in the hand when betting begins
    Host,        \* one of them
    NoPlayer,    \* nil
    Deals,       \* deals to consider: [hole : [Player -> two cards],
                 \* board : five cards]
    Played,      \* those of them that may be dealt
    Blinds,      \* what each player has bet when betting begins
    BigBlind,    \* CurrentBet then; less than a blind if the other is all in
    Stack,       \* what each player has left then
    Amounts,     \* what players may bet or raise to
    MayFold,     \* players that may fold
    Damaged,     \* cards of the board that may not decrypt or parse
    MaxReveals   \* bound on the reveals that come

ASSUME PlayerAssumption ==
    Host \in Player /\ NoPlayer \notin Player /\ MayFold \subseteq Player
ASSUME DealsAssumption ==
    /\ Deals \subseteq [hole : [Player -> [1 .. 2 -> Card]], board : [1 .. 5 -> Card]]
    /\ Played \subseteq Deals
\* The cards of a deck differ, and each is dealt once.
ASSUME DifferentCards ==
    \A d \in Deals, p \in Player : IsInjective(d.hole[p] \o d.board)
ASSUME ChipsAssumption ==
    /\ Blinds \in [Player -> Nat] /\ BigBlind \in Nat /\ IsFiniteSet(Player)
    /\ Stack \in [Player -> Nat] /\ Amounts \subseteq Nat \ {0}

VARIABLES
    deal,       \* the cards, as they lie in the deck
    hand,       \* Hand of each player's record on the host; <<>> is none
    board,      \* CommunityCards
    street,     \* how many of flop, turn and river have begun
    pending,    \* those whose cards the host is still waiting for
    inHand, stack, bet, currentBet, pot,
    judge,      \* where the goroutine of each player's stream is, with its locals
    torn,       \* history: chips moved while a judgement was awarding the pot
    reveals,    \* how many reveals have come, for the bound
    alive       \* the process runs

table == <<deal, street, pending, board>>
chips == <<stack, bet, currentBet, pot>>
vars == <<table, hand, inHand, chips, judge, torn, reveals, alive>>

\* Cards of the flop, the turn and the river.
StreetCards == <<<<1, 2, 3>>, <<4>>, <<5>>>>

\* What of a street can be read: a card that does not decrypt or parse is skipped.
Readable == <<{<<1, 2, 3>>, <<1, 2>>, <<1, 3>>, <<2, 3>>, <<1>>, <<2>>, <<3>>, <<>>},
              {<<4>>, <<>>}, {<<5>>, <<>>}>>

\* The cards at these places of the board.
At(d, places) == [i \in DOMAIN places |-> d.board[places[i]]]

\* Commitments are to the cards that were dealt.
Committed(p) == deal.hole[p]

\* A goroutine waiting for a message; left, best, strength are the locals of a
\* judgement, short is history: it passed over somebody for want of cards.
Idle == [at |-> "idle", left |-> {}, best |-> NoPlayer, strength |-> 0, short |-> FALSE]

Init ==
    /\ deal \in Played
    /\ hand = [p \in Player |-> IF p = Host THEN deal.hole[p] ELSE <<>>]
    /\ board = <<>>
    /\ street = 0 /\ pending = {}
    /\ inHand = Player
    /\ stack = Stack /\ bet = Blinds /\ currentBet = BigBlind
    /\ pot = SumFunctionOnSet(Blinds, Player)
    /\ judge = [p \in Player |-> Idle]
    /\ torn = FALSE /\ reveals = 0
    /\ alive = TRUE

-----------------------------------------------------------------------------
(* Bets and community cards. *)

Awarding(p) == judge[p].at \in {"add", "clear"}

\* What ApplyAction does with chips; they may come back out of the pot, when the
\* bet of a player is above CurrentBet.
Pay(p, amount) ==
    /\ stack' = [stack EXCEPT ![p] = @ - amount]
    /\ pot' = pot + amount
    /\ torn' = (torn \/ \E q \in Player : Awarding(q))

\* The action may be the one that ends the betting round.
Bets(bets, highest) ==
    \/ bet' = bets /\ currentBet' = highest
    \/ bet' = [p \in Player |-> 0] /\ currentBet' = 0

\* Actions come on the stream the player's reveals come on.
MayAct(p) == alive /\ p # Host /\ p \in inHand /\ judge[p] = Idle

Check(p) ==
    /\ MayAct(p) /\ bet[p] >= currentBet
    /\ Bets(bet, currentBet)
    /\ UNCHANGED <<table, hand, inHand, stack, pot, judge, torn, reveals, alive>>

Call(p) ==
    /\ MayAct(p)
    /\ LET toCall == Min({currentBet - bet[p], stack[p]})
       IN  Pay(p, toCall) /\ Bets([bet EXCEPT ![p] = @ + toCall], currentBet)
    /\ UNCHANGED <<table, hand, inHand, judge, reveals, alive>>

Raise(p, amount) ==
    /\ MayAct(p)
    /\ amount - bet[p] <= stack[p] /\ amount >= currentBet
    /\ Pay(p, amount - bet[p])
    /\ Bets([bet EXCEPT ![p] = amount], amount)
    /\ UNCHANGED <<table, hand, inHand, judge, reveals, alive>>

Fold(p) ==
    /\ MayAct(p) /\ p \in MayFold
    /\ inHand' = inHand \ {p}
    /\ Bets(bet, currentBet)
    /\ UNCHANGED <<table, hand, stack, pot, judge, torn, reveals, alive>>

\* The host begins a street and asks for the keys to its cards.
AskForCommunityCards ==
    /\ alive /\ street < 3
    /\ street' = street + 1
    /\ pending' = pending \cup {street + 1}
    /\ UNCHANGED <<deal, board, hand, inHand, chips, judge, torn, reveals, alive>>

\* All keys came in time: the cards that can be read go to the end of the board,
\* whatever street was asked for before.  Streets that append at the same moment
\* (others) are lost.
RevealCommunityCards(s, others) ==
    /\ alive /\ s \in pending /\ others \subseteq pending \ {s}
    /\ \E places \in Readable[s] :
          /\ Range(StreetCards[s]) \ Range(places) \subseteq Damaged
          /\ board' = board \o At(deal, places)
    /\ pending' = pending \ ({s} \cup others)
    /\ UNCHANGED <<deal, street, hand, inHand, chips, judge, torn, reveals, alive>>

\* They did not in five seconds: nobody asks again.
RevealTimesOut(s) ==
    /\ alive /\ s \in pending
    /\ pending' = pending \ {s}
    /\ UNCHANGED <<deal, board, street, hand, inHand, chips, judge, torn, reveals, alive>>

-----------------------------------------------------------------------------
(* Reveals. *)

\* What a client may claim to hold.
Claims == {deal.hole[p] : p \in Player}

\* Mutant: the commitment is not looked at.
HandleHandRevealUnverified(p, cards) ==
    /\ alive /\ p # Host /\ judge[p] = Idle
    /\ reveals < MaxReveals /\ reveals' = reveals + 1
    /\ hand' = [hand EXCEPT ![p] = cards]
    /\ judge' = [judge EXCEPT ![p].at = "check"]
    /\ UNCHANGED <<table, inHand, chips, torn, alive>>

\* A reveal that does not hash to the commitment is dropped.  It may come in any
\* phase, from a player who folded, and again.
HandleHandReveal(p, cards) ==
    /\ alive /\ p # Host /\ judge[p] = Idle
    /\ reveals < MaxReveals /\ reveals' = reveals + 1
    /\ cards = Committed(p)
    /\ hand' = [hand EXCEPT ![p] = cards]
    /\ judge' = [judge EXCEPT ![p].at = "check"]
    /\ UNCHANGED <<table, inHand, chips, torn, alive>>

\* The loop can be one step: hands only come and players only leave.
AllRevealed == \A p \in inHand : hand[p] # <<>>

\* checkAndDetermineWinner, as far as its first return.
CheckAllRevealed(p) ==
    /\ alive /\ judge[p].at = "check"
    /\ judge' = [judge EXCEPT ![p] =
                    IF AllRevealed THEN [Idle EXCEPT !.at = "compare", !.left = Player]
                                   ELSE Idle]
    /\ UNCHANGED <<table, hand, inHand, chips, torn, reveals, alive>>

AllCards(p) == hand[p] \o board

\* Whoever has fewer than seven cards is passed over.
HasCards(p) == Len(AllCards(p)) >= 7

\* The locals of a judgement when the loop has been at q.
Pass(j, q) == [j EXCEPT !.left = @ \ {q}, !.short = @ \/ q \in inHand]

\* Mutant: of two hands the weaker is kept.
KeepWeaker(j, q, strength) ==
    IF j.best = NoPlayer \/ strength < j.strength
    THEN [j EXCEPT !.left = @ \ {q}, !.best = q, !.strength = strength]
    ELSE [j EXCEPT !.left = @ \ {q}]

KeepBetter(j, q, strength) ==
    IF j.best = NoPlayer \/ strength > j.strength
    THEN [j EXCEPT !.left = @ \ {q}, !.best = q, !.strength = strength]
    ELSE [j EXCEPT !.left = @ \ {q}]

\* After the last round of the loop there is nobody to pay, or the pot to add.
Onward(j) ==
    IF j.left # {} THEN j
    ELSE IF j.best = NoPlayer THEN Idle ELSE [j EXCEPT !.at = "add"]

\* One round of the loop over the players, in the order of a Go map, which is
\* any: q is looked at as it is now, and Evaluate may end the process.
CompareNext(p, q) ==
    /\ alive /\ judge[p].at = "compare" /\ q \in judge[p].left
    /\ IF q \in inHand /\ HasCards(q)
       THEN \E result \in {Evaluate(AllCards(q))} :
                IF result = Panic
                THEN alive' = FALSE /\ UNCHANGED judge
                ELSE /\ judge' = [judge EXCEPT ![p] = Onward(KeepBetter(@, q, result.strength))]
                     /\ UNCHANGED alive
       ELSE judge' = [judge EXCEPT ![p] = Onward(Pass(@, q))] /\ UNCHANGED alive
    /\ UNCHANGED <<table, hand, inHand, chips, torn, reveals>>

\* Other judgements that are awarding when this one moves chips.
Tear(p) == torn' = (torn \/ \E q \in Player \ {p} : Awarding(q))

\* bestPlayer.Stack += Pot.
AddPot(p) ==
    /\ alive /\ judge[p].at = "add"
    /\ stack' = [stack EXCEPT ![judge[p].best] = @ + pot]
    /\ judge' = [judge EXCEPT ![p].at = "clear"]
    /\ Tear(p)
    /\ UNCHANGED <<table, hand, inHand, bet, currentBet, pot, reveals, alive>>

\* Mutant: the pot is not emptied.
KeepPot(p) ==
    /\ alive /\ judge[p].at = "clear"
    /\ judge' = [judge EXCEPT ![p] = Idle]
    /\ Tear(p)
    /\ UNCHANGED <<table, hand, inHand, chips, reveals, alive>>

ClearPot(p) ==
    /\ alive /\ judge[p].at = "clear"
    /\ pot' = 0
    /\ judge' = [judge EXCEPT ![p] = Idle]
    /\ Tear(p)
    /\ UNCHANGED <<table, hand, inHand, stack, bet, currentBet, reveals, alive>>

CheckAndDetermineWinner(p) ==
    \/ CheckAllRevealed(p)
    \/ \E q \in Player : CompareNext(p, q)
    \/ AddPot(p)
    \/ ClearPot(p)

Next ==
    \/ \E p \in Player : Check(p) \/ Call(p) \/ Fold(p) \/ \E amount \in Amounts : Raise(p, amount)
    \/ AskForCommunityCards
    \/ \E s \in 1 .. 3 : RevealTimesOut(s) \/ \E others \in SUBSET (1 .. 3) : RevealCommunityCards(s, others)
    \/ \E p \in Player : \E cards \in Claims : HandleHandReveal(p, cards)
    \/ \E p \in Player : CheckAndDetermineWinner(p)

Spec == Init /\ [][Next]_vars

-----------------------------------------------------------------------------
(* Properties. *)

Judgements ==
    [at : {"idle", "check", "compare", "add", "clear"}, left : SUBSET Player,
     best : Player \cup {NoPlayer}, strength : Int, short : BOOLEAN]

\* Pot, stacks and bets can go below zero: a refund after the award comes out of
\* an empty pot, and the next award takes it from the winner.
TypeOK ==
    /\ deal \in Deals
    /\ \A p \in Player : hand[p] \in {<<>>, Committed(p)}
    /\ board \in Seq(Range(deal.board)) /\ street \in 0 .. 3
    /\ pending \subseteq 1 .. street
    /\ inHand \subseteq Player
    /\ stack \in [Player -> Int] /\ bet \in [Player -> Int]
    /\ currentBet \in Nat /\ pot \in Int
    /\ judge \in [Player -> Judgements]
    /\ torn \in BOOLEAN /\ reveals \in Nat /\ alive \in BOOLEAN

\* What is left to be paid: the pot is there until it is cleared, after it has
\* been added to a stack.
PotLeft == IF \E p \in Player : judge[p].at = "clear" THEN 0 ELSE pot

\* As long as no chips move while a judgement is between adding the pot to a
\* stack and clearing it (main.go:1080-1082, where a second judgement pays the pot
\* again and a bet is lost), chips only go between the pot and players of the
\* hand, and the pot goes whole to one player, whoever reveals again, judges side
\* by side, folds or takes a refund.
Payout == INSTANCE PotPayout WITH pot <- PotLeft, Pot <- SumFunctionOnSet(Blinds, Player)

PotGoesToOne ==
    Payout!Init /\ [][torn' \/ Payout!Next]_<<inHand, stack, PotLeft>>

\* A judgement that is about to pay does so with everybody in the hand showing
\* the cards it was dealt and all community cards there.  Unless the last of them
\* came while it compared, so that somebody was passed over, nobody in the hand
\* could have made a stronger kind of hand than its winner by the rules of poker:
\* a player in the hand, or one who folded since it was looked at.  (Between hands
\* of one kind the code does not look at the cards.)
PotGoesToTheBest ==
    \A p \in Player : judge[p].at = "add" =>
        /\ \A q \in inHand : hand[q] = deal.hole[q]
        /\ Len(board) = 5 /\ Range(board) = Range(deal.board)
        /\ judge[p].best \in Player
        /\ judge[p].short \/ \A q \in inHand :
              BestKind(deal.hole[q] \o board) <= BestKind(deal.hole[judge[p].best] \o board)

\* The streets in the order s, in which their keys may come.
Orders == {s \in [1 .. 3 -> 1 .. 3] : \A i, j \in 1 .. 3 : i # j => s[i] # s[j]}
FullBoard(d, s) ==
    At(d, StreetCards[s[1]]) \o At(d, StreetCards[s[2]]) \o At(d, StreetCards[s[3]])

\* The best five, unless the first five are nothing.
AgreesOn(cards) ==
    LET result == Evaluate(cards)
        first == Evaluate5CardHand(SubSeq(cards, 1, 5))
    IN  IF first.strength = HighCard THEN result = Panic ELSE IsBest(result, cards)

\* Evaluate finds the best five of the seven cards each player can make a hand
\* of, although it compares hands of one kind card by card from the highest and
\* not group by group; unless it panics, which it does just when the first five
\* make no pair or better.  The order of the streets decides what is looked at
\* first.  (A fact of the deals: it is enough to look before anything has happened.)
EvaluationAgrees ==
    street = 0 /\ inHand = Player /\ bet = Blinds /\ reveals = 0
        => \A d \in Deals, p \in Player, s \in Orders : AgreesOn(d.hole[p] \o FullBoard(d, s))

\* "returns the best 5-card hand" (eval.go): the host does not die of comparing
\* a hand with one that is not there yet.
EvaluateReturns == alive
=============================================================================
