------------------------------ MODULE HandEval ------------------------------
(***************************************************************************)
(* Hand evaluation, pkg/game/eval.go: Evaluate and evaluate5CardHand with  *)
(* their helpers, beside the ranking of poker hands they are to agree with.*)
(* A deck may have fewer ranks than thirteen: the ace is the highest.      *)
(***************************************************************************)
EXTENDS Integers, Sequences, FiniteSets, SequencesExt

CONSTANTS Ace,     \* the highest rank; 14 in the code
          Suit     \* four in the code

ASSUME AceAssumption == Ace \in Nat /\ Ace >= 7

Card == [rank : 2 .. Ace, suit : Suit]

\* HandStrength.
HighCard == 0
OnePair == 1
TwoPair == 2
ThreeOfAKind == 3
Straight == 4
Flush == 5
FullHouse == 6
FourOfAKind == 7
StraightFlush == 8
RoyalFlush == 9

-----------------------------------------------------------------------------
(* evaluate5CardHand.  Of the cards of a hand their ranks are kept, in the   *)
(* order the code leaves them in.                                            *)

HighToLow(hand) ==
    LET ranks == [i \in 1 .. 5 |-> hand[i].rank]
    IN  [k \in 1 .. 5 |->
            CHOOSE r \in Range(ranks) :
                /\ Cardinality({i \in 1 .. 5 : ranks[i] > r}) < k
                /\ Cardinality({i \in 1 .. 5 : ranks[i] >= r}) >= k]

CheckFlush(hand) == \A i \in 2 .. 5 : hand[i].suit = hand[1].suit

IsAceLow(ranks) == ranks = <<Ace, 5, 4, 3, 2>>

CheckStraight(ranks) ==
    IsAceLow(ranks) \/ \A i \in 1 .. 4 : ranks[i] = ranks[i + 1] + 1

\* getRankCounts.
Count(ranks, r) == Cardinality({i \in 1 .. 5 : ranks[i] = r})

Evaluate5CardHand(hand) ==
    LET ranks == HighToLow(hand)
        isFlush == CheckFlush(hand)
        isStraight == CheckStraight(ranks)
        distinct == Range(ranks)
        sizes == {Count(ranks, r) : r \in distinct}
        strength ==
            CASE isStraight /\ isFlush ->
                    IF IsAceLow(ranks) \/ ranks[1] # Ace THEN StraightFlush
                                                         ELSE RoyalFlush
              [] 4 \in sizes -> FourOfAKind
              [] 3 \in sizes /\ 2 \in sizes -> FullHouse
              [] isFlush /\ ~isStraight -> Flush
              [] isStraight /\ ~isFlush -> Straight
              [] 3 \in sizes /\ 2 \notin sizes -> ThreeOfAKind
              [] Cardinality(distinct) = 3 /\ 3 \notin sizes -> TwoPair
              [] Cardinality(distinct) = 4 -> OnePair
              [] OTHER -> HighCard
    IN  [strength |-> strength,
         ranks |-> IF IsAceLow(ranks) THEN <<5, 4, 3, 2, Ace>> ELSE ranks]

-----------------------------------------------------------------------------
(* Evaluate. *)

\* Position by position, the first difference decides.
Higher(a, b) ==
    \E i \in 1 .. 5 : a[i] > b[i] /\ \A j \in 1 .. i - 1 : a[j] = b[j]

\* Five of seven places in their order: all but x and y.
AllBut(x, y) ==
    [i \in 1 .. 5 |-> IF i < x THEN i ELSE IF i + 1 < y THEN i + 1 ELSE i + 2]

Fives == UNION {{AllBut(x, y) : y \in x + 1 .. 7} : x \in 1 .. 6}

\* All of them in the order of generateCombinations: with a card before without it.
Before(c) == {d \in Fives : Higher(c, d)}
Combinations == [k \in 1 .. 21 |-> CHOOSE c \in Fives : Cardinality(Before(c)) = k - 1]

NoHand == [strength |-> HighCard, ranks |-> <<>>]
Panic == [strength |-> -1, ranks |-> <<>>]     \* index out of range

\* Mutant: the first hand of the best strength is kept.
KeepFirst(best, hand) ==
    IF best = Panic \/ best.strength > hand.strength THEN best
    ELSE IF hand.strength > best.strength THEN hand
    ELSE IF best = NoHand THEN Panic
    ELSE best

\* One round of the loop.  Hands of equal strength are compared card by card,
\* even when the best so far is the zero value, which has no cards.
Keep(best, hand) ==
    IF best = Panic \/ best.strength > hand.strength THEN best
    ELSE IF hand.strength > best.strength THEN hand
    ELSE IF best = NoHand THEN Panic
    ELSE IF Higher(hand.ranks, best.ranks) THEN hand ELSE best

Chosen(cards, c) == [i \in 1 .. 5 |-> cards[c[i]]]

Evaluate(cards) ==
    IF Len(cards) # 7 THEN NoHand
    ELSE FoldLeft(LAMBDA best, c : Keep(best, Evaluate5CardHand(Chosen(cards, c))),
                  NoHand, Combinations)

-----------------------------------------------------------------------------
(* The ranking of poker hands, by the groups of equal cards of a hand. *)

\* The ranks of a hand; the ace counts one after two to five.
Pips(hand) ==
    LET wheel == {hand[i].rank : i \in 1 .. 5} = {2, 3, 4, 5, Ace}
    IN  [i \in 1 .. 5 |-> IF wheel /\ hand[i].rank = Ace THEN 1 ELSE hand[i].rank]

\* Those that come once, twice and so on; five cards are never equal.
Groups(hand) ==
    LET pips == Pips(hand)
        times == [r \in Range(pips) |-> Count(pips, r)]
    IN  [n \in 1 .. 4 |-> {r \in Range(pips) : times[r] = n}]

\* Five different ranks in a row.
IsRun(singles) == \E low \in 1 .. Ace - 4 : singles = low .. low + 4

Kind(hand) ==
    LET groups == Groups(hand)
        run == IsRun(groups[1])
        suited == \A i, j \in 1 .. 5 : hand[i].suit = hand[j].suit
    IN  CASE run /\ suited ->
                IF groups[1] = Ace - 4 .. Ace THEN RoyalFlush ELSE StraightFlush
          [] groups[4] # {} -> FourOfAKind
          [] groups[3] # {} /\ groups[2] # {} -> FullHouse
          [] suited /\ ~run -> Flush
          [] run /\ ~suited -> Straight
          [] groups[3] # {} /\ groups[2] = {} -> ThreeOfAKind
          [] \E r, q \in groups[2] : r # q -> TwoPair
          [] groups[3] = {} /\ \E r \in groups[2] : groups[2] = {r} -> OnePair
          [] OTHER -> HighCard

\* A hand of a higher kind beats another; between hands of one kind the largest
\* groups they do not share decide, by the highest rank only one of them has.
Beats(a, b) ==
    \/ Kind(a) > Kind(b)
    \/ /\ Kind(a) = Kind(b)
       /\ LET A == Groups(a)
              B == Groups(b)
          IN  \E n \in 1 .. 4 :
                 /\ \A m \in n + 1 .. 4 : A[m] = B[m]
                 /\ \E r \in A[n] \ B[n] : \A q \in B[n] \ A[n] : q < r

\* What can be made of seven cards, and what kind of hand the best of it is.
Hands(cards) == {Chosen(cards, c) : c \in Fives}
BestKind(cards) == Max({Kind(hand) : hand \in Hands(cards)})

\* Evaluate returned five of the seven cards that no other five beat.
IsBest(result, cards) ==
    \E hand \in Hands(cards) :
        /\ result = Evaluate5CardHand(hand)
        /\ result.strength = Kind(hand)
        /\ \A other \in Hands(cards) : ~Beats(other, hand)
=============================================================================
