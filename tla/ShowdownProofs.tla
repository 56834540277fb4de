---------------------------- MODULE ShowdownProofs ----------------------------
(***************************************************************************)
(* The showdown, for every number of players, every deal and all chips.    *)
(*                                                                         *)
(* The proofs are about who may be paid and when, with every stream of a   *)
(* player at any statement of its own judgement.  With what HandEvalProofs *)
(* says of seven cards, the protocol around Evaluate, with streets out of  *)
(* order, late reveals and folds, pays the best hand or ends the process.  *)
(***************************************************************************)
EXTENDS Showdown, HandEvalProofs, FiniteSetFacts, SequenceTheorems, TLAPS

-----------------------------------------------------------------------------
(* The board. *)

\* Places on the board a street may fill.
LEMMA ReadablePlaces ==
    ASSUME NEW s \in 1 .. 3, NEW g \in Readable[s]
    PROVE  /\ g \in Seq(1 .. 5) /\ Len(g) <= IF s = 1 THEN 3 ELSE 1
           /\ Len(g) = (IF s = 1 THEN 3 ELSE 1) => g = StreetCards[s]
<1>1. CASE s = 1
  <2>1. g \in {<<1, 2, 3>>, <<1, 2>>, <<1, 3>>, <<2, 3>>, <<1>>, <<2>>, <<3>>, <<>>}
    BY <1>1 DEF Readable
  <2>2. StreetCards[s] = <<1, 2, 3>>
    BY <1>1 DEF StreetCards
  <2>3. CASE g = <<1, 2, 3>>
    BY <1>1, <2>2, <2>3
  <2>4. CASE g \in {<<1, 2>>, <<1, 3>>, <<2, 3>>}
    <3>1. g \in Seq(1 .. 5)
      <4>1. <<1, 2>> \in Seq(1 .. 5) /\ <<1, 3>> \in Seq(1 .. 5) /\ <<2, 3>> \in Seq(1 .. 5)
        OBVIOUS
      <4> QED  BY <2>4, <4>1
    <3>2. Len(g) = 2
      BY <2>4
    <3> QED  BY <1>1, <3>1, <3>2
  <2>5. CASE g \in {<<1>>, <<2>>, <<3>>, <<>>}
    <3>1. g \in Seq(1 .. 5)
      <4>1. /\ <<1>> \in Seq(1 .. 5) /\ <<2>> \in Seq(1 .. 5) /\ <<3>> \in Seq(1 .. 5)
            /\ <<>> \in Seq(1 .. 5)
        OBVIOUS
      <4> QED  BY <2>5, <4>1
    <3>2. Len(g) = 0 \/ Len(g) = 1
      BY <2>5
    <3>3. (IF s = 1 THEN 3 ELSE 1) = 3
      BY <1>1
    <3>4. Len(g) <= 3 /\ Len(g) # 3
      <4> DEFINE n == Len(g)
      <4>1. n = 0 \/ n = 1
        BY <3>2
      <4> HIDE DEF n
      <4>2. n <= 3 /\ n # 3
        BY <4>1
      <4> QED  BY <4>2 DEF n
    <3> QED  BY <3>1, <3>3, <3>4
  <2> QED  BY <2>1, <2>3, <2>4, <2>5
<1>2. CASE s \in {2, 3}
  <2>1. g \in {<<s + 2>>, <<>>} /\ StreetCards[s] = <<s + 2>>
    BY <1>2 DEF Readable, StreetCards
  <2>2. <<s + 2>> \in Seq(1 .. 5) /\ <<>> \in Seq(1 .. 5)
    BY <1>2
  <2>3. g \in Seq(1 .. 5)
    BY <2>1, <2>2
  <2>4. Len(g) = 0 \/ (Len(g) = 1 /\ g = <<s + 2>>)
    <3>1. CASE g = <<s + 2>>
      BY <3>1
    <3>2. CASE g = <<>>
      BY <3>2
    <3> QED  BY <2>1, <3>1, <3>2
  <2>5. (IF s = 1 THEN 3 ELSE 1) = 1
    BY <1>2
  <2>6. Len(g) <= 1 /\ (Len(g) = 1 => g = StreetCards[s])
    <3> DEFINE n == Len(g)
    <3>1. n = 0 \/ (n = 1 /\ g = StreetCards[s])
      BY <2>1, <2>4
    <3> HIDE DEF n
    <3>2. n <= 1 /\ (n = 1 => g = StreetCards[s])
      BY <3>1
    <3> QED  BY <3>2 DEF n
  <2> QED  BY <2>3, <2>5, <2>6
<1> QED  BY <1>1, <1>2

\* A street appends cards of the deal, as many as it has at most.
LEMMA StreetsAppendDealtCards ==
    ASSUME NEW s \in 1 .. 3, NEW g \in Readable[s], NEW d \in Deals,
           NEW b \in Seq(Range(d.board))
    PROVE  /\ At(d, g) \in Seq(Range(d.board)) /\ Len(At(d, g)) = Len(g)
           /\ b \o At(d, g) \in Seq(Range(d.board))
<1> DEFINE new == At(d, g)
<1>1. d.board \in [1 .. 5 -> Card]
  BY DealsAssumption
<1>2. \A k \in 1 .. 5 : d.board[k] \in Range(d.board)
  BY <1>1 DEF Range
<1>3. g \in Seq(1 .. 5)
  BY ReadablePlaces
<1>4. /\ Len(g) \in Nat /\ DOMAIN g = 1 .. Len(g)
      /\ \A i \in 1 .. Len(g) : g[i] \in 1 .. 5
  BY <1>3, LenProperties
<1>5. new \in [1 .. Len(g) -> Range(d.board)]
  BY <1>2, <1>4 DEF At
<1> HIDE DEF new
<1>6. new \in Seq(Range(d.board)) /\ Len(new) = Len(g)
  <2>1. new \in Seq(Range(d.board))
    BY <1>4, <1>5, SeqDef
  <2> QED  BY <1>4, <1>5, <2>1, LenProperties
<1>7. b \o new \in Seq(Range(d.board))
  BY <1>6, ConcatProperties
<1> QED  BY <1>6, <1>7 DEF new

\* Streets that are over, by their cards or by the timeout.
Shown == (1 .. street) \ pending

\* The boards of streets in this order.
TwoStreets(d, s, t) == {At(d, g) \o At(d, h) : g \in Readable[s], h \in Readable[t]}
ThreeStreets(d, s, t, u) == {b \o At(d, k) : b \in TwoStreets(d, s, t), k \in Readable[u]}

\* The board b is what could be read of streets of S, each once, in any order.
ReadFrom(d, b, S) ==
    \/ b = <<>>
    \/ \E s \in S : \E g \in Readable[s] : b = At(d, g)
    \/ \E s, t \in S : s # t /\ b \in TwoStreets(d, s, t)
    \/ \E s, t, u \in S : s # t /\ t # u /\ s # u /\ b \in ThreeStreets(d, s, t, u)

BoardInv == ReadFrom(deal, board, Shown)

LEMMA MoreStreetsMayBeShown ==
    ASSUME NEW d, NEW b, NEW S, NEW T, S \subseteq T, ReadFrom(d, b, S)
    PROVE  ReadFrom(d, b, T)
  BY DEF ReadFrom

LEMMA StepKeepsBoard ==
    TypeOK /\ BoardInv /\ [Next]_vars => BoardInv'
<1> SUFFICES ASSUME TypeOK, BoardInv, [Next]_vars
             PROVE  BoardInv'
  OBVIOUS
<1>1. ASSUME UNCHANGED <<deal, board>>, Shown \subseteq Shown'
      PROVE  BoardInv'
  BY <1>1, MoreStreetsMayBeShown DEF BoardInv
<1>2. ASSUME UNCHANGED table
      PROVE  BoardInv'
  BY <1>1, <1>2 DEF Shown, table
<1>3. CASE AskForCommunityCards
  <2>1. /\ UNCHANGED <<deal, board>> /\ street' = street + 1
        /\ pending' = pending \cup {street + 1} /\ street \in 0 .. 3
    BY <1>3 DEF AskForCommunityCards, TypeOK
  <2>2. Shown \subseteq Shown'
    BY <2>1 DEF Shown
  <2> QED  BY <1>1, <2>1, <2>2
<1>4. ASSUME NEW s \in 1 .. 3, RevealTimesOut(s)
      PROVE  BoardInv'
  <2>1. UNCHANGED <<deal, board>> /\ Shown \subseteq Shown'
    BY <1>4 DEF RevealTimesOut, Shown
  <2> QED  BY <1>1, <2>1
<1>5. ASSUME NEW s \in 1 .. 3, NEW others \in SUBSET (1 .. 3), RevealCommunityCards(s, others)
      PROVE  BoardInv'
  <2>1. /\ s \notin Shown /\ s \in Shown' /\ Shown \subseteq Shown'
        /\ Shown \subseteq 1 .. 3 /\ deal' = deal
    BY <1>5 DEF RevealCommunityCards, Shown, TypeOK
  <2>2. PICK k \in Readable[s] : board' = board \o At(deal, k)
    BY <1>5 DEF RevealCommunityCards
  <2>3. CASE board = <<>>
    <3>1. <<>> \in Seq(Range(deal.board)) /\ deal \in Deals
      BY DEF TypeOK
    <3>2. At(deal, k) \in Seq(Range(deal.board))
      BY <3>1, StreetsAppendDealtCards
    <3>3. board' = At(deal', k)
      BY <2>1, <2>2, <2>3, <3>2
    <3> QED  BY <2>1, <3>3 DEF BoardInv, ReadFrom
  <2>4. ASSUME NEW t \in Shown, NEW g \in Readable[t], board = At(deal, g)
        PROVE  BoardInv'
    <3>1. t \in Shown' /\ t # s /\ board' = At(deal', g) \o At(deal', k)
      BY <2>1, <2>2, <2>4
    <3>2. board' \in TwoStreets(deal', t, s)
      BY <3>1 DEF TwoStreets
    <3> QED  BY <2>1, <3>1, <3>2 DEF BoardInv, ReadFrom
  <2>5. ASSUME NEW t \in Shown, NEW u \in Shown, t # u, board \in TwoStreets(deal, t, u)
        PROVE  BoardInv'
    <3>1. board' = board \o At(deal', k) /\ board \in TwoStreets(deal', t, u)
      BY <2>1, <2>2, <2>5
    <3>2. board' \in ThreeStreets(deal', t, u, s)
      BY <3>1 DEF ThreeStreets
    <3>3. t \in Shown' /\ u \in Shown' /\ t # u /\ u # s /\ t # s
      BY <2>1, <2>5
    <3> QED  BY <2>1, <3>2, <3>3 DEF BoardInv, ReadFrom
  <2>6. ~ \E t, u, v \in Shown : t # u /\ u # v /\ t # v
    BY <2>1
  <2> QED  BY <2>3, <2>4, <2>5, <2>6 DEF BoardInv, ReadFrom
<1>6. ASSUME NEW p \in Player, Check(p) \/ Call(p) \/ Fold(p) \/ \E amount \in Amounts : Raise(p, amount)
      PROVE  BoardInv'
  <2>1. UNCHANGED table
    BY <1>6 DEF Check, Call, Fold, Raise
  <2> QED  BY <1>2, <2>1
<1>7. ASSUME NEW p \in Player, CheckAndDetermineWinner(p) \/ \E cards \in Claims : HandleHandReveal(p, cards)
      PROVE  BoardInv'
  <2>1. UNCHANGED table
    BY <1>7 DEF CheckAndDetermineWinner, CheckAllRevealed, CompareNext, AddPot, ClearPot, HandleHandReveal
  <2> QED  BY <1>2, <2>1
<1>8. CASE UNCHANGED vars
  BY <1>2, <1>8 DEF vars
<1> QED
  BY <1>3, <1>4, <1>5, <1>6, <1>7, <1>8 DEF Next

\* A board of five cards is that of the deal.
LEMMA FiveCardsAreAll ==
    ASSUME TypeOK, BoardInv, Len(board) >= 5
    PROVE  /\ \E o \in Orders : board = FullBoard(deal, o)
           /\ Len(board) = 5 /\ Range(board) = Range(deal.board)
           /\ pending = {}
<1> DEFINE L(s) == IF s = 1 THEN 3 ELSE 1
<1>1. Shown \subseteq 1 .. 3 /\ deal \in Deals
  BY DEF Shown, TypeOK
<1>2. ASSUME NEW s \in Shown, NEW g \in Readable[s]
      PROVE  /\ At(deal, g) \in Seq(Range(deal.board))
             /\ Len(At(deal, g)) \in Nat /\ Len(At(deal, g)) <= L(s)
             /\ Len(At(deal, g)) = L(s) => g = StreetCards[s]
  <2>1. <<>> \in Seq(Range(deal.board)) /\ s \in 1 .. 3
    BY <1>1
  <2>2. At(deal, g) \in Seq(Range(deal.board)) /\ Len(At(deal, g)) = Len(g)
    BY <1>1, <2>1, StreetsAppendDealtCards
  <2>3. /\ g \in Seq(1 .. 5) /\ Len(g) <= L(s)
        /\ Len(g) = L(s) => g = StreetCards[s]
    BY <2>1, ReadablePlaces
  <2> QED  BY <2>2, <2>3, LenProperties
<1>3a. PICK s \in Shown, t \in Shown, u \in Shown :
           s # t /\ t # u /\ s # u /\ board \in ThreeStreets(deal, s, t, u)
  <2>1. board # <<>>
    OBVIOUS
  <2>2. ASSUME NEW s \in Shown, NEW g \in Readable[s], board = At(deal, g)
        PROVE  FALSE
    <3>1. Len(board) <= L(s) /\ Len(board) \in Nat
      BY <1>2, <2>2
    <3> QED  BY <3>1
  <2>3. ASSUME NEW s \in Shown, NEW t \in Shown, s # t, board \in TwoStreets(deal, s, t)
        PROVE  FALSE
    <3>4. PICK g \in Readable[s], h \in Readable[t] : board = At(deal, g) \o At(deal, h)
      BY <2>3 DEF TwoStreets
    <3> DEFINE a == At(deal, g)
               b == At(deal, h)
               C == Range(deal.board)
    <3>1. /\ a \in Seq(C) /\ Len(a) \in Nat /\ Len(a) <= L(s)
          /\ b \in Seq(C) /\ Len(b) \in Nat /\ Len(b) <= L(t)
          /\ board = a \o b
      BY <1>2, <3>4
    <3> HIDE DEF a, b, C
    <3>2. \A x, y \in Seq(C) : Len(x \o y) = Len(x) + Len(y)
      BY ConcatProperties
    <3>3. Len(board) = Len(a) + Len(b)
      BY <3>1, <3>2
    <3> QED  BY <1>1, <2>3, <3>1, <3>3
  <2> QED  BY <2>1, <2>2, <2>3 DEF BoardInv, ReadFrom
<1>3. PICK g \in Readable[s], h \in Readable[t], k \in Readable[u] :
          /\ s # t /\ t # u /\ s # u
          /\ board = At(deal, g) \o At(deal, h) \o At(deal, k)
  <2>1. \E g \in Readable[s], h \in Readable[t], k \in Readable[u] :
            board = At(deal, g) \o At(deal, h) \o At(deal, k)
    <3>1. PICK x \in TwoStreets(deal, s, t), k \in Readable[u] : board = x \o At(deal, k)
      BY <1>3a DEF ThreeStreets
    <3>2. PICK g \in Readable[s], h \in Readable[t] : x = At(deal, g) \o At(deal, h)
      BY DEF TwoStreets
    <3> QED  BY <3>1, <3>2
  <2> QED  BY <1>3a, <2>1
<1> DEFINE a == At(deal, g)
           b == At(deal, h)
           c == At(deal, k)
           C == Range(deal.board)
<1>4. /\ a \in Seq(C) /\ Len(a) \in Nat /\ Len(a) <= L(s)
      /\ b \in Seq(C) /\ Len(b) \in Nat /\ Len(b) <= L(t)
      /\ c \in Seq(C) /\ Len(c) \in Nat /\ Len(c) <= L(u)
      /\ board = a \o b \o c
  BY <1>2, <1>3
<1>5. Len(board) = Len(a) + Len(b) + Len(c)
  <2> HIDE DEF a, b, c, C
  <2>1. \A x, y \in Seq(C) : x \o y \in Seq(C) /\ Len(x \o y) = Len(x) + Len(y)
    BY ConcatProperties
  <2>2. a \o b \in Seq(C) /\ Len(a \o b) = Len(a) + Len(b)
    BY <1>4, <2>1
  <2>3. Len(board) = Len(a \o b) + Len(c)
    BY <1>4, <2>1, <2>2
  <2> QED  BY <2>2, <2>3
<1>6. /\ Len(board) = 5
      /\ a = At(deal, StreetCards[s]) /\ b = At(deal, StreetCards[t])
      /\ c = At(deal, StreetCards[u])
  <2>1. Len(a) = L(s) /\ Len(b) = L(t) /\ Len(c) = L(u) /\ Len(board) = 5
    <3>1. /\ s \in 1 .. 3 /\ t \in 1 .. 3 /\ u \in 1 .. 3
          /\ s # t /\ t # u /\ s # u
      BY <1>1, <1>3
    <3> HIDE DEF a, b, c, C, L
    <3>2. L(s) + L(t) + L(u) = 5 /\ L(s) \in Nat /\ L(t) \in Nat /\ L(u) \in Nat
      BY <3>1 DEF L
    <3> QED  BY <1>4, <1>5, <3>2
  <2>2. g = StreetCards[s] /\ h = StreetCards[t] /\ k = StreetCards[u]
    BY <1>2, <2>1
  <2> QED  BY <2>1, <2>2
<1> DEFINE o == [i \in 1 .. 3 |-> IF i = 1 THEN s ELSE IF i = 2 THEN t ELSE u]
<1>11. o \in Orders /\ board = FullBoard(deal, o)
  <2>1. o \in Orders
    BY <1>1, <1>3 DEF Orders
  <2>2. o[1] = s /\ o[2] = t /\ o[3] = u
    OBVIOUS
  <2> HIDE DEF o, a, b, c
  <2> QED  BY <1>4, <1>6, <2>1, <2>2 DEF FullBoard
<1>7. Range(board) \subseteq Range(deal.board)
  <2>1. board \in Seq(Range(deal.board))
    BY DEF TypeOK
  <2> QED  BY <2>1 DEF Range
<1>8. ASSUME NEW x \in Range(a) \cup Range(b) \cup Range(c)
      PROVE  x \in Range(board)
  <2> HIDE DEF a, b, c, o, L, C
  <2>1. CASE x \in Range(a)
    <3>1. PICK i \in 1 .. Len(a) : x = a[i]
      BY <1>4, <2>1, LenProperties DEF Range
    <3>2. i \in DOMAIN board /\ board[i] = x
      BY <1>4, <3>1
    <3> QED  BY <3>2 DEF Range
  <2>2. CASE x \in Range(b)
    <3>1. PICK i \in 1 .. Len(b) : x = b[i]
      BY <1>4, <2>2, LenProperties DEF Range
    <3>2. Len(a) + i \in DOMAIN board /\ board[Len(a) + i] = x
      BY <1>4, <3>1
    <3> QED  BY <3>2 DEF Range
  <2>3. CASE x \in Range(c)
    <3>1. PICK i \in 1 .. Len(c) : x = c[i]
      BY <1>4, <2>3, LenProperties DEF Range
    <3>2. Len(a \o b) + i \in DOMAIN board /\ board[Len(a \o b) + i] = x
      BY <1>4, <3>1
    <3> QED  BY <3>2 DEF Range
  <2> QED  BY <2>1, <2>2, <2>3
<1>9. \A i \in 1 .. 5 : deal.board[i] \in Range(a) \cup Range(b) \cup Range(c)
  <2>1. {s, t, u} = 1 .. 3
    BY <1>1, <1>3
  <2>2. /\ \A i \in 1 .. 3 : deal.board[i] \in Range(At(deal, StreetCards[1]))
        /\ deal.board[4] \in Range(At(deal, StreetCards[2]))
        /\ deal.board[5] \in Range(At(deal, StreetCards[3]))
    BY DEF At, StreetCards, Range
  <2> HIDE DEF a, b, c
  <2>3. \A n \in 1 .. 3 :
            Range(At(deal, StreetCards[n])) \subseteq Range(a) \cup Range(b) \cup Range(c)
    BY <1>6, <2>1
  <2>4. \A i \in 1 .. 5 : i \in 1 .. 3 \/ i = 4 \/ i = 5
    OBVIOUS
  <2> QED  BY <2>2, <2>3, <2>4
<1>10. Range(deal.board) \subseteq Range(board)
  <2>1. DOMAIN deal.board = 1 .. 5
    BY <1>1, DealsAssumption
  <2> HIDE DEF a, b, c
  <2> QED  BY <1>8, <1>9, <2>1 DEF Range
<1>12. pending = {}
  <2>1. {s, t, u} = 1 .. 3 /\ {s, t, u} \subseteq Shown
    BY <1>1, <1>3
  <2>2. pending \subseteq 1 .. 3
    BY DEF TypeOK
  <2> QED  BY <2>1, <2>2 DEF Shown
<1> QED  BY <1>6, <1>7, <1>10, <1>11, <1>12

-----------------------------------------------------------------------------
(* What Evaluate is asked. *)

LEMMA RangeOfConcat ==
    ASSUME NEW S, NEW x \in Seq(S), NEW y \in Seq(S)
    PROVE  Range(x \o y) = Range(x) \cup Range(y)
<1> DEFINE m == Len(x)
           n == Len(y)
           z == x \o y
<1>1. /\ DOMAIN x = 1 .. m /\ m \in Nat /\ DOMAIN y = 1 .. n /\ n \in Nat
  BY LenProperties
<1>2. /\ z \in Seq(S) /\ Len(z) = m + n
      /\ \A i \in 1 .. m + n : z[i] = IF i <= m THEN x[i] ELSE y[i - m]
  BY ConcatProperties
<1>3. DOMAIN z = 1 .. m + n
  BY <1>2, LenProperties
<1> HIDE DEF m, n, z
<1>4. \A i \in 1 .. m : i \in 1 .. m + n /\ z[i] = x[i]
  BY <1>1, <1>2
<1>5. \A i \in 1 .. n : m + i \in 1 .. m + n /\ z[m + i] = y[i]
  BY <1>1, <1>2
<1>6. \A i \in 1 .. m + n : (i \in 1 .. m /\ z[i] = x[i])
                                \/ (i - m \in 1 .. n /\ z[i] = y[i - m])
  BY <1>1, <1>2
<1>7. Range(z) \subseteq Range(x) \cup Range(y)
  BY <1>1, <1>3, <1>6 DEF Range
<1>8. Range(x) \subseteq Range(z)
  BY <1>1, <1>3, <1>4 DEF Range
<1>9. Range(y) \subseteq Range(z)
  BY <1>1, <1>3, <1>5 DEF Range
<1> QED  BY <1>7, <1>8, <1>9 DEF z

\* Streets in whatever order make a board of the five cards of the deal.
LEMMA FullBoardsAreBoards ==
    ASSUME NEW d \in Deals, NEW s \in Orders
    PROVE  /\ FullBoard(d, s) \in Seq(Card) /\ Len(FullBoard(d, s)) = 5
           /\ Range(FullBoard(d, s)) = Range(d.board)
<1> DEFINE C == Range(d.board)
           L(k) == IF k = 1 THEN 3 ELSE 1
           a == At(d, StreetCards[s[1]])
           b == At(d, StreetCards[s[2]])
           c == At(d, StreetCards[s[3]])
<1>1. s[1] \in 1 .. 3 /\ s[2] \in 1 .. 3 /\ s[3] \in 1 .. 3
      /\ s[1] # s[2] /\ s[1] # s[3] /\ s[2] # s[3]
  BY DEF Orders
<1>2. d.board \in [1 .. 5 -> Card]
  BY DealsAssumption
<1>3. ASSUME NEW k \in 1 .. 3
      PROVE  At(d, StreetCards[k]) \in Seq(C) /\ Len(At(d, StreetCards[k])) = L(k)
  <2>1. /\ StreetCards[1] = <<1, 2, 3>> /\ StreetCards[2] = <<4>> /\ StreetCards[3] = <<5>>
    BY DEF StreetCards
  <2>2. StreetCards[k] \in Readable[k]
    <3>1. /\ Readable[1] = {<<1, 2, 3>>, <<1, 2>>, <<1, 3>>, <<2, 3>>, <<1>>, <<2>>, <<3>>, <<>>}
          /\ Readable[2] = {<<4>>, <<>>} /\ Readable[3] = {<<5>>, <<>>}
      BY DEF Readable
    <3>2. StreetCards[1] \in Readable[1] /\ StreetCards[2] \in Readable[2]
          /\ StreetCards[3] \in Readable[3]
      BY <2>1, <3>1
    <3> QED  BY <3>2
  <2>3. <<>> \in Seq(C)
    OBVIOUS
  <2>4. At(d, StreetCards[k]) \in Seq(C)
        /\ Len(At(d, StreetCards[k])) = Len(StreetCards[k])
    BY <2>2, <2>3, StreetsAppendDealtCards
  <2>5. Len(StreetCards[1]) = 3 /\ Len(StreetCards[2]) = 1 /\ Len(StreetCards[3]) = 1
    BY <2>1
  <2>6. k = 1 \/ k = 2 \/ k = 3
    OBVIOUS
  <2> QED  BY <2>4, <2>5, <2>6
<1>4. a \in Seq(C) /\ b \in Seq(C) /\ c \in Seq(C)
      /\ Len(a) = L(s[1]) /\ Len(b) = L(s[2]) /\ Len(c) = L(s[3])
  BY <1>1, <1>3
<1>5. C = Range(a) \cup Range(b) \cup Range(c)
  <2>1. {s[1], s[2], s[3]} = 1 .. 3
    BY <1>1
  <2>2. C = {d.board[1], d.board[2], d.board[3], d.board[4], d.board[5]}
    <3>1. \A i \in 1 .. 5 : i = 1 \/ i = 2 \/ i = 3 \/ i = 4 \/ i = 5
      OBVIOUS
    <3> QED  BY <1>2, <3>1 DEF Range
  <2>3. /\ Range(At(d, StreetCards[1])) = {d.board[1], d.board[2], d.board[3]}
        /\ Range(At(d, StreetCards[2])) = {d.board[4]}
        /\ Range(At(d, StreetCards[3])) = {d.board[5]}
    <3>1. StreetCards[1] = <<1, 2, 3>> /\ StreetCards[2] = <<4>> /\ StreetCards[3] = <<5>>
      BY DEF StreetCards
    <3>2. \A i \in 1 .. 3 : i = 1 \/ i = 2 \/ i = 3
      OBVIOUS
    <3>3. Range(At(d, <<1, 2, 3>>)) = {d.board[1], d.board[2], d.board[3]}
      BY <3>2 DEF At, Range
    <3>4. Range(At(d, <<4>>)) = {d.board[4]} /\ Range(At(d, <<5>>)) = {d.board[5]}
      BY DEF At, Range
    <3> QED  BY <3>1, <3>3, <3>4
  <2> DEFINE ran(k) == Range(At(d, StreetCards[k]))
  <2>4. Range(a) = ran(s[1]) /\ Range(b) = ran(s[2]) /\ Range(c) = ran(s[3])
    OBVIOUS
  <2>5. C = ran(1) \cup ran(2) \cup ran(3)
    BY <2>2, <2>3
  <2> HIDE DEF ran, a, b, c, C
  <2>6. ran(s[1]) \cup ran(s[2]) \cup ran(s[3]) = ran(1) \cup ran(2) \cup ran(3)
    BY <1>1
  <2> QED  BY <2>4, <2>5, <2>6
<1>6. FullBoard(d, s) = a \o b \o c
  BY DEF FullBoard
<1>7. L(s[1]) + L(s[2]) + L(s[3]) = 5 /\ L(s[1]) \in Nat /\ L(s[2]) \in Nat /\ L(s[3]) \in Nat
  BY <1>1
<1> HIDE DEF a, b, c, C, L
<1>8. a \o b \in Seq(C) /\ Len(a \o b) = Len(a) + Len(b)
      /\ Range(a \o b) = Range(a) \cup Range(b)
  BY <1>4, ConcatProperties, RangeOfConcat
<1>9. a \o b \o c \in Seq(C) /\ Len(a \o b \o c) = Len(a \o b) + Len(c)
      /\ Range(a \o b \o c) = Range(a \o b) \cup Range(c)
  <2>1. \A x, y \in Seq(C) : x \o y \in Seq(C) /\ Len(x \o y) = Len(x) + Len(y)
                             /\ Range(x \o y) = Range(x) \cup Range(y)
    BY ConcatProperties, RangeOfConcat
  <2> DEFINE ab == a \o b
  <2>2. ab \in Seq(C)
    BY <1>8
  <2> HIDE DEF ab
  <2>3. ab \o c \in Seq(C) /\ Len(ab \o c) = Len(ab) + Len(c)
        /\ Range(ab \o c) = Range(ab) \cup Range(c)
    BY <1>4, <2>1, <2>2
  <2> QED  BY <2>3 DEF ab
<1>10. Len(a \o b \o c) = 5
  BY <1>4, <1>7, <1>8, <1>9
<1>11. Range(a \o b \o c) = C
  BY <1>5, <1>8, <1>9
<1>12. a \o b \o c \in Seq(Card)
  <2>1. C \subseteq Card
    BY <1>2 DEF C, Range
  <2> QED  BY <1>9, <2>1
<1> QED  BY <1>6, <1>10, <1>11, <1>12 DEF C

LEMMA TupleIsSeq ==
    ASSUME NEW n \in Nat, NEW f \in [1 .. n -> Card]
    PROVE  f \in Seq(Card) /\ Len(f) = n
<1>1. f \in Seq(Card)
  BY SeqDef
<1> QED  BY <1>1, LenProperties

\* Two cards of a player and a board of the deal are seven different cards.
LEMMA SevenToChooseFrom ==
    ASSUME NEW d \in Deals, NEW p \in Player, NEW b \in Seq(Card),
           Len(b) = 5, Range(b) = Range(d.board)
    PROVE  d.hole[p] \o b \in Seven /\ Len(d.hole[p] \o b) = 7
<1> DEFINE h == d.hole[p]
           D == d.board
           R == Range(D)
<1>1. h \in [1 .. 2 -> Card] /\ D \in [1 .. 5 -> Card]
  BY DealsAssumption
<1> HIDE DEF h, D
<1>2. h \in Seq(Card) /\ Len(h) = 2 /\ D \in Seq(Card) /\ Len(D) = 5
  BY <1>1, TupleIsSeq
<1>3. IsInjective(h \o D)
  BY DifferentCards DEF h, D
<1>4. \A y \in Seq(Card) : Len(y) = 5 =>
          /\ h \o y \in Seq(Card) /\ Len(h \o y) = 7
          /\ \A i \in 1 .. 7 : (h \o y)[i] = IF i <= 2 THEN h[i] ELSE y[i - 2]
  <2> SUFFICES ASSUME NEW y \in Seq(Card), Len(y) = 5
               PROVE  /\ h \o y \in Seq(Card) /\ Len(h \o y) = 7
                      /\ \A i \in 1 .. 7 : (h \o y)[i] = IF i <= 2 THEN h[i] ELSE y[i - 2]
    OBVIOUS
  <2>1. /\ h \o y \in Seq(Card)
        /\ Len(h \o y) = Len(h) + Len(y)
        /\ \A i \in 1 .. Len(h) + Len(y) : (h \o y)[i] =
               IF i <= Len(h) THEN h[i] ELSE y[i - Len(h)]
    BY <1>2, ConcatProperties
  <2>2. Len(h) + Len(y) = 7
    BY <1>2
  <2> QED  BY <1>2, <2>1, <2>2
<1>5. \A y \in Seq(Card) : Len(y) = 5 => DOMAIN (h \o y) = 1 .. 7
  BY <1>4, LenProperties
<1>6. \A i, j \in 1 .. 7 : (h \o D)[i] = (h \o D)[j] => i = j
  BY <1>2, <1>3, <1>5 DEF IsInjective
<1>7. /\ (h \o D)[1] = h[1] /\ (h \o D)[2] = h[2]
      /\ \A i \in 1 .. 5 : i + 2 \in 1 .. 7 /\ (h \o D)[i + 2] = D[i]
  BY <1>2, <1>4
<1>8. h[1] # h[2] /\ \A i \in 1 .. 5 : D[i] # h[1] /\ D[i] # h[2]
  <2>1. 1 \in 1 .. 7 /\ 2 \in 1 .. 7
    OBVIOUS
  <2>2. h[1] # h[2]
    <3> DEFINE z == h \o D
    <3>1. \A i, j \in 1 .. 7 : z[i] = z[j] => i = j
      BY <1>6
    <3>2. z[1] = h[1] /\ z[2] = h[2]
      BY <1>7
    <3> HIDE DEF z
    <3>3. z[1] = z[2] => 1 = 2
      BY <2>1, <3>1, Zenon
    <3> QED  BY <3>2, <3>3
  <2>3. ASSUME NEW i \in 1 .. 5 PROVE D[i] # h[1] /\ D[i] # h[2]
    <3>1. PICK k \in 1 .. 7 : k = i + 2 /\ (h \o D)[k] = D[i]
      BY <1>7
    <3>2. k # 1 /\ k # 2
      BY <3>1
    <3> QED  BY <1>6, <1>7, <2>1, <3>1, <3>2
  <2> QED  BY <2>2, <2>3
<1>9. \A i, j \in 1 .. 5 : D[i] = D[j] => i = j
  <2> SUFFICES ASSUME NEW i \in 1 .. 5, NEW j \in 1 .. 5, D[i] = D[j] PROVE i = j
    OBVIOUS
  <2>1. PICK k \in 1 .. 7 : k = i + 2 /\ (h \o D)[k] = D[i]
    BY <1>7
  <2>2. PICK l \in 1 .. 7 : l = j + 2 /\ (h \o D)[l] = D[j]
    BY <1>7
  <2>3. k = l
    BY <1>6, <2>1, <2>2
  <2> QED  BY <2>1, <2>2, <2>3
<1>10. b \in [1 .. 5 -> R]
  <2>1. b \in [1 .. 5 -> Card] /\ DOMAIN b = 1 .. 5
    BY LenProperties
  <2>2. \A i \in 1 .. 5 : b[i] \in R
    BY <2>1 DEF Range, D
  <2> QED  BY <2>1, <2>2
<1>11. \A x \in R : \E i \in 1 .. 5 : b[i] = x
  BY <1>10 DEF Range, D
<1>12. D \in [1 .. 5 -> R] /\ \A x \in R : \E i \in 1 .. 5 : D[i] = x
  BY <1>1 DEF Range
<1>13. \A i, j \in 1 .. 5 : b[i] = b[j] => i = j
  <2> HIDE DEF R
  <2>1. ExistsBijection(1 .. 5, R)
    BY <1>9, <1>12 DEF ExistsBijection, Bijection, Injection, Surjection, IsInjective
  <2>2. Cardinality(1 .. 5) = Cardinality(R)
    BY <2>1, FivePlaces, FS_Bijection
  <2>3. b \in Surjection(1 .. 5, R)
    BY <1>10, <1>11 DEF Surjection
  <2>4. b \in Injection(1 .. 5, R)
    BY <2>2, <2>3, FivePlaces, FS_SurjSameCardinalityImpliesInj
  <2> QED  BY <1>10, <2>4 DEF Injection, IsInjective
<1>14. \A i \in 1 .. 5 : b[i] # h[1] /\ b[i] # h[2]
  BY <1>8, <1>10, <1>12
<1> DEFINE cards == h \o b
<1>15. /\ cards \in Seq(Card) /\ Len(cards) = 7
       /\ \A i \in 1 .. 7 : cards[i] = IF i <= 2 THEN h[i] ELSE b[i - 2]
  BY <1>4
<1> HIDE DEF cards
<1>16. cards \in [1 .. 7 -> Card]
  BY <1>15, LenProperties
<1>17. ASSUME NEW i \in 1 .. 7, NEW j \in 1 .. 7, i # j PROVE cards[i] # cards[j]
  <2>1. \A k \in 1 .. 7 : /\ k <= 2 => (k = 1 /\ cards[k] = h[1]) \/ (k = 2 /\ cards[k] = h[2])
                          /\ k > 2 => k - 2 \in 1 .. 5 /\ cards[k] = b[k - 2]
    BY <1>15
  <2>2. CASE i <= 2 /\ j <= 2
    BY <1>8, <1>17, <2>1, <2>2
  <2>3. CASE i <= 2 /\ j > 2
    BY <1>14, <2>1, <2>3
  <2>4. CASE i > 2 /\ j <= 2
    BY <1>14, <2>1, <2>4
  <2>5. CASE i > 2 /\ j > 2
    <3>1. i - 2 \in 1 .. 5 /\ j - 2 \in 1 .. 5 /\ i - 2 # j - 2
      BY <1>17, <2>5
    <3>2. b[i - 2] # b[j - 2]
      BY <1>13, <3>1
    <3> QED  BY <2>1, <2>5, <3>2
  <2> QED  BY <2>2, <2>3, <2>4, <2>5
<1>18. cards \in Seven
  BY <1>15, <1>16, <1>17 DEF Seven
<1> QED  BY <1>15, <1>18 DEF cards, h

LEMMA AgreesOnSeven ==
    ASSUME NEW cards \in Seven, Len(cards) = 7
    PROVE  /\ AgreesOn(cards)
           /\ Evaluate(cards) = Panic
                 <=> Evaluate5CardHand(SubSeq(cards, 1, 5)).strength = HighCard
           /\ Evaluate(cards) # Panic => Evaluate(cards).strength = BestKind(cards)
<1> DEFINE five == [i \in 1 .. 5 |-> cards[i]]
<1>1. SubSeq(cards, 1, 5) = five
  <2>1. \A i \in 1 .. 5 : cards[i] \in Card
    BY DEF Seven
  <2>2. /\ SubSeq(cards, 1, 5) \in Seq(Card) /\ Len(SubSeq(cards, 1, 5)) = 5
        /\ \A i \in 1 .. 5 : SubSeq(cards, 1, 5)[i] = cards[i]
    <3>1. /\ SubSeq(cards, 1, 5) \in Seq(Card)
          /\ Len(SubSeq(cards, 1, 5)) = IF 1 <= 5 THEN 5 - 1 + 1 ELSE 0
          /\ \A i \in 1 .. 5 - 1 + 1 : SubSeq(cards, 1, 5)[i] = cards[1 + i - 1]
      BY <2>1, SubSeqProperties
    <3>2. \A i \in 1 .. 5 : i \in 1 .. 5 - 1 + 1 /\ 1 + i - 1 = i
      OBVIOUS
    <3> QED  BY <3>1, <3>2
  <2>3. SubSeq(cards, 1, 5) \in [1 .. 5 -> Card]
    BY <2>2, LenProperties
  <2> QED  BY <2>2, <2>3
<1> HIDE DEF five
<1>2. IF Evaluate5CardHand(five).strength = HighCard
      THEN Evaluate(cards) = Panic
      ELSE /\ IsBest(Evaluate(cards), cards)
           /\ Evaluate(cards).strength = BestKind(cards)
           /\ Evaluate(cards) # Panic
  BY EvaluateFindsTheBest DEF five
<1> QED  BY <1>1, <1>2 DEF AgreesOn

-----------------------------------------------------------------------------
(* Judgements. *)

\* The first five of the seven cards of a player make no pair or better.
FirstFiveAreNothing(p) ==
    Evaluate5CardHand(SubSeq(deal.hole[p] \o board, 1, 5)).strength = HighCard

\* The best kind of hand a player can make.
Strongest(p) == BestKind(deal.hole[p] \o board)

\* Whoever the loop of j has been at and is still in the hand was passed over, or
\* made something no stronger than what it keeps.
Looked(j) ==
    \A q \in inHand \ j.left :
        j.short \/ /\ j.best # NoPlayer /\ Strongest(q) <= j.strength
                   /\ ~FirstFiveAreNothing(q)

JudgeOK(j) ==
    /\ j.at \in {"compare", "add", "clear"} => \A q \in inHand : hand[q] = deal.hole[q]
    /\ j.at = "add" => j.left = {} /\ j.best # NoPlayer
    /\ j.best # NoPlayer => Len(board) = 5 /\ j.strength = Strongest(j.best)
    /\ j.at \in {"compare", "add"} => Looked(j)

JudgeInv == \A p \in Player : JudgeOK(judge[p])

Inv == TypeOK /\ BoardInv /\ JudgeInv

LEMMA HolesAreTwoCards ==
    ASSUME NEW d \in Deals, NEW p \in Player
    PROVE  d.hole[p] \in Seq(Card) /\ Len(d.hole[p]) = 2 /\ d.hole[p] # <<>>
<1>1. d.hole[p] \in [1 .. 2 -> Card]
  BY DealsAssumption
<1>2. d.hole[p] \in Seq(Card) /\ Len(d.hole[p]) = 2
  BY <1>1, TupleIsSeq
<1> DEFINE h == d.hole[p]
<1> HIDE DEF h
<1>3. h # <<>>
  <2>1. Len(h) = 2
    BY <1>2 DEF h
  <2>2. Len(<<>>) = 0
    OBVIOUS
  <2> QED  BY <2>1, <2>2
<1> QED  BY <1>2, <1>3 DEF h

\* A player with seven cards shows the board of the deal with its own, and what
\* Evaluate makes of them is right.
LEMMA ComparedOverFullBoard ==
    ASSUME TypeOK, BoardInv, NEW q \in inHand, hand[q] = deal.hole[q], HasCards(q)
    PROVE  /\ Len(board) = 5
           /\ Evaluate(AllCards(q)) = Panic <=> FirstFiveAreNothing(q)
           /\ Evaluate(AllCards(q)) # Panic => Evaluate(AllCards(q)).strength = Strongest(q)
           /\ Strongest(q) \in Int
<1> DEFINE h == deal.hole[q]
<1>1. q \in Player /\ deal \in Deals
  BY DEF TypeOK
<1>2. h \in Seq(Card) /\ Len(h) = 2
  BY <1>1, HolesAreTwoCards
<1>3. board \in Seq(Card)
  <2>1. board \in Seq(Range(deal.board)) /\ deal.board \in [1 .. 5 -> Card]
    BY <1>1, DealsAssumption DEF TypeOK
  <2>2. Range(deal.board) \subseteq Card
    BY <2>1 DEF Range
  <2> QED  BY <2>1, <2>2
<1>4. AllCards(q) = h \o board /\ Len(AllCards(q)) = 2 + Len(board)
  <2>1. AllCards(q) = h \o board
    BY DEF AllCards
  <2> HIDE DEF h
  <2>2. Len(h \o board) = Len(h) + Len(board)
    BY <1>2, <1>3, ConcatProperties
  <2> QED  BY <1>2, <2>1, <2>2
<1>5. Len(board) >= 5
  BY <1>3, <1>4 DEF HasCards
<1>6. Len(board) = 5 /\ Range(board) = Range(deal.board)
  BY <1>5, FiveCardsAreAll
<1>7. h \o board \in Seven /\ Len(h \o board) = 7
  BY <1>1, <1>3, <1>6, SevenToChooseFrom
<1>8. Strongest(q) \in Int
  BY <1>7, BestKindIsInt DEF Strongest
<1> QED
  BY <1>4, <1>6, <1>7, <1>8, AgreesOnSeven DEF Strongest, FirstFiveAreNothing

-----------------------------------------------------------------------------
(* Types. *)

LEMMA InitIsTyped ==
    Init => TypeOK
<1> SUFFICES ASSUME Init PROVE TypeOK
  OBVIOUS
<1>1. board \in Seq(Range(deal.board))
  BY DEF Init
<1>2. pot \in Int
  BY ChipsAssumption, SumIsInt DEF Init
<1>3. judge \in [Player -> Judgements]
  BY DEF Init, Idle, Judgements
<1>4. deal \in Deals
  BY DealsAssumption DEF Init
<1>5. \A p \in Player : hand[p] \in {<<>>, Committed(p)}
  BY DEF Init, Committed
<1>6. street \in 0 .. 3 /\ pending \subseteq 1 .. street
  BY DEF Init
<1>7. inHand \subseteq Player /\ torn \in BOOLEAN /\ alive \in BOOLEAN
  BY Zenon DEF Init
<1>8. stack \in [Player -> Int] /\ bet \in [Player -> Int]
  <2>1. stack = Stack /\ bet = Blinds
    BY DEF Init
  <2>2. Stack \in [Player -> Nat] /\ Blinds \in [Player -> Nat]
    BY ChipsAssumption
  <2> QED  BY <2>1, <2>2
<1>9. currentBet \in Nat /\ reveals \in Nat
  BY ChipsAssumption DEF Init
<1> QED
  BY <1>1, <1>2, <1>3, <1>4, <1>5, <1>6, <1>7, <1>8, <1>9 DEF TypeOK

\* Paying moves integers.
LEMMA PayIsTyped ==
    ASSUME TypeOK, NEW p \in Player, NEW amount \in Int, Pay(p, amount)
    PROVE  stack' \in [Player -> Int] /\ pot' \in Int /\ torn' \in BOOLEAN
  BY DEF TypeOK, Pay

LEMMA BetsAreTyped ==
    ASSUME NEW bets \in [Player -> Int], NEW highest \in Nat, Bets(bets, highest)
    PROVE  bet' \in [Player -> Int] /\ currentBet' \in Nat
  BY DEF Bets

\* What a call pays is a number.
LEMMA CallIsInt ==
    ASSUME TypeOK, NEW p \in Player
    PROVE  Min({currentBet - bet[p], stack[p]}) \in Int
<1>1. currentBet - bet[p] \in Int /\ stack[p] \in Int
  BY DEF TypeOK
<1> DEFINE a == currentBet - bet[p]
           b == stack[p]
<1> HIDE DEF a, b
<1>2. a \in Int /\ b \in Int => \E x \in {a, b} : \A y \in {a, b} : x <= y
  OBVIOUS
<1>3. Min({a, b}) \in {a, b}
  BY <1>1, <1>2 DEF Min, a, b
<1> QED  BY <1>1, <1>3 DEF a, b

LEMMA OnwardIsTyped ==
    ASSUME NEW j \in Judgements
    PROVE  Onward(j) \in Judgements
<1>1. Idle \in Judgements
  BY DEF Idle, Judgements
<1>2. [j EXCEPT !.at = "add"] \in Judgements
  BY DEF Judgements
<1> QED  BY <1>1, <1>2 DEF Onward

\* A judgement keeps to its types in the loop.
LEMMA CompareIsTyped ==
    ASSUME TypeOK, BoardInv, JudgeInv, NEW p \in Player, NEW q \in Player, CompareNext(p, q)
    PROVE  judge' \in [Player -> Judgements] /\ alive' \in BOOLEAN
<1> DEFINE j == judge[p]
           better == Onward(KeepBetter(j, q, Evaluate(AllCards(q)).strength))
           passed == Onward(Pass(j, q))
<1>1. j \in Judgements /\ judge \in [Player -> Judgements] /\ inHand \subseteq Player /\ alive \in BOOLEAN
  BY DEF TypeOK
<1>2. j.at = "compare" /\ \A r \in inHand : hand[r] = deal.hole[r]
  BY DEF CompareNext, JudgeInv, JudgeOK
<1>3. passed \in Judgements
  <2>1. (j.short \/ q \in inHand) \in BOOLEAN
    BY <1>1 DEF Judgements
  <2>2. Pass(j, q) \in Judgements
    BY <1>1, <2>1 DEF Pass, Judgements
  <2> QED  BY <2>2, OnwardIsTyped
<1>4. CASE q \in inHand /\ HasCards(q)
  <2>1. CASE Evaluate(AllCards(q)) = Panic
    BY <1>1, <1>4, <2>1 DEF CompareNext
  <2>2. CASE Evaluate(AllCards(q)) # Panic
    <3> DEFINE strength == Evaluate(AllCards(q)).strength
    <3>1. strength \in Int
      BY <1>2, <1>4, <2>2, ComparedOverFullBoard
    <3> HIDE DEF strength
    <3>2. Onward(KeepBetter(j, q, strength)) \in Judgements
      <4>1. KeepBetter(j, q, strength) \in Judgements
        BY <1>1, <3>1 DEF KeepBetter, Judgements
      <4> QED  BY <4>1, OnwardIsTyped
    <3>3. judge' = [judge EXCEPT ![p] = better] /\ alive' = alive
      BY <1>4, <2>2 DEF CompareNext
    <3> QED  BY <1>1, <3>2, <3>3 DEF strength
  <2> QED  BY <2>1, <2>2
<1>5. CASE ~(q \in inHand /\ HasCards(q))
  <2>1. judge' = [judge EXCEPT ![p] = passed] /\ alive' = alive
    BY <1>5 DEF CompareNext
  <2> QED  BY <1>1, <1>3, <2>1
<1> QED  BY <1>4, <1>5

LEMMA StepIsTyped ==
    Inv /\ [Next]_vars => TypeOK'
<1> SUFFICES ASSUME Inv, [Next]_vars
             PROVE  TypeOK'
  OBVIOUS
<1>0. TypeOK /\ BoardInv /\ JudgeInv
  BY DEF Inv
<1>1. ASSUME NEW p \in Player, Check(p)
      PROVE  TypeOK'
  <2>1. bet' \in [Player -> Int] /\ currentBet' \in Nat
    BY <1>0, <1>1, BetsAreTyped DEF Check, TypeOK
  <2> QED  BY <1>0, <1>1, <2>1 DEF Check, TypeOK, Committed, table
<1>2. ASSUME NEW p \in Player, Call(p)
      PROVE  TypeOK'
  <2> DEFINE toCall == Min({currentBet - bet[p], stack[p]})
  <2>1. toCall \in Int
    BY <1>0, CallIsInt
  <2>2. Pay(p, toCall) /\ Bets([bet EXCEPT ![p] = @ + toCall], currentBet)
    BY <1>2 DEF Call
  <2> HIDE DEF toCall
  <2>3. [bet EXCEPT ![p] = @ + toCall] \in [Player -> Int] /\ currentBet \in Nat
    BY <1>0, <2>1 DEF TypeOK
  <2>4. bet' \in [Player -> Int] /\ currentBet' \in Nat
    BY <2>2, <2>3, BetsAreTyped
  <2>5. stack' \in [Player -> Int] /\ pot' \in Int /\ torn' \in BOOLEAN
    BY <1>0, <2>1, <2>2, PayIsTyped
  <2> QED  BY <1>0, <1>2, <2>4, <2>5 DEF Call, TypeOK, Committed, table
<1>3. ASSUME NEW p \in Player, NEW amount \in Amounts, Raise(p, amount)
      PROVE  TypeOK'
  <2>1. amount \in Nat /\ amount - bet[p] \in Int /\ [bet EXCEPT ![p] = amount] \in [Player -> Int]
    BY <1>0, ChipsAssumption DEF TypeOK
  <2>2. bet' \in [Player -> Int] /\ currentBet' \in Nat
    BY <1>3, <2>1, BetsAreTyped DEF Raise
  <2>3. stack' \in [Player -> Int] /\ pot' \in Int /\ torn' \in BOOLEAN
    BY <1>0, <1>3, <2>1, PayIsTyped DEF Raise
  <2> QED  BY <1>0, <1>3, <2>2, <2>3 DEF Raise, TypeOK, Committed, table
<1>4. ASSUME NEW p \in Player, Fold(p)
      PROVE  TypeOK'
  <2>1. bet' \in [Player -> Int] /\ currentBet' \in Nat
    BY <1>0, <1>4, BetsAreTyped DEF Fold, TypeOK
  <2> QED  BY <1>0, <1>4, <2>1 DEF Fold, TypeOK, Committed, table
<1>5. CASE AskForCommunityCards
  BY <1>0, <1>5 DEF AskForCommunityCards, TypeOK, Committed, chips
<1>6. ASSUME NEW s \in 1 .. 3, NEW others \in SUBSET (1 .. 3), RevealCommunityCards(s, others)
      PROVE  TypeOK'
  <2>1. board' \in Seq(Range(deal.board))
    <3>1. PICK g \in Readable[s] : board' = board \o At(deal, g)
      BY <1>6 DEF RevealCommunityCards
    <3>2. board \in Seq(Range(deal.board)) /\ deal \in Deals
      BY <1>0 DEF TypeOK
    <3> QED  BY <3>1, <3>2, StreetsAppendDealtCards
  <2> QED  BY <1>0, <1>6, <2>1 DEF RevealCommunityCards, TypeOK, Committed, chips
<1>7. ASSUME NEW s \in 1 .. 3, RevealTimesOut(s)
      PROVE  TypeOK'
  BY <1>0, <1>7 DEF RevealTimesOut, TypeOK, Committed, chips
<1>8. ASSUME NEW p \in Player, NEW cards \in Claims, HandleHandReveal(p, cards)
      PROVE  TypeOK'
  <2>1. judge' \in [Player -> Judgements]
    BY <1>0, <1>8 DEF HandleHandReveal, TypeOK, Judgements
  <2>2. \A q \in Player : hand'[q] \in {<<>>, deal.hole[q]}
    BY <1>0, <1>8 DEF HandleHandReveal, TypeOK, Committed
  <2> QED  BY <1>0, <1>8, <2>1, <2>2 DEF HandleHandReveal, TypeOK, Committed, table, chips
<1>9. ASSUME NEW p \in Player, CheckAllRevealed(p)
      PROVE  TypeOK'
  <2> DEFINE started == [Idle EXCEPT !.at = "compare", !.left = Player]
  <2>2. Idle \in Judgements /\ started \in Judgements
    <3>1. Idle \in Judgements
      BY DEF Idle, Judgements
    <3>2. ASSUME NEW j \in Judgements
          PROVE  [j EXCEPT !.at = "compare", !.left = Player] \in Judgements
      BY DEF Judgements
    <3> QED  BY <3>1, <3>2
  <2>3. judge' = [judge EXCEPT ![p] = IF AllRevealed THEN started ELSE Idle]
    BY <1>9 DEF CheckAllRevealed
  <2> HIDE DEF started
  <2>1. judge' \in [Player -> Judgements]
    BY <1>0, <2>2, <2>3 DEF TypeOK
  <2> QED  BY <1>0, <1>9, <2>1 DEF CheckAllRevealed, TypeOK, Committed, table, chips
<1>10. ASSUME NEW p \in Player, NEW q \in Player, CompareNext(p, q)
       PROVE  TypeOK'
  <2>1. judge' \in [Player -> Judgements] /\ alive' \in BOOLEAN
    BY <1>0, <1>10, CompareIsTyped
  <2> QED  BY <1>0, <1>10, <2>1 DEF CompareNext, TypeOK, Committed, table, chips
<1>11. ASSUME NEW p \in Player, AddPot(p)
       PROVE  TypeOK'
  <2>1. judge' \in [Player -> Judgements] /\ torn' \in BOOLEAN
    BY <1>0, <1>11 DEF AddPot, Tear, TypeOK, Judgements
  <2>2. stack' \in [Player -> Int]
    <3> DEFINE b == judge[p].best
    <3>1. stack' = [stack EXCEPT ![b] = @ + pot] /\ pot \in Int /\ stack \in [Player -> Int]
      BY <1>0, <1>11 DEF AddPot, TypeOK
    <3> HIDE DEF b
    <3>2. DOMAIN stack' = Player /\ stack' = [x \in Player |-> stack'[x]]
      BY <3>1
    <3>3. \A x \in Player : stack'[x] = IF x = b THEN stack[x] + pot ELSE stack[x]
      BY <3>1
    <3>4. \A x \in Player : stack'[x] \in Int
      BY <3>1, <3>3
    <3> QED  BY <3>2, <3>4
  <2> QED  BY <1>0, <1>11, <2>1, <2>2 DEF AddPot, TypeOK, Committed, table
<1>12. ASSUME NEW p \in Player, ClearPot(p)
       PROVE  TypeOK'
  <2>1. judge' \in [Player -> Judgements] /\ torn' \in BOOLEAN
    BY <1>0, <1>12 DEF ClearPot, Tear, TypeOK, Judgements, Idle
  <2> QED  BY <1>0, <1>12, <2>1 DEF ClearPot, TypeOK, Committed, table
<1>13. CASE UNCHANGED vars
  BY <1>0, <1>13 DEF vars, TypeOK, Committed, table, chips
<1> QED
  BY <1>1, <1>2, <1>3, <1>4, <1>5, <1>6, <1>7, <1>8, <1>9, <1>10, <1>11, <1>12, <1>13
     DEF Next, CheckAndDetermineWinner

-----------------------------------------------------------------------------
(* The invariant. *)

\* A judgement is no worse for what other streams do: hands stay, players only
\* leave, and a full board stays as it is.
LEMMA JudgementStands ==
    ASSUME TypeOK, NEW j \in Judgements, JudgeOK(j),
           inHand' \subseteq inHand, deal' = deal, Len(board) = 5 => board' = board,
           \A q \in Player : hand[q] = deal.hole[q] => hand'[q] = deal.hole[q]
    PROVE  JudgeOK(j)'
<1>1. j.at \in {"compare", "add", "clear"} => \A q \in inHand' : hand'[q] = deal'.hole[q]
  BY DEF JudgeOK, TypeOK
<1>2. CASE j.best = NoPlayer
  <2>1. j.at \in {"compare", "add"} => \A q \in inHand' \ j.left : j.short
    BY <1>2 DEF JudgeOK, Looked
  <2> QED  BY <1>1, <1>2, <2>1 DEF JudgeOK, Looked
<1>3. CASE j.best # NoPlayer
  <2>1. board' = board
    BY <1>3 DEF JudgeOK
  <2>2. \A q : Strongest(q)' = Strongest(q) /\ FirstFiveAreNothing(q)' = FirstFiveAreNothing(q)
    BY <2>1 DEF Strongest, FirstFiveAreNothing
  <2>3. j.at \in {"compare", "add"} => Looked(j)'
    BY <2>2 DEF JudgeOK, Looked
  <2> QED  BY <1>1, <1>3, <2>1, <2>2, <2>3 DEF JudgeOK
<1> QED  BY <1>2, <1>3

LEMMA OthersStand ==
    ASSUME Inv, TypeOK', NEW P \in SUBSET Player, \A p \in P : judge'[p] = judge[p],
           inHand' \subseteq inHand, deal' = deal, Len(board) = 5 => board' = board,
           \A q \in Player : hand[q] = deal.hole[q] => hand'[q] = deal.hole[q]
    PROVE  \A p \in P : JudgeOK(judge[p])'
<1> SUFFICES ASSUME NEW p \in P PROVE JudgeOK(judge[p])'
  OBVIOUS
<1>1. TypeOK /\ judge[p] \in Judgements /\ JudgeOK(judge[p])
  BY DEF Inv, JudgeInv, TypeOK
<1> DEFINE j == judge[p]
<1>2. j \in Judgements /\ JudgeOK(j) /\ judge'[p] = j
  BY <1>1
<1> HIDE DEF j
<1>3. \A k \in Judgements : JudgeOK(k) => JudgeOK(k)'
  BY <1>1, JudgementStands
<1> QED  BY <1>2, <1>3 DEF JudgeOK, Looked, Strongest, FirstFiveAreNothing

LEMMA StrongestIsInt ==
    ASSUME TypeOK, BoardInv, Len(board) = 5, NEW q \in Player
    PROVE  Strongest(q) \in Int
<1>1. deal \in Deals
  BY DEF TypeOK
<1>2. board \in Seq(Card)
  <2>1. board \in Seq(Range(deal.board)) /\ deal.board \in [1 .. 5 -> Card]
    BY <1>1, DealsAssumption DEF TypeOK
  <2>2. Range(deal.board) \subseteq Card
    BY <2>1 DEF Range
  <2> QED  BY <2>1, <2>2
<1>3. Range(board) = Range(deal.board)
  BY FiveCardsAreAll
<1>4. deal.hole[q] \o board \in Seven
  BY <1>1, <1>2, <1>3, SevenToChooseFrom
<1> QED  BY <1>4, BestKindIsInt DEF Strongest

\* The judgement of p moves on over the same table.
LEMMA OwnStepStands ==
    ASSUME Inv, TypeOK', NEW p \in Player, NEW k \in Judgements, JudgeOK(k),
           judge' = [judge EXCEPT ![p] = k], UNCHANGED <<table, hand, inHand>>
    PROVE  JudgeInv'
<1>1. \A q \in Player \ {p} : JudgeOK(judge[q])'
  <2>1. \A q \in Player \ {p} : judge'[q] = judge[q]
    BY DEF Inv, TypeOK
  <2>2. inHand' \subseteq inHand /\ deal' = deal /\ board' = board /\ hand' = hand
    BY DEF table
  <2> QED  BY <2>1, <2>2, OthersStand
<1>2. judge'[p] = k
  BY DEF Inv, TypeOK
<1>3. JudgeOK(judge[p])'
  BY <1>2 DEF JudgeOK, Looked, Strongest, FirstFiveAreNothing, table
<1> QED  BY <1>1, <1>3 DEF JudgeInv

LEMMA IdleIsOK == Idle \in Judgements /\ JudgeOK(Idle)
  BY DEF Idle, Judgements, JudgeOK

\* The loop ends with a winner to pay, or with nobody.
LEMMA OnwardIsOK ==
    ASSUME NEW j \in Judgements, JudgeOK(j), j.at = "compare"
    PROVE  JudgeOK(Onward(j))
<1>1. CASE j.left # {}
  BY <1>1 DEF Onward
<1>2. CASE j.left = {} /\ j.best = NoPlayer
  BY <1>2, IdleIsOK DEF Onward
<1>3. CASE j.left = {} /\ j.best # NoPlayer
  <2> DEFINE k == [j EXCEPT !.at = "add"]
  <2>1. Onward(j) = k
    BY <1>3 DEF Onward
  <2>2. /\ k.at = "add" /\ k.left = j.left /\ k.best = j.best
        /\ k.strength = j.strength /\ k.short = j.short
    BY DEF Judgements
  <2> HIDE DEF k
  <2> QED  BY <1>3, <2>1, <2>2 DEF JudgeOK, Looked
<1> QED  BY <1>1, <1>2, <1>3

LEMMA PassIsOK ==
    ASSUME NEW j \in Judgements, JudgeOK(j), j.at = "compare", NEW q \in Player
    PROVE  Pass(j, q) \in Judgements /\ Pass(j, q).at = "compare" /\ JudgeOK(Pass(j, q))
<1> DEFINE k == Pass(j, q)
           short == j.short \/ q \in inHand
<1>1. short \in BOOLEAN
  BY DEF Judgements
<1>2. k = [j EXCEPT !.left = @ \ {q}, !.short = short]
  BY DEF Pass
<1> HIDE DEF k, short
<1>3. /\ k \in Judgements /\ k.at = "compare" /\ k.left = j.left \ {q}
      /\ k.best = j.best /\ k.strength = j.strength /\ k.short = short
  BY <1>1, <1>2 DEF Judgements
<1>4. Looked(k)
  <2> SUFFICES ASSUME NEW r \in inHand, r \notin k.left
               PROVE  k.short \/ /\ k.best # NoPlayer /\ Strongest(r) <= k.strength
                                 /\ ~FirstFiveAreNothing(r)
    BY DEF Looked
  <2>1. CASE r = q
    BY <1>3, <2>1 DEF short
  <2>2. CASE r # q
    <3>1. r \in inHand \ j.left
      BY <1>3, <2>2
    <3> QED  BY <1>3, <3>1 DEF JudgeOK, Looked, short
  <2> QED  BY <2>1, <2>2
<1>5. JudgeOK(k)
  BY <1>3, <1>4 DEF JudgeOK
<1> QED  BY <1>3, <1>5 DEF k

LEMMA KeepBetterIsOK ==
    ASSUME TypeOK, BoardInv, NEW j \in Judgements, JudgeOK(j), j.at = "compare",
           NEW q \in inHand, Len(board) = 5, ~FirstFiveAreNothing(q)
    PROVE  /\ KeepBetter(j, q, Strongest(q)) \in Judgements
           /\ KeepBetter(j, q, Strongest(q)).at = "compare"
           /\ JudgeOK(KeepBetter(j, q, Strongest(q)))
<1> DEFINE s == Strongest(q)
           k == KeepBetter(j, q, s)
<1>1. q \in Player /\ q # NoPlayer /\ j.strength \in Int /\ inHand \subseteq Player
  BY PlayerAssumption DEF TypeOK, Judgements
<1>2. s \in Int
  BY <1>1, StrongestIsInt
<1>3. /\ k \in Judgements /\ k.at = "compare" /\ k.left = j.left \ {q} /\ k.short = j.short
      /\ \/ k.best = q /\ k.strength = s /\ (j.best = NoPlayer \/ s > j.strength)
         \/ k.best = j.best /\ k.strength = j.strength /\ j.best # NoPlayer /\ ~(s > j.strength)
  <2> HIDE DEF s
  <2>1. CASE j.best = NoPlayer \/ s > j.strength
    <3>1. k = [j EXCEPT !.left = @ \ {q}, !.best = q, !.strength = s]
      BY <2>1 DEF KeepBetter
    <3> HIDE DEF k
    <3> QED  BY <1>1, <1>2, <2>1, <3>1 DEF Judgements
  <2>2. CASE ~(j.best = NoPlayer \/ s > j.strength)
    <3>1. k = [j EXCEPT !.left = @ \ {q}]
      BY <2>2 DEF KeepBetter
    <3> HIDE DEF k
    <3> QED  BY <2>2, <3>1 DEF Judgements
  <2> QED  BY <2>1, <2>2
<1> HIDE DEF k
<1>4. k.best # NoPlayer /\ k.strength = Strongest(k.best)
  BY <1>1, <1>3 DEF JudgeOK
<1>5. k.strength \in Int /\ s <= k.strength /\ (j.best # NoPlayer => j.strength <= k.strength)
  <2> HIDE DEF s
  <2> QED  BY <1>1, <1>2, <1>3
<1>6. Looked(k)
  <2> SUFFICES ASSUME NEW r \in inHand, r \notin k.left
               PROVE  k.short \/ /\ k.best # NoPlayer /\ Strongest(r) <= k.strength
                                 /\ ~FirstFiveAreNothing(r)
    BY DEF Looked
  <2>1. CASE r = q
    BY <1>4, <1>5, <2>1
  <2>2. CASE r # q /\ ~j.short
    <3>1. r \in inHand \ j.left
      BY <1>3, <2>2
    <3>2. j.best # NoPlayer /\ Strongest(r) <= j.strength /\ ~FirstFiveAreNothing(r)
      BY <2>2, <3>1 DEF JudgeOK, Looked
    <3>3. Strongest(r) \in Int
      BY <1>1, StrongestIsInt
    <3> DEFINE t == Strongest(r)
    <3>4. t \in Int /\ t <= j.strength /\ j.strength <= k.strength
      BY <1>5, <3>2, <3>3
    <3> HIDE DEF t
    <3>5. t <= k.strength
      BY <1>1, <1>5, <3>4
    <3> QED  BY <1>4, <3>2, <3>5 DEF t
  <2>3. CASE j.short
    BY <1>3, <2>3
  <2> QED  BY <2>1, <2>2, <2>3
<1>7. JudgeOK(k)
  BY <1>3, <1>4, <1>6 DEF JudgeOK
<1> QED  BY <1>3, <1>7 DEF k

LEMMA StepKeepsJudgements ==
    Inv /\ TypeOK' /\ [Next]_vars => JudgeInv'
<1> SUFFICES ASSUME Inv, TypeOK', [Next]_vars
             PROVE  JudgeInv'
  OBVIOUS
<1>0. /\ TypeOK /\ BoardInv /\ JudgeInv /\ judge \in [Player -> Judgements]
      /\ inHand \subseteq Player /\ deal \in Deals
  BY DEF Inv, TypeOK
<1>1. ASSUME judge' = judge, inHand' \subseteq inHand, deal' = deal, hand' = hand,
             Len(board) = 5 => board' = board
      PROVE  JudgeInv'
  <2>1. \A p \in Player : JudgeOK(judge[p])'
    BY <1>1, OthersStand
  <2> QED  BY <2>1 DEF JudgeInv
<1>2. ASSUME NEW p \in Player, Check(p) \/ Call(p) \/ Fold(p) \/ \E amount \in Amounts : Raise(p, amount)
      PROVE  JudgeInv'
  <2>1. judge' = judge /\ inHand' \subseteq inHand /\ UNCHANGED <<table, hand>>
    BY <1>2 DEF Check, Call, Fold, Raise
  <2> QED  BY <1>1, <2>1 DEF table
<1>3. CASE AskForCommunityCards
  BY <1>1, <1>3 DEF AskForCommunityCards
<1>4. ASSUME NEW s \in 1 .. 3, NEW others \in SUBSET (1 .. 3), RevealCommunityCards(s, others)
      PROVE  JudgeInv'
  <2>1. Len(board) # 5
    <3>1. s \in pending
      BY <1>4 DEF RevealCommunityCards
    <3> QED  BY <1>0, <3>1, FiveCardsAreAll
  <2>2. UNCHANGED <<judge, inHand, deal, hand>>
    BY <1>4 DEF RevealCommunityCards
  <2> QED  BY <1>1, <2>1, <2>2
<1>5. ASSUME NEW s \in 1 .. 3, RevealTimesOut(s)
      PROVE  JudgeInv'
  BY <1>1, <1>5 DEF RevealTimesOut
<1>6. ASSUME NEW p \in Player, NEW cards \in Claims, HandleHandReveal(p, cards)
      PROVE  JudgeInv'
  <2>1. /\ judge[p] = Idle /\ judge' = [judge EXCEPT ![p].at = "check"]
        /\ UNCHANGED <<table, inHand>> /\ hand' = [hand EXCEPT ![p] = cards]
        /\ cards = deal.hole[p]
    BY <1>6 DEF HandleHandReveal, Committed
  <2>2. \A q \in Player : hand[q] = deal.hole[q] => hand'[q] = deal.hole[q]
    BY <2>1
  <2>3. \A q \in Player \ {p} : JudgeOK(judge[q])'
    <3>1. \A q \in Player \ {p} : judge'[q] = judge[q]
      BY <1>0, <2>1
    <3> QED  BY <2>1, <2>2, <3>1, OthersStand DEF table
  <2>4. judge'[p].at = "check" /\ judge'[p].best = NoPlayer
    <3>1. judge'[p] = [judge[p] EXCEPT !.at = "check"]
      BY <1>0, <2>1
    <3>2. judge[p].best = NoPlayer /\ judge[p] \in Judgements
      <4>1. Idle.best = NoPlayer
        BY DEF Idle
      <4> QED  BY <1>0, <2>1, <4>1
    <3> QED  BY <3>1, <3>2 DEF Judgements
  <2>5. JudgeOK(judge[p])'
    BY <2>4 DEF JudgeOK
  <2> QED  BY <2>3, <2>5 DEF JudgeInv
<1>7. ASSUME NEW p \in Player, CheckAllRevealed(p)
      PROVE  JudgeInv'
  <2> DEFINE started == [Idle EXCEPT !.at = "compare", !.left = Player]
  <2>1. judge' = [judge EXCEPT ![p] = IF AllRevealed THEN started ELSE Idle]
        /\ UNCHANGED <<table, hand, inHand>>
    BY <1>7 DEF CheckAllRevealed
  <2>2. started \in Judgements /\ started.at = "compare" /\ started.left = Player
        /\ started.best = NoPlayer
    <3>1. ASSUME NEW j \in Judgements
          PROVE  LET k == [j EXCEPT !.at = "compare", !.left = Player]
                 IN  k \in Judgements /\ k.at = "compare" /\ k.left = Player /\ k.best = j.best
      BY DEF Judgements
    <3>2. Idle.best = NoPlayer
      BY DEF Idle
    <3> QED  BY <3>1, <3>2, IdleIsOK
  <2> HIDE DEF started
  <2>3. CASE AllRevealed
    <3>1. \A q \in inHand : hand[q] = deal.hole[q]
      BY <1>0, <2>3 DEF AllRevealed, TypeOK, Committed
    <3>2. JudgeOK(started)
      BY <1>0, <2>2, <3>1 DEF JudgeOK, Looked
    <3> QED  BY <2>1, <2>2, <2>3, <3>2, OwnStepStands
  <2>4. CASE ~AllRevealed
    BY <2>1, <2>4, IdleIsOK, OwnStepStands
  <2> QED  BY <2>3, <2>4
<1>8. ASSUME NEW p \in Player, NEW q \in Player, CompareNext(p, q)
      PROVE  JudgeInv'
  <2> DEFINE j == judge[p]
  <2>1. /\ j.at = "compare" /\ j \in Judgements /\ JudgeOK(j)
        /\ UNCHANGED <<table, hand, inHand>>
    BY <1>0, <1>8 DEF CompareNext, JudgeInv
  <2>2. CASE q \in inHand /\ HasCards(q)
    <3>1. CASE Evaluate(AllCards(q)) = Panic
      <4>1. judge' = judge
        BY <1>8, <2>2, <3>1 DEF CompareNext
      <4> QED  BY <1>1, <2>1, <4>1 DEF table
    <3>2. CASE Evaluate(AllCards(q)) # Panic
      <4> DEFINE strength == Evaluate(AllCards(q)).strength
                 k == KeepBetter(j, q, strength)
      <4>1. judge' = [judge EXCEPT ![p] = Onward(k)]
        BY <1>8, <2>2, <3>2 DEF CompareNext
      <4>2. hand[q] = deal.hole[q]
        BY <2>1, <2>2 DEF JudgeOK
      <4>3. strength = Strongest(q) /\ Len(board) = 5 /\ ~FirstFiveAreNothing(q)
        BY <1>0, <2>2, <3>2, <4>2, ComparedOverFullBoard
      <4> HIDE DEF strength, j
      <4>4. k \in Judgements /\ k.at = "compare" /\ JudgeOK(k)
        BY <1>0, <2>1, <2>2, <4>3, KeepBetterIsOK
      <4> HIDE DEF k
      <4> QED  BY <2>1, <4>1, <4>4, OnwardIsOK, OnwardIsTyped, OwnStepStands
    <3> QED  BY <3>1, <3>2
  <2>3. CASE ~(q \in inHand /\ HasCards(q))
    <3> DEFINE k == Pass(j, q)
    <3>1. judge' = [judge EXCEPT ![p] = Onward(k)]
      BY <1>8, <2>3 DEF CompareNext
    <3> HIDE DEF j
    <3>2. k \in Judgements /\ k.at = "compare" /\ JudgeOK(k)
      BY <2>1, PassIsOK
    <3> HIDE DEF k
    <3> QED  BY <2>1, <3>1, <3>2, OnwardIsOK, OnwardIsTyped, OwnStepStands
  <2> QED  BY <2>2, <2>3
<1>9. ASSUME NEW p \in Player, AddPot(p)
      PROVE  JudgeInv'
  <2> DEFINE j == judge[p]
             k == [j EXCEPT !.at = "clear"]
  <2>1. /\ j.at = "add" /\ j \in Judgements /\ JudgeOK(j) /\ judge' = [judge EXCEPT ![p] = k]
        /\ UNCHANGED <<table, hand, inHand>>
    BY <1>0, <1>9 DEF AddPot, JudgeInv
  <2> HIDE DEF j
  <2>2. /\ k \in Judgements /\ k.at = "clear" /\ k.best = j.best /\ k.strength = j.strength
    BY <2>1 DEF Judgements
  <2> HIDE DEF k
  <2>3. JudgeOK(k)
    BY <2>1, <2>2 DEF JudgeOK
  <2> QED  BY <2>1, <2>2, <2>3, OwnStepStands
<1>10. ASSUME NEW p \in Player, ClearPot(p)
       PROVE  JudgeInv'
  <2>1. judge' = [judge EXCEPT ![p] = Idle] /\ UNCHANGED <<table, hand, inHand>>
    BY <1>10 DEF ClearPot
  <2> QED  BY <2>1, IdleIsOK, OwnStepStands
<1>11. CASE UNCHANGED vars
  BY <1>1, <1>11 DEF vars, table
<1> QED
  BY <1>2, <1>3, <1>4, <1>5, <1>6, <1>7, <1>8, <1>9, <1>10, <1>11
     DEF Next, CheckAndDetermineWinner

LEMMA InitHasInv ==
    Init => Inv
<1> SUFFICES ASSUME Init PROVE Inv
  OBVIOUS
<1>1. BoardInv
  BY DEF Init, BoardInv, ReadFrom
<1>2. \A p \in Player : judge[p] = Idle
  BY DEF Init
<1>3. JudgeInv
  BY <1>2, IdleIsOK DEF JudgeInv
<1> QED  BY <1>1, <1>3, InitIsTyped DEF Inv

LEMMA StepKeepsInv ==
    Inv /\ [Next]_vars => Inv'
<1> SUFFICES ASSUME Inv, [Next]_vars PROVE Inv'
  OBVIOUS
<1>1. TypeOK'
  BY StepIsTyped
<1>2. BoardInv'
  BY StepKeepsBoard DEF Inv
<1>3. JudgeInv'
  BY <1>1, StepKeepsJudgements
<1> QED  BY <1>1, <1>2, <1>3 DEF Inv

LEMMA InvHolds ==
    Spec => []Inv
  BY InitHasInv, StepKeepsInv, PTL DEF Spec

-----------------------------------------------------------------------------
(* Theorems. *)

\* With judgements of all streams interleaved, a hand on the host is none or the
\* one committed to, and chips and locals of the judgements keep their types.
THEOREM ShowdownTypes ==
    Spec => []TypeOK
<1>1. Inv => TypeOK
  BY DEF Inv
<1> QED  BY <1>1, InvHolds, PTL

\* Evaluate is right of every seven cards that can come together at a showdown:
\* for all deals, players and orders of the streets.
THEOREM EvaluationIsRight ==
    Spec => []EvaluationAgrees
<1>1. ASSUME NEW d \in Deals, NEW p \in Player, NEW s \in Orders
      PROVE  AgreesOn(d.hole[p] \o FullBoard(d, s))
  <2>1. /\ d.hole[p] \o FullBoard(d, s) \in Seven
        /\ Len(d.hole[p] \o FullBoard(d, s)) = 7
    BY FullBoardsAreBoards, SevenToChooseFrom
  <2> QED  BY <2>1, AgreesOnSeven
<1>2. TypeOK => EvaluationAgrees
  BY <1>1 DEF EvaluationAgrees
<1> QED  BY <1>2, ShowdownTypes, PTL

\* For all deals, with any number of judgements side by side, each at any
\* statement, and bets, folds, reveals and community cards between their
\* statements: a judgement that is about to pay does so over the full board, and
\* to a player whom nobody it has not passed over can beat by kind.
THEOREM BestHandWins ==
    Spec => []PotGoesToTheBest
<1>1. ASSUME Inv, NEW p \in Player, judge[p].at = "add"
      PROVE  /\ \A q \in inHand : hand[q] = deal.hole[q]
             /\ Len(board) = 5 /\ Range(board) = Range(deal.board)
             /\ judge[p].best \in Player
             /\ judge[p].short \/ \A q \in inHand : Strongest(q) <= Strongest(judge[p].best)
  <2>1. TypeOK /\ BoardInv /\ JudgeOK(judge[p]) /\ judge[p] \in Judgements
    BY <1>1 DEF Inv, JudgeInv, TypeOK
  <2>2. /\ \A q \in inHand : hand[q] = deal.hole[q]
        /\ judge[p].left = {} /\ judge[p].best # NoPlayer
        /\ Len(board) = 5 /\ judge[p].strength = Strongest(judge[p].best)
        /\ Looked(judge[p])
    BY <1>1, <2>1 DEF JudgeOK
  <2>3. Range(board) = Range(deal.board)
    BY <2>1, <2>2, FiveCardsAreAll
  <2>4. judge[p].best \in Player
    BY <2>1, <2>2 DEF Judgements
  <2> QED  BY <2>2, <2>3, <2>4 DEF Looked
<1>2. Inv => PotGoesToTheBest
  BY <1>1 DEF PotGoesToTheBest, Strongest
<1> QED  BY <1>2, InvHolds, PTL

\* For all deals and interleavings: the host's process ends in a judgement only
\* when the first five of the seven cards of somebody in the hand are nothing (the
\* index into the empty best hand, eval.go:74), and a judgement that passed over
\* nobody gets to paying only when nobody left in the hand is like that.
THEOREM OnlyNothingEndsTheHost ==
    Spec => /\ [][alive' # alive => \E q \in inHand : FirstFiveAreNothing(q)]_vars
            /\ [](\A p \in Player : judge[p].at = "add" /\ ~judge[p].short
                     => \A q \in inHand : ~FirstFiveAreNothing(q))
<1> DEFINE Ends == alive' # alive => \E q \in inHand : FirstFiveAreNothing(q)
           Pays == \A p \in Player : judge[p].at = "add" /\ ~judge[p].short
                       => \A q \in inHand : ~FirstFiveAreNothing(q)
<1>1. Inv => Pays
  <2> SUFFICES ASSUME Inv, NEW p \in Player, judge[p].at = "add", ~judge[p].short
               PROVE  \A q \in inHand : ~FirstFiveAreNothing(q)
    OBVIOUS
  <2>1. judge[p].left = {} /\ Looked(judge[p])
    BY DEF Inv, JudgeInv, JudgeOK
  <2> QED  BY <2>1 DEF Looked
<1>2. Inv /\ [Next]_vars => [Ends]_vars
  <2> SUFFICES ASSUME Inv, Next, alive' # alive
               PROVE  \E q \in inHand : FirstFiveAreNothing(q)
    OBVIOUS
  <2>1. \E p, q \in Player : CompareNext(p, q)
    BY DEF Next, CheckAndDetermineWinner, Check, Call, Raise, Fold, AskForCommunityCards,
           RevealCommunityCards, RevealTimesOut, HandleHandReveal, CheckAllRevealed, AddPot, ClearPot
  <2>2. PICK p \in Player, q \in Player : CompareNext(p, q)
    BY <2>1
  <2>3. judge[p].at = "compare" /\ q \in inHand /\ HasCards(q) /\ Evaluate(AllCards(q)) = Panic
    BY <2>2 DEF CompareNext
  <2>4. hand[q] = deal.hole[q] /\ TypeOK /\ BoardInv
    BY <2>3 DEF Inv, JudgeInv, JudgeOK
  <2> QED  BY <2>3, <2>4, ComparedOverFullBoard
<1> HIDE DEF Ends, Pays
<1>3. Spec => [][Ends]_vars /\ []Pays
  BY <1>1, <1>2, InvHolds, PTL DEF Spec
<1> QED  BY <1>3, PTL DEF Ends, Pays

-----------------------------------------------------------------------------
(* Refinement. *)

LEMMA InitStartsPayout ==
    Init => Payout!Init
<1> SUFFICES ASSUME Init PROVE Payout!Init
  OBVIOUS
<1>1. ~ \E p \in Player : judge[p].at = "clear"
  BY DEF Init, Idle
<1>2. PotLeft = pot
  BY <1>1 DEF PotLeft
<1>3. inHand = Player /\ stack = Stack /\ pot = SumFunctionOnSet(Blinds, Player)
  BY DEF Init
<1> QED  BY <1>2, <1>3 DEF Payout!Init

\* A stream that neither comes to clearing the pot nor leaves it.
LEMMA SamePotLeft ==
    ASSUME pot' = pot, \A p \in Player : judge'[p].at = "clear" <=> judge[p].at = "clear"
    PROVE  PotLeft' = PotLeft
  BY DEF PotLeft

\* Chips that a player moves while nobody awards the pot.
LEMMA PayIsPayout ==
    ASSUME TypeOK, NEW p \in inHand, NEW amount \in Int, Pay(p, amount), UNCHANGED <<inHand, judge>>
    PROVE  torn' \/ Payout!Next
<1> SUFFICES ASSUME ~torn' PROVE Payout!Pay(p)
  BY DEF Payout!Next
<1>1. ~ \E q \in Player : judge[q].at = "clear"
  BY DEF Pay, Awarding
<1>2. PotLeft = pot /\ PotLeft' = pot'
  BY <1>1 DEF PotLeft
<1>3. pot \in Int /\ pot' = pot + amount /\ stack' = [stack EXCEPT ![p] = @ - amount]
      /\ stack \in [Player -> Int] /\ p \in Player
  BY DEF Pay, TypeOK
<1>4. stack[p] - amount = stack[p] + pot - pot' /\ pot' \in Int
  <2>1. stack[p] \in Int
    BY <1>3
  <2> DEFINE x == stack[p]
  <2> HIDE DEF x
  <2>2. x - amount = x + pot - (pot + amount)
    BY <1>3, <2>1 DEF x
  <2> QED  BY <1>3, <2>2 DEF x
<1>5. stack' = [stack EXCEPT ![p] = @ + PotLeft - PotLeft']
  BY <1>2, <1>3, <1>4
<1> QED  BY <1>2, <1>4, <1>5 DEF Payout!Pay

\* Each step is one of PotPayout, or touches neither chips nor who is in the hand,
\* or moves chips in the middle of an award.
LEMMA StepIsPayout ==
    Inv /\ [Next]_vars => [torn' \/ Payout!Next]_<<inHand, stack, PotLeft>>
<1> DEFINE Goal == torn' \/ Payout!Next \/ UNCHANGED <<inHand, stack, PotLeft>>
<1> SUFFICES ASSUME Inv, [Next]_vars
             PROVE  Goal
  OBVIOUS
<1>0. TypeOK /\ judge \in [Player -> Judgements] /\ inHand \subseteq Player
  BY DEF Inv, TypeOK
<1>1. ASSUME NEW p \in Player, Check(p)
      PROVE  Goal
  BY <1>1, SamePotLeft DEF Check
<1>2. ASSUME NEW p \in Player, Call(p)
      PROVE  Goal
  <2> DEFINE toCall == Min({currentBet - bet[p], stack[p]})
  <2>1. toCall \in Int /\ Pay(p, toCall) /\ p \in inHand /\ UNCHANGED <<inHand, judge>>
    BY <1>0, <1>2, CallIsInt DEF Call, MayAct
  <2> HIDE DEF toCall
  <2> QED  BY <1>0, <2>1, PayIsPayout
<1>3. ASSUME NEW p \in Player, NEW amount \in Amounts, Raise(p, amount)
      PROVE  Goal
  <2> DEFINE more == amount - bet[p]
  <2>1. more \in Int /\ Pay(p, more) /\ p \in inHand /\ UNCHANGED <<inHand, judge>>
    BY <1>0, <1>3, ChipsAssumption DEF Raise, MayAct, TypeOK
  <2> HIDE DEF more
  <2> QED  BY <1>0, <2>1, PayIsPayout
<1>4. ASSUME NEW p \in Player, Fold(p)
      PROVE  Goal
  <2>1. UNCHANGED <<stack, pot, judge>> /\ inHand' = inHand \ {p} /\ p \in inHand
    BY <1>4 DEF Fold, MayAct
  <2>2. PotLeft' = PotLeft
    BY <2>1, SamePotLeft
  <2> QED  BY <2>1, <2>2 DEF Payout!Next, Payout!GiveUp
<1>5. CASE AskForCommunityCards
  BY <1>5, SamePotLeft DEF AskForCommunityCards, chips
<1>6. ASSUME NEW s \in 1 .. 3, NEW others \in SUBSET (1 .. 3),
             RevealCommunityCards(s, others) \/ RevealTimesOut(s)
      PROVE  Goal
  BY <1>6, SamePotLeft DEF RevealCommunityCards, RevealTimesOut, chips
<1>7. ASSUME NEW p \in Player, judge'[p].at # "clear", judge[p].at # "clear",
             \A q \in Player \ {p} : judge'[q] = judge[q], UNCHANGED <<chips, inHand>>
      PROVE  Goal
  <2>1. PotLeft' = PotLeft
    BY <1>7, SamePotLeft DEF chips
  <2> QED  BY <1>7, <2>1 DEF chips
<1>8. ASSUME NEW p \in Player, NEW cards \in Claims, HandleHandReveal(p, cards)
      PROVE  Goal
  <2>1. judge[p] = Idle /\ judge' = [judge EXCEPT ![p].at = "check"] /\ UNCHANGED <<chips, inHand>>
    BY <1>8 DEF HandleHandReveal
  <2>2. judge'[p].at = "check" /\ judge[p].at = "idle"
    BY <1>0, <2>1 DEF Judgements, Idle
  <2> QED  BY <1>0, <1>7, <2>1, <2>2
<1>9. ASSUME NEW p \in Player, CheckAllRevealed(p)
      PROVE  Goal
  <2>1. /\ judge[p].at = "check" /\ UNCHANGED <<chips, inHand>>
        /\ judge' = [judge EXCEPT ![p] =
                        IF AllRevealed THEN [Idle EXCEPT !.at = "compare", !.left = Player]
                                       ELSE Idle]
    BY <1>9 DEF CheckAllRevealed
  <2>2. Idle.at = "idle" /\ [Idle EXCEPT !.at = "compare", !.left = Player].at = "compare"
    <3>1. \A j \in Judgements : [j EXCEPT !.at = "compare", !.left = Player].at = "compare"
      BY DEF Judgements
    <3> QED  BY <3>1, IdleIsOK DEF Idle
  <2>3. judge'[p].at # "clear"
    BY <1>0, <2>1, <2>2
  <2> QED  BY <1>0, <1>7, <2>1, <2>3
<1>10. ASSUME NEW p \in Player, NEW q \in Player, CompareNext(p, q)
       PROVE  Goal
  <2>1. judge[p].at = "compare" /\ UNCHANGED <<chips, inHand>>
    BY <1>10 DEF CompareNext
  <2>2. \A j \in Judgements : j.at = "compare" => Onward(j).at # "clear"
    BY DEF Onward, Idle, Judgements
  <2>3. /\ judge'[p].at # "clear"
        /\ \A r \in Player \ {p} : judge'[r] = judge[r]
    <3> DEFINE j == judge[p]
    <3>1. CASE judge' = judge
      BY <2>1, <3>1
    <3>2. CASE judge' = [judge EXCEPT ![p] = Onward(Pass(j, q))]
      <4>1. j \in Judgements /\ JudgeOK(j)
        BY <1>0 DEF Inv, JudgeInv
      <4>2. Pass(j, q) \in Judgements /\ Pass(j, q).at = "compare"
        BY <2>1, <4>1, PassIsOK
      <4> QED  BY <1>0, <2>2, <3>2, <4>2
    <3>3. CASE /\ q \in inHand /\ HasCards(q) /\ Evaluate(AllCards(q)) # Panic
               /\ judge' = [judge EXCEPT ![p] = Onward(KeepBetter(j, q, Evaluate(AllCards(q)).strength))]
      <4> DEFINE k == KeepBetter(j, q, Evaluate(AllCards(q)).strength)
      <4>1. j \in Judgements /\ JudgeOK(j) /\ TypeOK /\ BoardInv
        BY <1>0 DEF Inv, JudgeInv
      <4>2. hand[q] = deal.hole[q]
        BY <2>1, <3>3, <4>1 DEF JudgeOK
      <4>3. /\ Evaluate(AllCards(q)).strength = Strongest(q) /\ Len(board) = 5
            /\ ~FirstFiveAreNothing(q)
        BY <3>3, <4>1, <4>2, ComparedOverFullBoard
      <4>4. k \in Judgements /\ k.at = "compare"
        BY <2>1, <3>3, <4>1, <4>3, KeepBetterIsOK
      <4> HIDE DEF k
      <4>5. judge' = [judge EXCEPT ![p] = Onward(k)]
        BY <3>3 DEF k
      <4> QED  BY <1>0, <2>2, <4>4, <4>5
    <3> QED  BY <1>10, <3>1, <3>2, <3>3 DEF CompareNext
  <2> QED  BY <1>7, <2>1, <2>3
<1>11. ASSUME NEW p \in Player, AddPot(p)
       PROVE  Goal
  <2> SUFFICES ASSUME ~torn' PROVE Payout!Next
    OBVIOUS
  <2>1. /\ judge[p].at = "add" /\ judge' = [judge EXCEPT ![p].at = "clear"]
        /\ stack' = [stack EXCEPT ![judge[p].best] = @ + pot] /\ UNCHANGED inHand
        /\ \A q \in Player \ {p} : judge[q].at # "clear"
    BY <1>11 DEF AddPot, Tear, Awarding
  <2>2. PotLeft = pot
    BY <2>1 DEF PotLeft
  <2>3. judge'[p].at = "clear"
    BY <1>0, <2>1 DEF Judgements
  <2>4. PotLeft' = 0
    BY <2>3 DEF PotLeft
  <2>5. judge[p].best \in Player
    BY <1>0, <2>1 DEF Inv, JudgeInv, JudgeOK, Judgements
  <2> QED  BY <2>1, <2>2, <2>4, <2>5 DEF Payout!Next, Payout!Win
<1>12. ASSUME NEW p \in Player, ClearPot(p)
       PROVE  Goal
  <2>1. judge[p].at = "clear" /\ pot' = 0 /\ UNCHANGED <<stack, inHand>>
    BY <1>12 DEF ClearPot
  <2>2. PotLeft = 0 /\ PotLeft' = 0
    BY <2>1 DEF PotLeft
  <2> QED  BY <2>1, <2>2
<1>13. CASE UNCHANGED vars
  BY <1>13, SamePotLeft DEF vars, chips
<1> QED
  BY <1>1, <1>2, <1>3, <1>4, <1>5, <1>6, <1>8, <1>9, <1>10, <1>11, <1>12, <1>13
     DEF Next, CheckAndDetermineWinner

\* For all deals, players and chips, with any number of judgements side by side:
\* until two of them, or one of them and a bet, meet at the pot, chips only go
\* between the pot and players of the hand, and the pot leaves whole, to one player.
THEOREM ShowdownImplementsPayout ==
    Spec => PotGoesToOne
<1>1. Spec => Payout!Init
  BY InitStartsPayout, PTL DEF Spec
<1>2. Spec => [][torn' \/ Payout!Next]_<<inHand, stack, PotLeft>>
  BY InvHolds, StepIsPayout, PTL DEF Spec
<1> QED
  BY <1>1, <1>2, PTL DEF PotGoesToOne
=============================================================================
