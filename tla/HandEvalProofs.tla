---------------------------- MODULE HandEvalProofs ----------------------------
(***************************************************************************)
(* Evaluate of pkg/game/eval.go is right, for decks of any ranks and suits *)
(* and every seven cards of one: a hand gets the strength of its kind      *)
(* (StrengthIsKind), generateCombinations goes over all fives              *)
(* (CombinationsAreAll), and what the loop over them returns is beaten by  *)
(* no other five, unless the first five are nothing and it panics          *)
(* (EvaluateFindsTheBest).                                                 *)
(*                                                                         *)
(* A sorted hand is told by how often each rank comes in it (Many), seven  *)
(* cards by the places a rank has among them (With).  The delicate part is *)
(* the last: of two hands of one kind the higher card by card may be the   *)
(* lower group by group, but not when both come of the same seven cards    *)
(* and no five of them are higher card by card.                            *)
(***************************************************************************)
EXTENDS HandEval, FiniteSetFacts, TLAPS

-----------------------------------------------------------------------------
(* Counting places. *)

\* What the place i adds to the size of a set of places.
In(i, S) == IF i \in S THEN 1 ELSE 0

\* The size of a set of places of a hand is a sum over the five places.
LEMMA SizeOfPlaces ==
    ASSUME NEW S \in SUBSET (1 .. 5)
    PROVE  Cardinality(S) = In(1, S) + In(2, S) + In(3, S) + In(4, S) + In(5, S)
<1> DEFINE upTo(k) == S \cap (1 .. k)
<1>1. ASSUME NEW k \in Nat
      PROVE  /\ Cardinality(upTo(k)) \in Nat
             /\ Cardinality(upTo(k + 1)) = Cardinality(upTo(k)) + In(k + 1, S)
  <2>1. IsFiniteSet(1 .. k) /\ upTo(k) \subseteq 1 .. k
    BY FS_Interval
  <2>2. IsFiniteSet(upTo(k)) /\ Cardinality(upTo(k)) \in Nat
    BY <2>1, FS_Subset, FS_CardinalityType
  <2>3. CASE k + 1 \in S
    <3>1. upTo(k + 1) = upTo(k) \cup {k + 1} /\ k + 1 \notin upTo(k)
      BY <2>3
    <3>2. Cardinality(upTo(k) \cup {k + 1}) = Cardinality(upTo(k)) + 1
      BY <2>2, <3>1, FS_AddElement
    <3> QED  BY <2>2, <2>3, <3>1, <3>2 DEF In
  <2>4. CASE k + 1 \notin S
    <3>1. upTo(k + 1) = upTo(k)
      BY <2>4
    <3>2. In(k + 1, S) = 0
      BY <2>4 DEF In
    <3> HIDE DEF upTo
    <3> QED  BY <2>2, <3>1, <3>2
  <2> QED  BY <2>3, <2>4
<1>2. upTo(0) = {} /\ upTo(5) = S
  <2>1. 1 .. 0 = {}
    OBVIOUS
  <2>2. upTo(5) = S
    OBVIOUS
  <2> QED  BY <2>1, <2>2
<1>3. Cardinality(upTo(0)) = 0
  BY <1>2, FS_EmptySet
<1> DEFINE c(k) == Cardinality(upTo(k))
<1>4. /\ c(1) = c(0) + In(1, S) /\ c(2) = c(1) + In(2, S) /\ c(3) = c(2) + In(3, S)
      /\ c(4) = c(3) + In(4, S) /\ c(5) = c(4) + In(5, S)
  <2>1. /\ c(0 + 1) = c(0) + In(0 + 1, S) /\ c(1 + 1) = c(1) + In(1 + 1, S)
        /\ c(2 + 1) = c(2) + In(2 + 1, S) /\ c(3 + 1) = c(3) + In(3 + 1, S)
        /\ c(4 + 1) = c(4) + In(4 + 1, S)
    <3> HIDE DEF upTo
    <3> QED  BY <1>1
  <2>2. 0 + 1 = 1 /\ 1 + 1 = 2 /\ 2 + 1 = 3 /\ 3 + 1 = 4 /\ 4 + 1 = 5
    OBVIOUS
  <2> HIDE DEF c
  <2> QED  BY <2>1, <2>2
<1>5. c(0) = 0 /\ c(5) = Cardinality(S)
  BY <1>2, <1>3
<1> HIDE DEF c
<1> QED  BY <1>4, <1>5 DEF In

One(b) == IF b THEN 1 ELSE 0

\* How often a number comes among five, and how often a greater one.
LEMMA CountIsSum ==
    ASSUME NEW f \in [1 .. 5 -> Int], NEW r \in Int
    PROVE  /\ Count(f, r) = One(f[1] = r) + One(f[2] = r) + One(f[3] = r)
                               + One(f[4] = r) + One(f[5] = r)
           /\ Cardinality({i \in 1 .. 5 : f[i] > r}) =
                 One(f[1] > r) + One(f[2] > r) + One(f[3] > r) + One(f[4] > r) + One(f[5] > r)
           /\ Cardinality({i \in 1 .. 5 : f[i] >= r}) =
                 One(f[1] >= r) + One(f[2] >= r) + One(f[3] >= r) + One(f[4] >= r) + One(f[5] >= r)
<1> DEFINE E == {i \in 1 .. 5 : f[i] = r}
           G == {i \in 1 .. 5 : f[i] > r}
           F == {i \in 1 .. 5 : f[i] >= r}
<1>1. \A i \in 1 .. 5 : /\ In(i, E) = One(f[i] = r) /\ In(i, G) = One(f[i] > r)
                        /\ In(i, F) = One(f[i] >= r)
  BY DEF In, One
<1>2. E \in SUBSET (1 .. 5) /\ G \in SUBSET (1 .. 5) /\ F \in SUBSET (1 .. 5)
  OBVIOUS
<1> HIDE DEF E, F, G
<1>3. /\ In(1, E) = One(f[1] = r) /\ In(2, E) = One(f[2] = r) /\ In(3, E) = One(f[3] = r)
      /\ In(4, E) = One(f[4] = r) /\ In(5, E) = One(f[5] = r)
      /\ In(1, G) = One(f[1] > r) /\ In(2, G) = One(f[2] > r) /\ In(3, G) = One(f[3] > r)
      /\ In(4, G) = One(f[4] > r) /\ In(5, G) = One(f[5] > r)
      /\ In(1, F) = One(f[1] >= r) /\ In(2, F) = One(f[2] >= r) /\ In(3, F) = One(f[3] >= r)
      /\ In(4, F) = One(f[4] >= r) /\ In(5, F) = One(f[5] >= r)
  BY <1>1
<1>4. /\ Cardinality(E) = In(1, E) + In(2, E) + In(3, E) + In(4, E) + In(5, E)
      /\ Cardinality(G) = In(1, G) + In(2, G) + In(3, G) + In(4, G) + In(5, G)
      /\ Cardinality(F) = In(1, F) + In(2, F) + In(3, F) + In(4, F) + In(5, F)
  BY <1>2, SizeOfPlaces
<1> QED  BY <1>3, <1>4 DEF Count, E, F, G

-----------------------------------------------------------------------------
(* Sorting: the k-th highest of five numbers. *)

KthHighest(f, k, r) ==
    /\ Cardinality({i \in 1 .. 5 : f[i] > r}) < k
    /\ Cardinality({i \in 1 .. 5 : f[i] >= r}) >= k

\* Of five numbers there is a k-th highest.
LEMMA KthHighestExists ==
    ASSUME NEW f \in [1 .. 5 -> Int], NEW k \in 1 .. 5
    PROVE  \E r \in Range(f) : KthHighest(f, k, r)
<1> DEFINE G(r) == One(f[1] > r) + One(f[2] > r) + One(f[3] > r) + One(f[4] > r) + One(f[5] > r)
           F(r) == One(f[1] >= r) + One(f[2] >= r) + One(f[3] >= r) + One(f[4] >= r) + One(f[5] >= r)
<1>1. f[1] \in Int /\ f[2] \in Int /\ f[3] \in Int /\ f[4] \in Int /\ f[5] \in Int
  OBVIOUS
<1> DEFINE Kth(n, i) == G(f[i]) < n /\ F(f[i]) >= n
<1>2. Kth(k, 1) \/ Kth(k, 2) \/ Kth(k, 3) \/ Kth(k, 4) \/ Kth(k, 5)
  <2>1. Kth(1, 1) \/ Kth(1, 2) \/ Kth(1, 3) \/ Kth(1, 4) \/ Kth(1, 5)
    BY <1>1 DEF One
  <2>2. Kth(2, 1) \/ Kth(2, 2) \/ Kth(2, 3) \/ Kth(2, 4) \/ Kth(2, 5)
    BY <1>1 DEF One
  <2>3. Kth(3, 1) \/ Kth(3, 2) \/ Kth(3, 3) \/ Kth(3, 4) \/ Kth(3, 5)
    BY <1>1 DEF One
  <2>4. Kth(4, 1) \/ Kth(4, 2) \/ Kth(4, 3) \/ Kth(4, 4) \/ Kth(4, 5)
    BY <1>1 DEF One
  <2>5. Kth(5, 1) \/ Kth(5, 2) \/ Kth(5, 3) \/ Kth(5, 4) \/ Kth(5, 5)
    BY <1>1 DEF One
  <2>6. k = 1 \/ k = 2 \/ k = 3 \/ k = 4 \/ k = 5
    OBVIOUS
  <2> HIDE DEF Kth
  <2> QED  BY <2>1, <2>2, <2>3, <2>4, <2>5, <2>6
<1>3. \E i \in 1 .. 5 : G(f[i]) < k /\ F(f[i]) >= k
  BY <1>2
<1>4. PICK i \in 1 .. 5 : G(f[i]) < k /\ F(f[i]) >= k
  BY <1>3
<1>5. f[i] \in Int /\ f[i] \in Range(f)
  BY DEF Range
<1>6. /\ Cardinality({j \in 1 .. 5 : f[j] > f[i]}) = G(f[i])
      /\ Cardinality({j \in 1 .. 5 : f[j] >= f[i]}) = F(f[i])
  BY <1>5, CountIsSum
<1>7. KthHighest(f, k, f[i])
  <2> HIDE DEF F, G
  <2> QED  BY <1>4, <1>6 DEF KthHighest
<1> QED  BY <1>5, <1>7

\* Of two numbers the greater one is more often reached than the lesser exceeded.
LEMMA KthHighestFalls ==
    ASSUME NEW f \in [1 .. 5 -> Int], NEW k \in 1 .. 5, NEW m \in 1 .. 5, k <= m,
           NEW r \in Int, KthHighest(f, k, r), NEW q \in Int, KthHighest(f, m, q)
    PROVE  r >= q
<1> SUFFICES ASSUME r < q PROVE FALSE
  OBVIOUS
<1> DEFINE G(x) == One(f[1] > x) + One(f[2] > x) + One(f[3] > x) + One(f[4] > x) + One(f[5] > x)
           F(x) == One(f[1] >= x) + One(f[2] >= x) + One(f[3] >= x) + One(f[4] >= x) + One(f[5] >= x)
<1>1. f[1] \in Int /\ f[2] \in Int /\ f[3] \in Int /\ f[4] \in Int /\ f[5] \in Int
  OBVIOUS
<1>2. F(q) <= G(r) /\ F(q) \in Int /\ G(r) \in Int
  BY <1>1 DEF One
<1>3. G(r) < k /\ F(q) >= m
  <2>1. /\ Cardinality({j \in 1 .. 5 : f[j] > r}) = G(r)
        /\ Cardinality({j \in 1 .. 5 : f[j] >= q}) = F(q)
    BY CountIsSum
  <2> HIDE DEF F, G
  <2> QED  BY <2>1 DEF KthHighest
<1> HIDE DEF F, G
<1> QED  BY <1>2, <1>3

Ranks(hand) == [i \in 1 .. 5 |-> hand[i].rank]

\* The ranks of a hand are numbers from two to the ace.
LEMMA HandHasRanks ==
    ASSUME NEW hand \in [1 .. 5 -> Card]
    PROVE  /\ Ranks(hand) \in [1 .. 5 -> Int]
           /\ \A i \in 1 .. 5 : Ranks(hand)[i] = hand[i].rank /\ hand[i].rank \in 2 .. Ace
<1>1. \A i \in 1 .. 5 : hand[i].rank \in 2 .. Ace
  BY DEF Card
<1>2. \A r \in 2 .. Ace : r \in Int
  BY AceAssumption
<1> QED  BY <1>1, <1>2 DEF Ranks

\* The ranks from high to low are the ranks of the hand, each as often as it comes.
LEMMA HighToLowSorts ==
    ASSUME NEW hand \in [1 .. 5 -> Card]
    PROVE  /\ HighToLow(hand) \in [1 .. 5 -> Int]
           /\ \A i \in 1 .. 4 : HighToLow(hand)[i] >= HighToLow(hand)[i + 1]
           /\ Range(HighToLow(hand)) = Range(Ranks(hand))
           /\ \A r \in Int : Count(HighToLow(hand), r) = Count(Ranks(hand), r)
<1> DEFINE f == Ranks(hand)
           s == HighToLow(hand)
<1>1. f \in [1 .. 5 -> Int] /\ Range(f) \subseteq Int
  BY HandHasRanks DEF Range
<1>2. s = [k \in 1 .. 5 |-> CHOOSE r \in Range(f) : KthHighest(f, k, r)]
  BY DEF HighToLow, KthHighest, Ranks
<1> HIDE DEF f, s
<1>3. \A k \in 1 .. 5 : s[k] \in Range(f) /\ s[k] \in Int /\ KthHighest(f, k, s[k])
  BY <1>1, <1>2, KthHighestExists
<1>4. s \in [1 .. 5 -> Int]
  BY <1>2, <1>3
<1>5. \A i \in 1 .. 4 : s[i] >= s[i + 1]
  <2> SUFFICES ASSUME NEW i \in 1 .. 4 PROVE s[i] >= s[i + 1]
    OBVIOUS
  <2>1. i \in 1 .. 5 /\ i + 1 \in 1 .. 5 /\ i <= i + 1
    OBVIOUS
  <2> QED  BY <1>1, <1>3, <2>1, KthHighestFalls
<1>6. ASSUME NEW r \in Int
      PROVE  Count(s, r) = Count(f, r)
  <2> DEFINE g == Cardinality({i \in 1 .. 5 : f[i] > r})
             e == Cardinality({i \in 1 .. 5 : f[i] >= r})
  <2>1. /\ g \in 0 .. 5 /\ e \in 0 .. 5 /\ g <= e /\ Count(f, r) = e - g
        /\ g < e => r \in Range(f)
    <3>1. f[1] \in Int /\ f[2] \in Int /\ f[3] \in Int /\ f[4] \in Int /\ f[5] \in Int
      BY <1>1
    <3>2. /\ g = One(f[1] > r) + One(f[2] > r) + One(f[3] > r) + One(f[4] > r) + One(f[5] > r)
          /\ e = One(f[1] >= r) + One(f[2] >= r) + One(f[3] >= r) + One(f[4] >= r) + One(f[5] >= r)
          /\ Count(f, r) = One(f[1] = r) + One(f[2] = r) + One(f[3] = r)
                              + One(f[4] = r) + One(f[5] = r)
      BY <1>1, CountIsSum
    <3> HIDE DEF g, e
    <3>3. /\ g \in 0 .. 5 /\ e \in 0 .. 5 /\ g <= e /\ Count(f, r) = e - g
          /\ g < e => \/ r = f[1] \/ r = f[2] \/ r = f[3] \/ r = f[4] \/ r = f[5]
      BY <3>1, <3>2 DEF One
    <3>4. f[1] \in Range(f) /\ f[2] \in Range(f) /\ f[3] \in Range(f) /\ f[4] \in Range(f)
          /\ f[5] \in Range(f)
      BY <1>1 DEF Range
    <3> QED  BY <3>3, <3>4
  <2>2. {k \in 1 .. 5 : s[k] = r} = g + 1 .. e
    <3>1. ASSUME NEW k \in 1 .. 5, s[k] = r PROVE k \in g + 1 .. e
      <4>1. g < k /\ e >= k
        BY <1>3, <3>1 DEF KthHighest
      <4> HIDE DEF g, e
      <4> QED  BY <2>1, <4>1
    <3>2. ASSUME NEW k \in g + 1 .. e PROVE k \in 1 .. 5 /\ s[k] = r
      <4>1. k \in 1 .. 5 /\ g < k /\ e >= k
        <5> HIDE DEF g, e
        <5> QED  BY <2>1
      <4>2. KthHighest(f, k, r)
        BY <4>1 DEF KthHighest
      <4>3. s[k] >= r /\ r >= s[k] /\ s[k] \in Int
        BY <1>1, <1>3, <4>1, <4>2, KthHighestFalls
      <4> QED  BY <4>1, <4>3
    <3> HIDE DEF g, e
    <3> QED  BY <3>1, <3>2
  <2> HIDE DEF g, e
  <2>3. Cardinality(g + 1 .. e) = e - g
    <3>1. g + 1 \in Int /\ e \in Int
      BY <2>1
    <3>2. Cardinality(g + 1 .. e) = IF g + 1 > e THEN 0 ELSE e - (g + 1) + 1
      BY <3>1, FS_Interval
    <3> QED  BY <2>1, <3>2
  <2> QED  BY <2>1, <2>2, <2>3 DEF Count
<1>7. Range(s) = Range(f)
  <2>1. Range(s) \subseteq Range(f)
    BY <1>3, <1>4 DEF Range
  <2>2. ASSUME NEW i \in 1 .. 5 PROVE f[i] \in Range(s)
    <3> DEFINE r == f[i]
    <3>1. r \in Int /\ Count(s, r) = Count(f, r)
      BY <1>1, <1>6
    <3>2. Count(f, r) >= 1
      <4>1. Count(f, r) = One(f[1] = r) + One(f[2] = r) + One(f[3] = r)
                             + One(f[4] = r) + One(f[5] = r)
        BY <1>1, <3>1, CountIsSum
      <4>2. f[1] = r \/ f[2] = r \/ f[3] = r \/ f[4] = r \/ f[5] = r
        OBVIOUS
      <4> HIDE DEF r
      <4> QED  BY <4>1, <4>2 DEF One
    <3>3. {k \in 1 .. 5 : s[k] = r} # {}
      <4>1. SUFFICES ASSUME {k \in 1 .. 5 : s[k] = r} = {} PROVE FALSE
        OBVIOUS
      <4>2. Count(s, r) = 0
        BY <4>1, FS_EmptySet DEF Count
      <4> HIDE DEF r
      <4> QED  BY <3>1, <3>2, <4>2
    <3> QED  BY <1>4, <3>3 DEF Range
  <2> QED  BY <1>1, <2>1, <2>2 DEF Range
<1> QED  BY <1>4, <1>5, <1>6, <1>7 DEF s, f

-----------------------------------------------------------------------------
(* Five ranks from high to low, and the groups of equal ones. *)

Sorted(s) == s \in [1 .. 5 -> Int] /\ \A i \in 1 .. 4 : s[i] >= s[i + 1]

\* Five numbers from high to low, written out.
LEMMA SortedRanks ==
    ASSUME NEW s, Sorted(s)
    PROVE  /\ s[1] \in Int /\ s[2] \in Int /\ s[3] \in Int /\ s[4] \in Int /\ s[5] \in Int
           /\ s[1] >= s[2] /\ s[2] >= s[3] /\ s[3] >= s[4] /\ s[4] >= s[5]
           /\ Range(s) = {s[1], s[2], s[3], s[4], s[5]}
           /\ s = <<s[1], s[2], s[3], s[4], s[5]>>
<1>1. s \in [1 .. 5 -> Int]
  BY DEF Sorted
<1>2. s[1] >= s[1 + 1] /\ s[2] >= s[2 + 1] /\ s[3] >= s[3 + 1] /\ s[4] >= s[4 + 1]
  BY DEF Sorted
<1>3. Range(s) = {s[1], s[2], s[3], s[4], s[5]}
  <2>1. \A i \in 1 .. 5 : i = 1 \/ i = 2 \/ i = 3 \/ i = 4 \/ i = 5
    OBVIOUS
  <2> QED  BY <1>1, <2>1 DEF Range
<1>4. s = <<s[1], s[2], s[3], s[4], s[5]>>
  BY <1>1
<1> QED  BY <1>1, <1>2, <1>3, <1>4

\* There is one rank more than there are steps down.
LEMMA DistinctRanks ==
    ASSUME NEW s, Sorted(s)
    PROVE  Cardinality(Range(s)) =
              1 + One(s[1] # s[2]) + One(s[2] # s[3]) + One(s[3] # s[4]) + One(s[4] # s[5])
<1> DEFINE A == {s[1]}
           B == A \cup {s[2]}
           C == B \cup {s[3]}
           D == C \cup {s[4]}
           E == D \cup {s[5]}
<1>1. E = Range(s)
  BY SortedRanks
<1>2. /\ s[2] \in A <=> s[1] = s[2]
      /\ s[3] \in B <=> s[2] = s[3]
      /\ s[4] \in C <=> s[3] = s[4]
      /\ s[5] \in D <=> s[4] = s[5]
  BY SortedRanks
<1>3. /\ IsFiniteSet(A) /\ Cardinality(A) = 1
      /\ IsFiniteSet(B) /\ Cardinality(B) = Cardinality(A) + One(s[2] \notin A)
      /\ IsFiniteSet(C) /\ Cardinality(C) = Cardinality(B) + One(s[3] \notin B)
      /\ IsFiniteSet(D) /\ Cardinality(D) = Cardinality(C) + One(s[4] \notin C)
      /\ IsFiniteSet(E) /\ Cardinality(E) = Cardinality(D) + One(s[5] \notin D)
  <2>1. ASSUME NEW S, NEW x, IsFiniteSet(S)
        PROVE  /\ IsFiniteSet(S \cup {x})
               /\ Cardinality(S \cup {x}) = Cardinality(S) + One(x \notin S)
    <3>1. Cardinality(S) \in Nat /\ Cardinality(S) + 0 = Cardinality(S)
      BY <2>1, FS_CardinalityType
    <3> QED  BY <2>1, <3>1, FS_AddElement DEF One
  <2>2. IsFiniteSet(A) /\ Cardinality(A) = 1
    BY FS_Singleton
  <2> HIDE DEF A
  <2>3. IsFiniteSet(B) /\ Cardinality(B) = Cardinality(A) + One(s[2] \notin A)
    BY <2>1, <2>2
  <2> HIDE DEF B
  <2>4. IsFiniteSet(C) /\ Cardinality(C) = Cardinality(B) + One(s[3] \notin B)
    BY <2>1, <2>3
  <2> HIDE DEF C
  <2>5. IsFiniteSet(D) /\ Cardinality(D) = Cardinality(C) + One(s[4] \notin C)
    BY <2>1, <2>4
  <2> HIDE DEF D
  <2>6. IsFiniteSet(E) /\ Cardinality(E) = Cardinality(D) + One(s[5] \notin D)
    BY <2>1, <2>5
  <2> QED  BY <2>2, <2>3, <2>4, <2>5, <2>6
<1> HIDE DEF A, B, C, D, E
<1> QED  BY <1>1, <1>2, <1>3 DEF One

\* The ranks that come n times.
Times(s, n) == {r \in Range(s) : Count(s, r) = n}

\* A wheel from high to low.
LEMMA WheelIsAceLow ==
    ASSUME NEW hand \in [1 .. 5 -> Card]
    PROVE  {hand[i].rank : i \in 1 .. 5} = {2, 3, 4, 5, Ace} <=> IsAceLow(HighToLow(hand))
<1> DEFINE s == HighToLow(hand)
<1>1. {hand[i].rank : i \in 1 .. 5} = Range(s)
  <2>1. {hand[i].rank : i \in 1 .. 5} = Range(Ranks(hand))
    BY DEF Ranks, Range
  <2> QED  BY <2>1, HighToLowSorts
<1>2. Sorted(s)
  BY HighToLowSorts DEF Sorted
<1> HIDE DEF s
<1>3. Ace \in Nat /\ Ace >= 7
  BY AceAssumption
<1>4. ASSUME Range(s) = {2, 3, 4, 5, Ace} PROVE s = <<Ace, 5, 4, 3, 2>>
  <2>1. /\ s[1] \in {2, 3, 4, 5, Ace} /\ s[2] \in {2, 3, 4, 5, Ace}
        /\ s[3] \in {2, 3, 4, 5, Ace} /\ s[4] \in {2, 3, 4, 5, Ace} /\ s[5] \in {2, 3, 4, 5, Ace}
        /\ 2 \in {s[1], s[2], s[3], s[4], s[5]} /\ 3 \in {s[1], s[2], s[3], s[4], s[5]}
        /\ 4 \in {s[1], s[2], s[3], s[4], s[5]} /\ 5 \in {s[1], s[2], s[3], s[4], s[5]}
        /\ Ace \in {s[1], s[2], s[3], s[4], s[5]}
    BY <1>2, <1>4, SortedRanks
  <2>2. s[1] = Ace /\ s[2] = 5 /\ s[3] = 4 /\ s[4] = 3 /\ s[5] = 2
    BY <1>2, <1>3, <2>1, SortedRanks
  <2> QED  BY <1>2, <2>2, SortedRanks
<1>5. ASSUME s = <<Ace, 5, 4, 3, 2>> PROVE Range(s) = {2, 3, 4, 5, Ace}
  <2>1. Range(s) = {Ace, 5, 4, 3, 2}
    BY <1>2, <1>5, SortedRanks
  <2> QED  BY <2>1
<1> QED  BY <1>1, <1>4, <1>5 DEF IsAceLow, s

\* But for the wheel, the groups of a hand are those of its sorted ranks.
LEMMA GroupsOfRanks ==
    ASSUME NEW hand \in [1 .. 5 -> Card], ~IsAceLow(HighToLow(hand)), NEW n \in 1 .. 4
    PROVE  Groups(hand)[n] = Times(HighToLow(hand), n)
<1>1. Pips(hand) = Ranks(hand)
  BY WheelIsAceLow DEF Pips, Ranks
<1>2. Groups(hand)[n] = {r \in Range(Ranks(hand)) : Count(Ranks(hand), r) = n}
  BY <1>1 DEF Groups
<1>3. Range(HighToLow(hand)) \subseteq Int
  BY HighToLowSorts DEF Range
<1> QED  BY <1>2, <1>3, HighToLowSorts DEF Times

\* The wheel has five single ranks, with the ace for a one.
LEMMA GroupsOfWheel ==
    ASSUME NEW hand \in [1 .. 5 -> Card], IsAceLow(HighToLow(hand))
    PROVE  /\ Groups(hand)[1] = 1 .. 5
           /\ Groups(hand)[2] = {} /\ Groups(hand)[3] = {} /\ Groups(hand)[4] = {}
<1> DEFINE s == HighToLow(hand)
           p == Pips(hand)
<1>1. Ace \in Nat /\ Ace >= 7
  BY AceAssumption
<1>2. p = [i \in 1 .. 5 |-> IF hand[i].rank = Ace THEN 1 ELSE hand[i].rank]
  BY WheelIsAceLow DEF Pips
<1>3. s = <<Ace, 5, 4, 3, 2>> /\ Range(Ranks(hand)) = {2, 3, 4, 5, Ace}
  <2>1. {hand[i].rank : i \in 1 .. 5} = Range(Ranks(hand))
    BY DEF Ranks, Range
  <2> QED  BY <2>1, WheelIsAceLow DEF IsAceLow
<1>4. /\ Count(Ranks(hand), 2) = 1 /\ Count(Ranks(hand), 3) = 1 /\ Count(Ranks(hand), 4) = 1
      /\ Count(Ranks(hand), 5) = 1 /\ Count(Ranks(hand), Ace) = 1
  <2>1. s \in [1 .. 5 -> Int] /\ \A r \in Int : Count(s, r) = Count(Ranks(hand), r)
    BY HighToLowSorts
  <2>2. s[1] = Ace /\ s[2] = 5 /\ s[3] = 4 /\ s[4] = 3 /\ s[5] = 2
    BY <1>3
  <2> HIDE DEF s
  <2>3. ASSUME NEW r \in Int
        PROVE  Count(s, r) = One(Ace = r) + One(5 = r) + One(4 = r) + One(3 = r) + One(2 = r)
    <3>1. Count(s, r) = One(s[1] = r) + One(s[2] = r) + One(s[3] = r)
                           + One(s[4] = r) + One(s[5] = r)
      BY <2>1, CountIsSum
    <3> QED  BY <2>2, <3>1
  <2>4. /\ Count(s, 2) = 1 /\ Count(s, 3) = 1 /\ Count(s, 4) = 1 /\ Count(s, 5) = 1
        /\ Count(s, Ace) = 1
    BY <1>1, <2>3 DEF One
  <2> QED  BY <1>1, <2>1, <2>4
<1>5. \A i \in 1 .. 5 : hand[i].rank \in {2, 3, 4, 5, Ace}
  BY <1>3 DEF Ranks, Range
<1> HIDE DEF p, s
<1>6. /\ Count(p, 1) = Count(Ranks(hand), Ace)
      /\ \A r \in 2 .. 5 : Count(p, r) = Count(Ranks(hand), r)
  <2>1. \A i \in 1 .. 5 : p[i] = 1 <=> Ranks(hand)[i] = Ace
    BY <1>1, <1>2, <1>5 DEF Ranks
  <2>2. \A i \in 1 .. 5 : \A r \in 2 .. 5 : p[i] = r <=> Ranks(hand)[i] = r
    BY <1>1, <1>2, <1>5 DEF Ranks
  <2> QED  BY <2>1, <2>2 DEF Count
<1>7. Range(p) = 1 .. 5
  <2>1. Range(p) \subseteq 1 .. 5
    BY <1>1, <1>2, <1>5 DEF Range
  <2>2. ASSUME NEW r \in {2, 3, 4, 5, Ace}
        PROVE  (IF r = Ace THEN 1 ELSE r) \in Range(p)
    <3>1. PICK i \in 1 .. 5 : hand[i].rank = r
      BY <1>3 DEF Ranks, Range
    <3> QED  BY <1>2, <3>1 DEF Range
  <2>3. 1 \in Range(p) /\ 2 \in Range(p) /\ 3 \in Range(p) /\ 4 \in Range(p) /\ 5 \in Range(p)
    BY <1>1, <2>2
  <2>4. \A r \in 1 .. 5 : r = 1 \/ r = 2 \/ r = 3 \/ r = 4 \/ r = 5
    OBVIOUS
  <2> QED  BY <2>1, <2>3, <2>4
<1>8. \A r \in 1 .. 5 : Count(p, r) = 1
  <2>1. Count(p, 1) = 1 /\ Count(p, 2) = 1 /\ Count(p, 3) = 1 /\ Count(p, 4) = 1 /\ Count(p, 5) = 1
    BY <1>4, <1>6
  <2>2. \A r \in 1 .. 5 : r = 1 \/ r = 2 \/ r = 3 \/ r = 4 \/ r = 5
    OBVIOUS
  <2> QED  BY <2>1, <2>2
<1>9. \A n \in 1 .. 4 : Groups(hand)[n] = {r \in Range(p) : Count(p, r) = n}
  BY DEF Groups, p
<1> QED  BY <1>7, <1>8, <1>9

-----------------------------------------------------------------------------
(* The kind of a hand. *)

\* Five different cards.
Hand == {h \in [1 .. 5 -> Card] : \A i, j \in 1 .. 5 : i # j => h[i] # h[j]}

Flat(hand) == \A i, j \in 1 .. 5 : hand[i].suit = hand[j].suit

\* Cards of one suit have different ranks.
LEMMA SuitedRanksDiffer ==
    ASSUME NEW hand \in Hand, Flat(hand), NEW r \in Int
    PROVE  Count(HighToLow(hand), r) <= 1
<1>1. hand \in [1 .. 5 -> Card]
  BY DEF Hand
<1> DEFINE f == Ranks(hand)
<1>2. f \in [1 .. 5 -> Int] /\ Count(HighToLow(hand), r) = Count(f, r)
  BY <1>1, HandHasRanks, HighToLowSorts
<1>3. \A i, j \in 1 .. 5 : i # j => f[i] # f[j]
  <2> SUFFICES ASSUME NEW i \in 1 .. 5, NEW j \in 1 .. 5, i # j, f[i] = f[j]
               PROVE  FALSE
    OBVIOUS
  <2>1. hand[i].rank = hand[j].rank /\ hand[i].suit = hand[j].suit
    BY <1>1, HandHasRanks DEF Flat
  <2>2. hand[i] \in Card /\ hand[j] \in Card
    BY <1>1
  <2>3. hand[i] = hand[j]
    BY <2>1, <2>2 DEF Card
  <2> QED  BY <2>3 DEF Hand
<1> HIDE DEF f
<1>4. /\ f[1] # f[2] /\ f[1] # f[3] /\ f[1] # f[4] /\ f[1] # f[5] /\ f[2] # f[3]
      /\ f[2] # f[4] /\ f[2] # f[5] /\ f[3] # f[4] /\ f[3] # f[5] /\ f[4] # f[5]
  BY <1>3
<1>5. Count(f, r) = One(f[1] = r) + One(f[2] = r) + One(f[3] = r)
                       + One(f[4] = r) + One(f[5] = r)
  BY <1>2, CountIsSum
<1>6. One(f[1] = r) + One(f[2] = r) + One(f[3] = r) + One(f[4] = r) + One(f[5] = r) <= 1
  BY <1>4 DEF One
<1> QED  BY <1>2, <1>5, <1>6

\* How often each of five sorted ranks comes depends on which neighbours are equal.
LEMMA CountsOfSorted ==
    ASSUME NEW s, Sorted(s), NEW i \in 1 .. 5
    PROVE  Count(s, s[i]) = One(s[1] = s[i]) + One(s[2] = s[i]) + One(s[3] = s[i])
                               + One(s[4] = s[i]) + One(s[5] = s[i])
<1>1. s \in [1 .. 5 -> Int] /\ s[i] \in Int
  BY DEF Sorted
<1> QED  BY <1>1, CountIsSum

\* The tests of the code on the number of ranks and on group sizes come to those
\* on groups, and a hand with a group of several has no five in a row.
LEMMA GroupsOfSorted ==
    ASSUME NEW s, Sorted(s)
    PROVE  LET distinct == Cardinality(Range(s))
               pairs == Times(s, 2)
               threes == Times(s, 3)
           IN  /\ distinct = 3 /\ threes = {} <=> \E r, q \in pairs : r # q
               /\ distinct = 4 <=> threes = {} /\ \E r \in pairs : pairs = {r}
               /\ Times(s, 4) # {} => threes = {} /\ pairs = {} /\ distinct = 2
               /\ threes # {} => distinct <= 3
               /\ (\A r \in Int : Count(s, r) <= 1) =>
                     pairs = {} /\ threes = {} /\ Times(s, 4) = {} /\ distinct = 5
<1> DEFINE c(i) == One(s[1] = s[i]) + One(s[2] = s[i]) + One(s[3] = s[i])
                      + One(s[4] = s[i]) + One(s[5] = s[i])
<1>1. Count(s, s[1]) = c(1) /\ Count(s, s[2]) = c(2) /\ Count(s, s[3]) = c(3)
      /\ Count(s, s[4]) = c(4) /\ Count(s, s[5]) = c(5)
  <2> HIDE DEF c
  <2>1. \A i \in 1 .. 5 : Count(s, s[i]) = c(i)
    BY CountsOfSorted DEF c
  <2> QED  BY <2>1
<1> DEFINE distinct == 1 + One(s[1] # s[2]) + One(s[2] # s[3]) + One(s[3] # s[4])
                         + One(s[4] # s[5])
<1>2. Cardinality(Range(s)) = distinct
  BY DistinctRanks
<1>3. ASSUME NEW n \in 2 .. 4
      PROVE  /\ Times(s, n) # {} <=> \/ c(1) = n \/ c(2) = n \/ c(3) = n \/ c(4) = n \/ c(5) = n
             /\ \A r : r \in Times(s, n) <=> \/ (c(1) = n /\ r = s[1]) \/ (c(2) = n /\ r = s[2])
                         \/ (c(3) = n /\ r = s[3]) \/ (c(4) = n /\ r = s[4])
                         \/ (c(5) = n /\ r = s[5])
  <2>1. \A r : r \in Times(s, n) <=> /\ \/ r = s[1] \/ r = s[2] \/ r = s[3] \/ r = s[4] \/ r = s[5]
                                     /\ Count(s, r) = n
    BY SortedRanks DEF Times
  <2> HIDE DEF c
  <2>2. \A r : r \in Times(s, n) <=> \/ (c(1) = n /\ r = s[1]) \/ (c(2) = n /\ r = s[2])
                         \/ (c(3) = n /\ r = s[3]) \/ (c(4) = n /\ r = s[4])
                         \/ (c(5) = n /\ r = s[5])
    BY <1>1, <2>1
  <2> QED  BY <2>2
<1>4. /\ s[1] \in Int /\ s[2] \in Int /\ s[3] \in Int /\ s[4] \in Int /\ s[5] \in Int
      /\ s[1] >= s[2] /\ s[2] >= s[3] /\ s[3] >= s[4] /\ s[4] >= s[5]
  BY SortedRanks
<1> DEFINE some(n) == c(1) = n \/ c(2) = n \/ c(3) = n \/ c(4) = n \/ c(5) = n
           two == \/ (c(1) = 2 /\ c(2) = 2 /\ s[1] # s[2]) \/ (c(1) = 2 /\ c(3) = 2 /\ s[1] # s[3])
                  \/ (c(1) = 2 /\ c(4) = 2 /\ s[1] # s[4]) \/ (c(1) = 2 /\ c(5) = 2 /\ s[1] # s[5])
                  \/ (c(2) = 2 /\ c(3) = 2 /\ s[2] # s[3]) \/ (c(2) = 2 /\ c(4) = 2 /\ s[2] # s[4])
                  \/ (c(2) = 2 /\ c(5) = 2 /\ s[2] # s[5]) \/ (c(3) = 2 /\ c(4) = 2 /\ s[3] # s[4])
                  \/ (c(3) = 2 /\ c(5) = 2 /\ s[3] # s[5]) \/ (c(4) = 2 /\ c(5) = 2 /\ s[4] # s[5])
<1>5. /\ Times(s, 2) # {} <=> some(2)
      /\ Times(s, 3) # {} <=> some(3)
      /\ Times(s, 4) # {} <=> some(4)
  <2> HIDE DEF c
  <2> QED  BY <1>3
<1>6. (\E r, q \in Times(s, 2) : r # q) <=> two
  <2> HIDE DEF c
  <2>1. \A r : r \in Times(s, 2) <=> \/ (c(1) = 2 /\ r = s[1]) \/ (c(2) = 2 /\ r = s[2])
                         \/ (c(3) = 2 /\ r = s[3]) \/ (c(4) = 2 /\ r = s[4])
                         \/ (c(5) = 2 /\ r = s[5])
    BY <1>3
  <2>2. ASSUME NEW r \in Times(s, 2), NEW q \in Times(s, 2), r # q PROVE two
    BY <2>1, <2>2
  <2>3. ASSUME two PROVE \E r, q \in Times(s, 2) : r # q
    BY <2>1, <2>3
  <2> QED  BY <2>2, <2>3
<1>7. (\E r \in Times(s, 2) : Times(s, 2) = {r}) <=> Times(s, 2) # {} /\ ~ \E r, q \in Times(s, 2) : r # q
  OBVIOUS
<1>8. /\ distinct = 3 /\ ~some(3) <=> two
      /\ distinct = 4 <=> ~some(3) /\ some(2) /\ ~two
      /\ some(4) => ~some(3) /\ ~some(2) /\ distinct = 2
      /\ some(3) => distinct <= 3
      /\ c(1) <= 1 /\ c(2) <= 1 /\ c(3) <= 1 /\ c(4) <= 1 /\ c(5) <= 1
            => ~some(2) /\ ~some(3) /\ ~some(4) /\ distinct = 5
  <2>1. distinct = 3 /\ ~some(3) <=> two
    BY <1>4 DEF One
  <2>2. distinct = 4 <=> ~some(3) /\ some(2) /\ ~two
    BY <1>4 DEF One
  <2>3. some(4) => ~some(3) /\ ~some(2) /\ distinct = 2
    BY <1>4 DEF One
  <2>4. some(3) => distinct <= 3
    BY <1>4 DEF One
  <2>5. c(1) <= 1 /\ c(2) <= 1 /\ c(3) <= 1 /\ c(4) <= 1 /\ c(5) <= 1
            => ~some(2) /\ ~some(3) /\ ~some(4) /\ distinct = 5
    BY <1>4 DEF One
  <2> QED  BY <2>1, <2>2, <2>3, <2>4, <2>5
<1> HIDE DEF c, some, two, distinct
<1>9. (\A r \in Int : Count(s, r) <= 1)
         => c(1) <= 1 /\ c(2) <= 1 /\ c(3) <= 1 /\ c(4) <= 1 /\ c(5) <= 1
  BY <1>1, <1>4
<1> QED  BY <1>2, <1>5, <1>6, <1>7, <1>8, <1>9

\* Five in a row: what is left of a straight when it is not the wheel.
InARow(s) == \A i \in 1 .. 4 : s[i] = s[i + 1] + 1

\* The loop of checkStraight, each rank one above the next, finds the runs.
LEMMA RowsAreRuns ==
    ASSUME NEW s, Sorted(s), Range(s) \subseteq 2 .. Ace
    PROVE  /\ IsRun(Times(s, 1)) <=> InARow(s)
           /\ InARow(s) => /\ Times(s, 1) = s[5] .. s[5] + 4 /\ s[1] = s[5] + 4
                           /\ \A r \in Int : Count(s, r) <= 1
<1>1. /\ s[1] \in Int /\ s[2] \in Int /\ s[3] \in Int /\ s[4] \in Int /\ s[5] \in Int
      /\ s[1] >= s[2] /\ s[2] >= s[3] /\ s[3] >= s[4] /\ s[4] >= s[5]
      /\ Range(s) = {s[1], s[2], s[3], s[4], s[5]} /\ s[1] \in 2 .. Ace /\ s[5] \in 2 .. Ace
  BY SortedRanks
<1>2. InARow(s) <=> s[1] = s[2] + 1 /\ s[2] = s[3] + 1 /\ s[3] = s[4] + 1 /\ s[4] = s[5] + 1
  <2>1. InARow(s) => s[1] = s[1 + 1] + 1 /\ s[2] = s[2 + 1] + 1 /\ s[3] = s[3 + 1] + 1
                        /\ s[4] = s[4 + 1] + 1
    BY DEF InARow
  <2>2. \A i \in 1 .. 4 : i = 1 \/ i = 2 \/ i = 3 \/ i = 4
    OBVIOUS
  <2> QED  BY <2>1, <2>2 DEF InARow
<1>3. ASSUME NEW r \in Int
      PROVE  Count(s, r) = One(s[1] = r) + One(s[2] = r) + One(s[3] = r)
                              + One(s[4] = r) + One(s[5] = r)
  BY CountIsSum DEF Sorted
<1>4. ASSUME InARow(s)
      PROVE  /\ Times(s, 1) = s[5] .. s[5] + 4 /\ s[1] = s[5] + 4
             /\ \A r \in Int : Count(s, r) <= 1
  <2>1. s[1] = s[5] + 4 /\ s[2] = s[5] + 3 /\ s[3] = s[5] + 2 /\ s[4] = s[5] + 1
    BY <1>1, <1>2, <1>4
  <2>5. s[1] > s[2] /\ s[2] > s[3] /\ s[3] > s[4] /\ s[4] > s[5]
    BY <1>1, <2>1
  <2>2. ASSUME NEW r \in Int PROVE Count(s, r) <= 1
    <3>1. /\ s[1] \in Int /\ s[2] \in Int /\ s[3] \in Int /\ s[4] \in Int /\ s[5] \in Int
      BY <1>1
    <3>2. One(s[1] = r) + One(s[2] = r) + One(s[3] = r) + One(s[4] = r) + One(s[5] = r) <= 1
      BY <2>5, <3>1 DEF One
    <3> QED  BY <1>3, <3>2
  <2>3. Range(s) = s[5] .. s[5] + 4
    BY <1>1, <2>1
  <2>4. ASSUME NEW r \in Range(s) PROVE Count(s, r) = 1
    <3>1. /\ s[1] \in Int /\ s[2] \in Int /\ s[3] \in Int /\ s[4] \in Int /\ s[5] \in Int
          /\ r \in Int /\ (r = s[1] \/ r = s[2] \/ r = s[3] \/ r = s[4] \/ r = s[5])
      BY <1>1
    <3>2. One(s[1] = r) + One(s[2] = r) + One(s[3] = r) + One(s[4] = r) + One(s[5] = r) = 1
      BY <2>5, <3>1 DEF One
    <3> QED  BY <1>3, <3>1, <3>2
  <2> QED  BY <2>1, <2>2, <2>3, <2>4 DEF Times
<1>5. ASSUME NEW low \in 1 .. Ace - 4, Times(s, 1) = low .. low + 4
      PROVE  InARow(s)
  <2>1. low \in Int /\ low .. low + 4 \subseteq Range(s)
    BY <1>5, AceAssumption DEF Times
  <2>2. /\ low \in Range(s) /\ low + 1 \in Range(s) /\ low + 2 \in Range(s)
        /\ low + 3 \in Range(s) /\ low + 4 \in Range(s)
    BY <2>1
  <2>3. /\ \/ low = s[1] \/ low = s[2] \/ low = s[3] \/ low = s[4] \/ low = s[5]
        /\ \/ low + 1 = s[1] \/ low + 1 = s[2] \/ low + 1 = s[3] \/ low + 1 = s[4] \/ low + 1 = s[5]
        /\ \/ low + 2 = s[1] \/ low + 2 = s[2] \/ low + 2 = s[3] \/ low + 2 = s[4] \/ low + 2 = s[5]
        /\ \/ low + 3 = s[1] \/ low + 3 = s[2] \/ low + 3 = s[3] \/ low + 3 = s[4] \/ low + 3 = s[5]
        /\ \/ low + 4 = s[1] \/ low + 4 = s[2] \/ low + 4 = s[3] \/ low + 4 = s[4] \/ low + 4 = s[5]
    BY <1>1, <2>2
  <2>4. s[1] = s[2] + 1 /\ s[2] = s[3] + 1 /\ s[3] = s[4] + 1 /\ s[4] = s[5] + 1
    BY <1>1, <2>1, <2>3
  <2> QED  BY <1>2, <2>4
<1>6. InARow(s) => IsRun(Times(s, 1))
  <2> SUFFICES ASSUME InARow(s) PROVE \E low \in 1 .. Ace - 4 : Times(s, 1) = low .. low + 4
    BY DEF IsRun
  <2>1. s[5] \in 1 .. Ace - 4
    BY <1>1, <1>4, AceAssumption
  <2> QED  BY <1>4, <2>1
<1> QED  BY <1>4, <1>5, <1>6 DEF IsRun

\* What HighToLow returns is sorted and made of ranks.
LEMMA HighToLowRange ==
    ASSUME NEW hand \in [1 .. 5 -> Card]
    PROVE  Range(HighToLow(hand)) \subseteq 2 .. Ace /\ Sorted(HighToLow(hand))
<1>1. Range(Ranks(hand)) \subseteq 2 .. Ace
  BY HandHasRanks DEF Range, Ranks
<1> QED  BY <1>1, HighToLowSorts DEF Sorted

\* checkStraight finds the runs.
LEMMA StraightsAreRuns ==
    ASSUME NEW hand \in [1 .. 5 -> Card]
    PROVE  LET s == HighToLow(hand)
               groups == Groups(hand)
           IN  /\ IsRun(groups[1]) <=> CheckStraight(s)
               /\ CheckStraight(s) => /\ groups[2] = {} /\ groups[3] = {} /\ groups[4] = {}
                                      /\ groups[1] = Ace - 4 .. Ace
                                            <=> ~(IsAceLow(s) \/ s[1] # Ace)
<1> DEFINE s == HighToLow(hand)
           groups == Groups(hand)
<1>1. Ace \in Nat /\ Ace >= 7
  BY AceAssumption
<1>2. Sorted(s) /\ Range(s) \subseteq 2 .. Ace
  BY HighToLowRange
<1>3. CheckStraight(s) <=> IsAceLow(s) \/ InARow(s)
  BY DEF CheckStraight, InARow
<1>4. CASE IsAceLow(s)
  <2>1. groups[1] = 1 .. 5 /\ groups[2] = {} /\ groups[3] = {} /\ groups[4] = {}
    BY <1>4, GroupsOfWheel
  <2>2. IsRun(groups[1])
    <3>1. 1 \in 1 .. Ace - 4 /\ groups[1] = 1 .. 1 + 4
      BY <1>1, <2>1
    <3> QED  BY <3>1 DEF IsRun
  <2>3. groups[1] # Ace - 4 .. Ace
    <3>1. 1 \in 1 .. 5 /\ 1 \notin Ace - 4 .. Ace
      BY <1>1
    <3> QED  BY <2>1, <3>1
  <2> HIDE DEF s, groups
  <2> QED  BY <1>3, <1>4, <2>1, <2>2, <2>3 DEF s, groups
<1>5. CASE ~IsAceLow(s)
  <2>1. \A n \in 1 .. 4 : groups[n] = Times(s, n)
    BY <1>5, GroupsOfRanks
  <2> HIDE DEF s, groups
  <2>2. IsRun(groups[1]) <=> CheckStraight(s)
    BY <1>2, <1>3, <1>5, <2>1, RowsAreRuns
  <2>3. ASSUME CheckStraight(s)
        PROVE  /\ groups[2] = {} /\ groups[3] = {} /\ groups[4] = {}
               /\ groups[1] = Ace - 4 .. Ace <=> ~(IsAceLow(s) \/ s[1] # Ace)
    <3>1. /\ groups[1] = s[5] .. s[5] + 4 /\ s[1] = s[5] + 4
          /\ \A r \in Int : Count(s, r) <= 1
      BY <1>2, <1>3, <1>5, <2>1, <2>3, RowsAreRuns
    <3>2. groups[2] = {} /\ groups[3] = {} /\ groups[4] = {}
      BY <1>2, <2>1, <3>1, GroupsOfSorted
    <3>3. s[5] .. s[5] + 4 = Ace - 4 .. Ace <=> s[5] + 4 = Ace
      <4>1. s[5] \in Int
        BY <1>2, SortedRanks
      <4>2. s[5] \in s[5] .. s[5] + 4 /\ s[5] + 4 \in s[5] .. s[5] + 4
        BY <4>1
      <4> QED  BY <1>1, <4>1, <4>2
    <3> QED  BY <1>5, <3>1, <3>2, <3>3
  <2> QED  BY <2>2, <2>3 DEF s, groups
<1> QED  BY <1>4, <1>5

\* The kind of a hand by groups is the strength evaluate5CardHand gives it.
THEOREM StrengthIsKind ==
    ASSUME NEW hand \in Hand
    PROVE  Evaluate5CardHand(hand).strength = Kind(hand)
<1> DEFINE s == HighToLow(hand)
           groups == Groups(hand)
           sizes == {Count(s, r) : r \in Range(s)}
           distinct == Cardinality(Range(s))
           flat == Flat(hand)
           run == CheckStraight(s)
<1>1. hand \in [1 .. 5 -> Card]
  BY DEF Hand
<1>2. Sorted(s) /\ Range(s) \subseteq 2 .. Ace
  BY <1>1, HighToLowRange
<1>3. CheckFlush(hand) <=> flat
  <2>1. flat => CheckFlush(hand)
    BY DEF Flat, CheckFlush
  <2>2. ASSUME CheckFlush(hand) PROVE flat
    <3>1. \A i \in 1 .. 5 : hand[i].suit = hand[1].suit
      BY <2>2 DEF CheckFlush
    <3> QED  BY <3>1 DEF Flat
  <2> QED  BY <2>1, <2>2
<1>4. /\ 4 \in sizes <=> Times(s, 4) # {}
      /\ 3 \in sizes <=> Times(s, 3) # {}
      /\ 2 \in sizes <=> Times(s, 2) # {}
  BY DEF Times
<1>5. /\ IsRun(groups[1]) <=> run
      /\ run => /\ groups[2] = {} /\ groups[3] = {} /\ groups[4] = {}
                /\ groups[1] = Ace - 4 .. Ace <=> ~(IsAceLow(s) \/ s[1] # Ace)
  BY <1>1, StraightsAreRuns
<1>6. ~IsAceLow(s) => \A n \in 1 .. 4 : groups[n] = Times(s, n)
  BY <1>1, GroupsOfRanks
<1>7. flat => \A r \in Int : Count(s, r) <= 1
  BY SuitedRanksDiffer
<1>8. run => \A r \in Int : Count(s, r) <= 1
  <2>1. CASE IsAceLow(s)
    <3>1. s[1] = Ace /\ s[2] = 5 /\ s[3] = 4 /\ s[4] = 3 /\ s[5] = 2
      BY <2>1 DEF IsAceLow
    <3> HIDE DEF s
    <3> SUFFICES ASSUME NEW r \in Int PROVE Count(s, r) <= 1
      OBVIOUS
    <3>2. Count(s, r) = One(s[1] = r) + One(s[2] = r) + One(s[3] = r)
                           + One(s[4] = r) + One(s[5] = r)
      BY <1>2, CountIsSum DEF Sorted
    <3> QED  BY <3>1, <3>2, AceAssumption DEF One
  <2>2. CASE InARow(s)
    BY <1>2, <2>2, RowsAreRuns
  <2> QED  BY <2>1, <2>2 DEF CheckStraight, InARow
<1> DEFINE pairs == Times(s, 2)
           threes == Times(s, 3)
           fours == Times(s, 4)
           two == \E r, q \in pairs : r # q
           one == \E r \in pairs : pairs = {r}
<1>9. /\ distinct = 3 /\ threes = {} <=> two
      /\ distinct = 4 <=> threes = {} /\ one
      /\ fours # {} => threes = {} /\ pairs = {} /\ distinct = 2
      /\ threes # {} => distinct <= 3
      /\ (\A r \in Int : Count(s, r) <= 1) =>
            pairs = {} /\ threes = {} /\ fours = {} /\ distinct = 5
  BY <1>2, GroupsOfSorted
<1>10. distinct \in Int
  <2>1. Cardinality(Range(s)) =
           1 + One(s[1] # s[2]) + One(s[2] # s[3]) + One(s[3] # s[4]) + One(s[4] # s[5])
    BY <1>2, DistinctRanks
  <2> HIDE DEF s
  <2> QED  BY <2>1 DEF One
<1>11. Evaluate5CardHand(hand).strength =
          CASE run /\ CheckFlush(hand) ->
                    IF IsAceLow(s) \/ s[1] # Ace THEN StraightFlush ELSE RoyalFlush
              [] 4 \in sizes -> FourOfAKind
              [] 3 \in sizes /\ 2 \in sizes -> FullHouse
              [] CheckFlush(hand) /\ ~run -> Flush
              [] run /\ ~CheckFlush(hand) -> Straight
              [] 3 \in sizes /\ 2 \notin sizes -> ThreeOfAKind
              [] distinct = 3 /\ 3 \notin sizes -> TwoPair
              [] distinct = 4 -> OnePair
              [] OTHER -> HighCard
  BY DEF Evaluate5CardHand
<1>12. Kind(hand) =
          CASE IsRun(groups[1]) /\ flat ->
                    IF groups[1] = Ace - 4 .. Ace THEN RoyalFlush ELSE StraightFlush
              [] groups[4] # {} -> FourOfAKind
              [] groups[3] # {} /\ groups[2] # {} -> FullHouse
              [] flat /\ ~IsRun(groups[1]) -> Flush
              [] IsRun(groups[1]) /\ ~flat -> Straight
              [] groups[3] # {} /\ groups[2] = {} -> ThreeOfAKind
              [] \E r, q \in groups[2] : r # q -> TwoPair
              [] groups[3] = {} /\ \E r \in groups[2] : groups[2] = {r} -> OnePair
              [] OTHER -> HighCard
  BY DEF Kind, Flat
<1> HIDE DEF s, groups, sizes, distinct, flat, run
<1>13. CASE run
  <2>1. pairs = {} /\ threes = {} /\ fours = {} /\ distinct = 5
    BY <1>8, <1>9, <1>13
  <2>2. ~one /\ ~two
    BY <2>1
  <2>3. groups[2] = {} /\ groups[3] = {} /\ groups[4] = {} /\ IsRun(groups[1])
    BY <1>5, <1>13
  <2>4. CASE flat
    BY <1>3, <1>4, <1>5, <1>11, <1>12, <1>13, <2>1, <2>2, <2>3, <2>4
  <2>5. CASE ~flat
    BY <1>3, <1>4, <1>5, <1>11, <1>12, <1>13, <2>1, <2>2, <2>3, <2>5
  <2> QED  BY <2>4, <2>5
<1>14. CASE ~run
  <2>1. ~IsAceLow(s) /\ ~IsRun(groups[1])
    BY <1>5, <1>14 DEF CheckStraight, run
  <2>2. groups[2] = pairs /\ groups[3] = threes /\ groups[4] = fours
    BY <1>6, <2>1
  <2>3. flat => pairs = {} /\ threes = {} /\ fours = {} /\ distinct = 5
    BY <1>7, <1>9
  <2> HIDE DEF pairs, threes, fours
  <2>4. /\ two <=> \E r, q \in groups[2] : r # q
        /\ one <=> \E r \in groups[2] : groups[2] = {r}
    BY <2>2
  <2>5. pairs = {} => ~one /\ ~two
    OBVIOUS
  <2>6. ~(one /\ two)
    OBVIOUS
  <2> HIDE DEF one, two
  <2> DEFINE many == 4 \in sizes
             three == 3 \in sizes
             pair == 2 \in sizes
  <2>7. /\ many <=> fours # {}
        /\ three <=> threes # {}
        /\ pair <=> pairs # {}
    BY <1>4 DEF pairs, threes, fours
  <2> HIDE DEF many, three, pair
  <2>8. Kind(hand) =
          CASE fours # {} -> FourOfAKind
              [] threes # {} /\ pairs # {} -> FullHouse
              [] flat -> Flush
              [] threes # {} /\ pairs = {} -> ThreeOfAKind
              [] two -> TwoPair
              [] threes = {} /\ one -> OnePair
              [] OTHER -> HighCard
    BY <1>12, <1>14, <2>1, <2>2, <2>3, <2>4
  <2>9. Evaluate5CardHand(hand).strength =
          CASE many -> FourOfAKind
              [] three /\ pair -> FullHouse
              [] flat -> Flush
              [] three /\ ~pair -> ThreeOfAKind
              [] distinct = 3 /\ ~three -> TwoPair
              [] distinct = 4 -> OnePair
              [] OTHER -> HighCard
    BY <1>3, <1>11, <1>14 DEF many, three, pair
  <2>10. /\ distinct = 3 /\ ~three <=> two
         /\ distinct = 4 <=> ~three /\ one
         /\ many => ~three /\ ~pair /\ distinct = 2
         /\ three => distinct <= 3
         /\ flat => ~pair /\ ~three /\ ~many /\ distinct = 5
         /\ ~pair => ~one /\ ~two
    BY <1>9, <2>3, <2>5, <2>7 DEF pairs, threes, fours, one, two
  <2>11. CASE many
    BY <2>7, <2>8, <2>9, <2>10, <2>11
  <2>12. CASE ~many /\ flat
    BY <1>10, <2>7, <2>8, <2>9, <2>10, <2>12
  <2>13. CASE ~many /\ ~flat /\ three
    BY <1>10, <2>7, <2>8, <2>9, <2>10, <2>13
  <2>14. CASE ~many /\ ~flat /\ ~three
    BY <1>10, <2>7, <2>8, <2>9, <2>10, <2>14
  <2> QED  BY <2>11, <2>12, <2>13, <2>14
<1> QED  BY <1>13, <1>14

-----------------------------------------------------------------------------
(* Card by card is a strict order. *)

\* The first difference, place by place.
LEMMA HigherUnfolds ==
    ASSUME NEW a, NEW b
    PROVE  Higher(a, b) <=>
              \/ a[1] > b[1]
              \/ (a[1] = b[1] /\ a[2] > b[2])
              \/ (a[1] = b[1] /\ a[2] = b[2] /\ a[3] > b[3])
              \/ (a[1] = b[1] /\ a[2] = b[2] /\ a[3] = b[3] /\ a[4] > b[4])
              \/ (a[1] = b[1] /\ a[2] = b[2] /\ a[3] = b[3] /\ a[4] = b[4] /\ a[5] > b[5])
<1> DEFINE first(i) == a[i] > b[i] /\ \A j \in 1 .. i - 1 : a[j] = b[j]
<1>1. first(1) <=> a[1] > b[1]
  OBVIOUS
<1>2. first(2) <=> a[1] = b[1] /\ a[2] > b[2]
  <2>1. \A j \in 1 .. 2 - 1 : j = 1
    OBVIOUS
  <2> QED  BY <2>1
<1>3. first(3) <=> a[1] = b[1] /\ a[2] = b[2] /\ a[3] > b[3]
  <2>1. \A j \in 1 .. 3 - 1 : j = 1 \/ j = 2
    OBVIOUS
  <2> QED  BY <2>1
<1>4. first(4) <=> a[1] = b[1] /\ a[2] = b[2] /\ a[3] = b[3] /\ a[4] > b[4]
  <2>1. \A j \in 1 .. 4 - 1 : j = 1 \/ j = 2 \/ j = 3
    OBVIOUS
  <2> QED  BY <2>1
<1>5. first(5) <=> a[1] = b[1] /\ a[2] = b[2] /\ a[3] = b[3] /\ a[4] = b[4] /\ a[5] > b[5]
  <2>1. \A j \in 1 .. 5 - 1 : j = 1 \/ j = 2 \/ j = 3 \/ j = 4
    OBVIOUS
  <2> QED  BY <2>1
<1>6. Higher(a, b) <=> first(1) \/ first(2) \/ first(3) \/ first(4) \/ first(5)
  <2>1. Higher(a, b) <=> \E i \in 1 .. 5 : first(i)
    BY DEF Higher
  <2> HIDE DEF first
  <2>2. \A i \in 1 .. 5 : i = 1 \/ i = 2 \/ i = 3 \/ i = 4 \/ i = 5
    OBVIOUS
  <2> QED  BY <2>1, <2>2
<1> QED  BY <1>1, <1>2, <1>3, <1>4, <1>5, <1>6

Five == [1 .. 5 -> Int]

\* Comparing card by card is a strict linear order.
LEMMA HigherIsOrder ==
    ASSUME NEW a \in Five, NEW b \in Five, NEW c \in Five
    PROVE  /\ ~Higher(a, a)
           /\ Higher(a, b) => ~Higher(b, a)
           /\ Higher(a, b) /\ Higher(b, c) => Higher(a, c)
           /\ Higher(a, b) /\ ~Higher(c, b) => ~Higher(c, a)
           /\ Higher(a, b) \/ Higher(b, a) \/ a = b
<1>1. /\ a[1] \in Int /\ a[2] \in Int /\ a[3] \in Int /\ a[4] \in Int /\ a[5] \in Int
      /\ b[1] \in Int /\ b[2] \in Int /\ b[3] \in Int /\ b[4] \in Int /\ b[5] \in Int
      /\ c[1] \in Int /\ c[2] \in Int /\ c[3] \in Int /\ c[4] \in Int /\ c[5] \in Int
  BY DEF Five
<1>2. ~Higher(a, a)
  BY <1>1, HigherUnfolds
<1>3. Higher(a, b) => ~Higher(b, a)
  BY <1>1, HigherUnfolds
<1>4. Higher(a, b) /\ Higher(b, c) => Higher(a, c)
  BY <1>1, HigherUnfolds
<1>5. Higher(a, b) /\ ~Higher(c, b) => ~Higher(c, a)
  BY <1>1, HigherUnfolds
<1>6. Higher(a, b) \/ Higher(b, a) \/ a = b
  <2> SUFFICES ASSUME ~Higher(a, b), ~Higher(b, a) PROVE a = b
    OBVIOUS
  <2>1. a[1] = b[1] /\ a[2] = b[2] /\ a[3] = b[3] /\ a[4] = b[4] /\ a[5] = b[5]
    BY <1>1, HigherUnfolds
  <2>2. \A i \in 1 .. 5 : a[i] = b[i]
    <3>1. \A i \in 1 .. 5 : i = 1 \/ i = 2 \/ i = 3 \/ i = 4 \/ i = 5
      OBVIOUS
    <3> QED  BY <2>1, <3>1
  <2> QED  BY <2>2 DEF Five
<1> QED  BY <1>2, <1>3, <1>4, <1>5, <1>6

-----------------------------------------------------------------------------
(* The 21 choices. *)

\* In a strict order of a finite set each number of predecessors belongs to one
\* member.
Below(S, R, x) == {y \in S : <<y, x>> \in R}

\* In a finite set with a strict linear order each place from the first to the
\* last is taken by one member: that with as many below it.
LEMMA EachHasItsPlace ==
    ASSUME NEW S, IsFiniteSet(S), NEW R \in SUBSET (S \X S),
           \A x \in S : <<x, x>> \notin R,
           \A x, y, z \in S : <<x, y>> \in R /\ <<y, z>> \in R => <<x, z>> \in R,
           \A x, y \in S : x # y => <<x, y>> \in R \/ <<y, x>> \in R
    PROVE  /\ \A x \in S : Cardinality(Below(S, R, x)) + 1 \in 1 .. Cardinality(S)
           /\ \A x, y \in S :
                 Cardinality(Below(S, R, x)) = Cardinality(Below(S, R, y)) => x = y
           /\ \A k \in 1 .. Cardinality(S) : \E x \in S :
                 Cardinality(Below(S, R, x)) = k - 1
<1> DEFINE below(x) == {y \in S : <<y, x>> \in R}
           f == [x \in S |-> Cardinality(below(x)) + 1]
           n == Cardinality(S)
<1>1. n \in Nat
  BY FS_CardinalityType
<1>2. ASSUME NEW x \in S
      PROVE  /\ IsFiniteSet(below(x)) /\ Cardinality(below(x)) \in Nat
             /\ Cardinality(below(x)) < n
  <2>1. below(x) \in SUBSET S /\ below(x) # S
    OBVIOUS
  <2> HIDE DEF below
  <2> QED  BY <1>1, <2>1, FS_Subset, FS_CardinalityType
<1>3. ASSUME NEW x \in S, NEW y \in S, <<x, y>> \in R
      PROVE  Cardinality(below(x)) # Cardinality(below(y))
  <2>1. below(x) \in SUBSET below(y) /\ x \in below(y) /\ x \notin below(x)
    BY <1>3
  <2> HIDE DEF below
  <2> QED  BY <1>2, <2>1, FS_Subset
<1>4. \A x, y \in S : Cardinality(below(x)) = Cardinality(below(y)) => x = y
  <2> HIDE DEF below
  <2> QED  BY <1>3
<1> HIDE DEF below
<1>5. f \in [S -> 1 .. n]
  BY <1>1, <1>2
<1>6. f \in Injection(S, 1 .. n)
  <2>1. \A x, y \in S : f[x] = f[y] => x = y
    BY <1>2, <1>4
  <2> HIDE DEF f
  <2> QED  BY <1>5, <2>1 DEF Injection, IsInjective
<1>7. f \in Surjection(S, 1 .. n)
  <2>1. IsFiniteSet(1 .. n) /\ Cardinality(1 .. n) = n
    BY <1>1, FS_Interval
  <2> HIDE DEF f
  <2> QED  BY <1>6, <2>1, FS_Injection
<1>8. ASSUME NEW k \in 1 .. n PROVE \E x \in S : Cardinality(below(x)) = k - 1
  <2>1. PICK x \in S : f[x] = k
    <3> HIDE DEF f
    <3> QED  BY <1>7 DEF Surjection
  <2> QED  BY <1>2, <2>1
<1>9. \A x \in S : Cardinality(below(x)) + 1 \in 1 .. n
  BY <1>1, <1>2
<1> QED  BY <1>4, <1>8, <1>9 DEF below, Below

\* All but two of seven places are five, in their order.
LEMMA AllButMakesFive ==
    ASSUME NEW x \in 1 .. 6, NEW y \in x + 1 .. 7
    PROVE  /\ AllBut(x, y) \in [1 .. 5 -> 1 .. 7]
           /\ \A i, j \in 1 .. 5 : i < j => AllBut(x, y)[i] < AllBut(x, y)[j]
           /\ Range(AllBut(x, y)) = (1 .. 7) \ {x, y}
<1> DEFINE c == AllBut(x, y)
<1>1. \A i \in 1 .. 5 : c[i] = IF i < x THEN i ELSE IF i + 1 < y THEN i + 1 ELSE i + 2
  BY DEF AllBut
<1>2. DOMAIN c = 1 .. 5 /\ c = [i \in 1 .. 5 |-> c[i]]
  BY DEF AllBut
<1> HIDE DEF c
<1>3. x \in Int /\ y \in Int /\ x < y /\ 1 <= x /\ y <= 7
  OBVIOUS
<1>4. \A i \in 1 .. 5 : c[i] \in (1 .. 7) \ {x, y}
  BY <1>1, <1>3
<1>5. \A i, j \in 1 .. 5 : i < j => c[i] < c[j]
  BY <1>1, <1>3
<1>6. ASSUME NEW z \in (1 .. 7) \ {x, y} PROVE \E i \in 1 .. 5 : c[i] = z
  <2>1. CASE z < x
    <3>1. z \in 1 .. 5 /\ c[z] = z
      BY <1>1, <1>3, <2>1
    <3> QED  BY <3>1
  <2>2. CASE x < z /\ z < y
    <3>1. z - 1 \in 1 .. 5 /\ c[z - 1] = z
      BY <1>1, <1>3, <2>2
    <3> QED  BY <3>1
  <2>3. CASE y < z
    <3>1. z - 2 \in 1 .. 5 /\ c[z - 2] = z
      BY <1>1, <1>3, <2>3
    <3> QED  BY <3>1
  <2> QED  BY <1>3, <2>1, <2>2, <2>3
<1>7. Range(c) = (1 .. 7) \ {x, y}
  BY <1>2, <1>4, <1>6 DEF Range
<1> QED  BY <1>2, <1>4, <1>5, <1>7 DEF c

\* A member of Fives leaves two places out.
LEMMA FivesAreAllBut ==
    ASSUME NEW c \in Fives
    PROVE  \E x \in 1 .. 6 : \E y \in x + 1 .. 7 : c = AllBut(x, y)
  BY DEF Fives

\* Whichever two places are left out, the others are in Fives.
LEMMA AllButIsFive ==
    ASSUME NEW x \in 1 .. 6, NEW y \in x + 1 .. 7
    PROVE  AllBut(x, y) \in Fives
  BY DEF Fives

\* The places of a choice increase.
LEMMA FivesIncrease ==
    ASSUME NEW c \in Fives
    PROVE  /\ c \in [1 .. 5 -> 1 .. 7] /\ c \in Five
           /\ \A i, j \in 1 .. 5 : i < j => c[i] < c[j]
<1>1. PICK x \in 1 .. 6, y \in 1 .. 7 : y \in x + 1 .. 7 /\ c = AllBut(x, y)
  <2>1. PICK x \in 1 .. 6 : \E y \in x + 1 .. 7 : c = AllBut(x, y)
    BY FivesAreAllBut
  <2> QED  BY <2>1
<1> QED  BY <1>1, AllButMakesFive DEF Five

\* There are 21 ways to choose five of seven.
LEMMA TwentyOneFives ==
    IsFiniteSet(Fives) /\ Cardinality(Fives) = 21
<1> DEFINE row(x) == {AllBut(x, y) : y \in x + 1 .. 7}
           rows(k) == UNION {row(x) : x \in 1 .. k}
<1>1. ASSUME NEW x \in 1 .. 6
      PROVE  IsFiniteSet(row(x)) /\ Cardinality(row(x)) = 7 - x
  <2> DEFINE f == [y \in x + 1 .. 7 |-> AllBut(x, y)]
  <2>1. f \in [x + 1 .. 7 -> row(x)]
    OBVIOUS
  <2>2. ASSUME NEW y \in x + 1 .. 7, NEW z \in x + 1 .. 7, f[y] = f[z] PROVE y = z
    <3>1. (1 .. 7) \ {x, y} = (1 .. 7) \ {x, z}
      BY <2>2, AllButMakesFive
    <3>2. y \in 1 .. 7 /\ z \in 1 .. 7 /\ y # x /\ z # x
      OBVIOUS
    <3> QED  BY <3>1, <3>2
  <2>3. \A c \in row(x) : \E y \in x + 1 .. 7 : f[y] = c
    OBVIOUS
  <2>4. ExistsBijection(x + 1 .. 7, row(x))
    <3> HIDE DEF f, row
    <3> QED  BY <2>1, <2>2, <2>3 DEF ExistsBijection, Bijection, Injection, Surjection, IsInjective
  <2>5. IsFiniteSet(x + 1 .. 7) /\ Cardinality(x + 1 .. 7) = 7 - x
    <3>1. x + 1 \in Int /\ 7 \in Int /\ x + 1 <= 7
      OBVIOUS
    <3>2. Cardinality(x + 1 .. 7) = 7 - (x + 1) + 1
      BY <3>1, FS_Interval
    <3> QED  BY <3>1, <3>2, FS_Interval
  <2> QED  BY <2>4, <2>5, FS_Bijection
<1>2. ASSUME NEW x \in 1 .. 6, NEW u \in 1 .. 6, x # u
      PROVE  row(x) \cap row(u) = {}
  <2> SUFFICES ASSUME NEW y \in x + 1 .. 7, NEW v \in u + 1 .. 7, AllBut(x, y) = AllBut(u, v)
               PROVE  FALSE
    OBVIOUS
  <2>1. (1 .. 7) \ {x, y} = (1 .. 7) \ {u, v}
    BY AllButMakesFive
  <2>2. /\ x \in 1 .. 7 /\ y \in 1 .. 7 /\ u \in 1 .. 7 /\ v \in 1 .. 7
        /\ x < y /\ u < v
    OBVIOUS
  <2>3. {x, y} = {u, v}
    BY <2>1, <2>2
  <2> QED  BY <1>2, <2>2, <2>3
<1>3. ASSUME NEW k \in 0 .. 5, IsFiniteSet(rows(k))
      PROVE  /\ IsFiniteSet(rows(k + 1))
             /\ Cardinality(rows(k + 1)) = Cardinality(rows(k)) + (6 - k)
  <2>1. rows(k + 1) = rows(k) \cup row(k + 1)
    <3>1. 1 .. k + 1 = (1 .. k) \cup {k + 1}
      OBVIOUS
    <3> HIDE DEF row
    <3> QED  BY <3>1
  <2>2. rows(k) \cap row(k + 1) = {}
    <3>1. \A x \in 1 .. k : row(x) \cap row(k + 1) = {}
      <4>1. \A x \in 1 .. k : x \in 1 .. 6 /\ k + 1 \in 1 .. 6 /\ x # k + 1
        OBVIOUS
      <4> HIDE DEF row
      <4> QED  BY <1>2, <4>1
    <3> HIDE DEF row
    <3> QED  BY <3>1
  <2>3. IsFiniteSet(row(k + 1)) /\ Cardinality(row(k + 1)) = 7 - (k + 1)
    <3>1. k + 1 \in 1 .. 6
      OBVIOUS
    <3> HIDE DEF row
    <3> QED  BY <1>1, <3>1
  <2> HIDE DEF row, rows
  <2>4. Cardinality(rows(k) \cup row(k + 1)) =
           Cardinality(rows(k)) + Cardinality(row(k + 1)) - Cardinality({})
    BY <1>3, <2>2, <2>3, FS_Union
  <2>5. IsFiniteSet(rows(k) \cup row(k + 1))
    BY <1>3, <2>3, FS_Union
  <2>6. Cardinality({}) = 0 /\ Cardinality(rows(k)) \in Nat
    BY <1>3, FS_EmptySet, FS_CardinalityType
  <2>7. IsFiniteSet(rows(k + 1))
    BY <2>1, <2>5
  <2>8. Cardinality(rows(k + 1)) = Cardinality(rows(k)) + (7 - (k + 1)) - 0
    BY <2>1, <2>3, <2>4, <2>6
  <2> DEFINE n == Cardinality(rows(k))
             m == Cardinality(rows(k + 1))
  <2>9. m = n + (7 - (k + 1)) - 0 /\ n \in Int
    BY <2>6, <2>8
  <2> HIDE DEF n, m
  <2>10. m = n + (6 - k)
    BY <2>9
  <2> QED  BY <2>7, <2>10 DEF n, m
<1>4. rows(0) = {}
  <2>1. 1 .. 0 = {}
    OBVIOUS
  <2> HIDE DEF row
  <2> QED  BY <2>1
<1>5. rows(6) = Fives
  BY DEF Fives
<1> HIDE DEF rows
<1>6. IsFiniteSet(rows(0)) /\ Cardinality(rows(0)) = 0
  BY <1>4, FS_EmptySet
<1>7. IsFiniteSet(rows(0 + 1)) /\ Cardinality(rows(0 + 1)) = 0 + (6 - 0)
  BY <1>3, <1>6
<1>8. IsFiniteSet(rows(1 + 1)) /\ Cardinality(rows(1 + 1)) = 6 + (6 - 1)
  BY <1>3, <1>7
<1>9. IsFiniteSet(rows(2 + 1)) /\ Cardinality(rows(2 + 1)) = 11 + (6 - 2)
  BY <1>3, <1>8
<1>10. IsFiniteSet(rows(3 + 1)) /\ Cardinality(rows(3 + 1)) = 15 + (6 - 3)
  BY <1>3, <1>9
<1>11. IsFiniteSet(rows(4 + 1)) /\ Cardinality(rows(4 + 1)) = 18 + (6 - 4)
  BY <1>3, <1>10
<1>12. IsFiniteSet(rows(5 + 1)) /\ Cardinality(rows(5 + 1)) = 20 + (6 - 5)
  BY <1>3, <1>11
<1> QED  BY <1>5, <1>12

\* generateCombinations makes all choices of five of the seven cards, once each,
\* and the first five cards first.
THEOREM CombinationsAreAll ==
    /\ Combinations \in [1 .. 21 -> Fives]
    /\ Range(Combinations) = Fives
    /\ Combinations[1] = [i \in 1 .. 5 |-> i]
<1> DEFINE R == {p \in Fives \X Fives : Higher(p[2], p[1])}
           size(c) == Cardinality(Before(c))
<1>1. \A c, d \in Fives : <<d, c>> \in R <=> Higher(c, d)
  OBVIOUS
<1>2. \A c \in Fives : Before(c) = {d \in Fives : <<d, c>> \in R}
  BY <1>1 DEF Before
<1>3. \A c \in Fives : c \in Five
  BY FivesIncrease
<1>4. /\ \A c \in Fives : size(c) + 1 \in 1 .. 21
      /\ \A c, d \in Fives : size(c) = size(d) => c = d
      /\ \A k \in 1 .. 21 : \E c \in Fives : size(c) = k - 1
  <2>1. R \in SUBSET (Fives \X Fives)
    OBVIOUS
  <2>2. /\ \A x \in Fives : <<x, x>> \notin R
        /\ \A x, y, z \in Fives : <<x, y>> \in R /\ <<y, z>> \in R => <<x, z>> \in R
        /\ \A x, y \in Fives : x # y => <<x, y>> \in R \/ <<y, x>> \in R
    <3> HIDE DEF R
    <3> QED  BY <1>1, <1>3, HigherIsOrder
  <2> HIDE DEF R
  <2>3. /\ \A x \in Fives :
              Cardinality(Below(Fives, R, x)) + 1 \in 1 .. Cardinality(Fives)
        /\ \A x, y \in Fives :
              Cardinality(Below(Fives, R, x)) = Cardinality(Below(Fives, R, y)) => x = y
        /\ \A k \in 1 .. Cardinality(Fives) : \E x \in Fives :
              Cardinality(Below(Fives, R, x)) = k - 1
    <3>1. IsFiniteSet(Fives)
      BY TwentyOneFives
    <3> QED  BY <2>1, <2>2, <3>1, EachHasItsPlace
  <2>4. \A c \in Fives : Cardinality(Below(Fives, R, c)) = size(c)
    BY <1>2 DEF Below
  <2> HIDE DEF size
  <2> QED  BY <2>3, <2>4, TwentyOneFives
<1>5. \A k \in 1 .. 21 : Combinations[k] \in Fives /\ size(Combinations[k]) = k - 1
  <2> HIDE DEF size
  <2>1. \A k \in 1 .. 21 : Combinations[k] = CHOOSE c \in Fives : size(c) = k - 1
    BY DEF Combinations, size
  <2> QED  BY <1>4, <2>1
<1>6. Combinations \in [1 .. 21 -> Fives]
  BY <1>5 DEF Combinations
<1>7. ASSUME NEW c \in Fives PROVE \E k \in 1 .. 21 : Combinations[k] = c
  <2> DEFINE k == size(c) + 1
  <2>1. k \in 1 .. 21 /\ size(Combinations[k]) = k - 1 /\ Combinations[k] \in Fives
    <3> HIDE DEF size
    <3> QED  BY <1>4, <1>5
  <2>2. size(c) \in Int /\ k - 1 = size(c)
    <3>1. size(c) \in Nat
      <4>1. IsFiniteSet(Before(c))
        BY TwentyOneFives, FS_Subset DEF Before
      <4> QED  BY <4>1, FS_CardinalityType
    <3> HIDE DEF size
    <3> QED  BY <3>1
  <2> HIDE DEF size, k
  <2> QED  BY <1>4, <2>1, <2>2
<1>8. Range(Combinations) = Fives
  BY <1>6, <1>7 DEF Range
<1>9. Combinations[1] = [i \in 1 .. 5 |-> i]
  <2> DEFINE first == [i \in 1 .. 5 |-> i]
  <2>1. first = AllBut(6, 7)
    BY DEF AllBut
  <2>2. first \in Fives
    <3>1. 6 \in 1 .. 6 /\ 7 \in 6 + 1 .. 7
      OBVIOUS
    <3> HIDE DEF first
    <3> QED  BY <2>1, <3>1, AllButIsFive
  <2>3. ASSUME NEW d \in Fives PROVE ~Higher(first, d)
    <3>1. d \in [1 .. 5 -> 1 .. 7] /\ \A i, j \in 1 .. 5 : i < j => d[i] < d[j]
      BY FivesIncrease
    <3>2. /\ d[1] \in 1 .. 7 /\ d[2] \in 1 .. 7 /\ d[3] \in 1 .. 7 /\ d[4] \in 1 .. 7
          /\ d[5] \in 1 .. 7 /\ d[1] < d[2] /\ d[2] < d[3] /\ d[3] < d[4] /\ d[4] < d[5]
      BY <3>1
    <3>3. first[1] = 1 /\ first[2] = 2 /\ first[3] = 3 /\ first[4] = 4 /\ first[5] = 5
      OBVIOUS
    <3> HIDE DEF first
    <3> QED  BY <3>2, <3>3, HigherUnfolds
  <2>4. Before(first) = {}
    <3> HIDE DEF first
    <3> QED  BY <2>3 DEF Before
  <2>5. size(first) = 0
    BY <2>4, FS_EmptySet
  <2>6. size(Combinations[1]) = 0 /\ Combinations[1] \in Fives
    <3> HIDE DEF size
    <3> QED  BY <1>5
  <2> HIDE DEF size, first
  <2> QED  BY <1>4, <2>2, <2>5, <2>6 DEF first
<1> QED  BY <1>6, <1>8, <1>9

-----------------------------------------------------------------------------
(* Evaluate goes over the combinations one after the other. *)

\* A non-empty set of numbers up to n has a greatest member, and Max is it.
LEMMA MaxIsMember ==
    ASSUME NEW n \in Nat, NEW S \in SUBSET (1 .. n), S # {}
    PROVE  Max(S) \in S /\ \A y \in S : y <= Max(S)
<1> DEFINE T == {n - y : y \in S}
<1>1. T \in SUBSET Nat /\ T # {}
  <2>1. \A y \in S : n - y \in Nat
    OBVIOUS
  <2>2. PICK y \in S : TRUE
    OBVIOUS
  <2>3. n - y \in T
    OBVIOUS
  <2> QED  BY <2>1, <2>3
<1>2. PICK y \in S : Min(T) = n - y
  <2>1. Min(T) \in T
    <3> HIDE DEF T
    <3> QED  BY <1>1, MinIsMember
  <2> QED  BY <2>1
<1>3. \A z \in S : n - y <= n - z
  <2>1. \A t \in T : Min(T) <= t
    <3> HIDE DEF T
    <3> QED  BY <1>1, MinIsMember
  <2> QED  BY <1>2, <2>1
<1>4. \A z \in S : z <= y
  BY <1>3
<1> QED  BY <1>4 DEF Max

\* The hand of the k-th combination, and what the loop keeps after the
\* combinations in s, given what it keeps of fewer.
HandAt(cards, k) == Evaluate5CardHand(Chosen(cards, Combinations[k]))
KeepStep(g, cards, s) ==
    IF s = {} THEN NoHand ELSE Keep(g[s \ {Max(s)}], HandAt(cards, Max(s)))
Keeps(g, cards) ==
    g = [s \in SUBSET DOMAIN Combinations |-> KeepStep(g, cards, s)]

\* Evaluate, with the fold of the library written out.
LEMMA EvaluateIsFold ==
    ASSUME NEW cards, Len(cards) = 7
    PROVE  Evaluate(cards) = (CHOOSE g : Keeps(g, cards))[DOMAIN Combinations]
BY DEF Evaluate, FoldLeft, MapThenFoldSet, Keeps, KeepStep, HandAt

\* The function by which the fold is defined exists, as no set of combinations
\* asks for itself.
LEMMA KeepsExists ==
    ASSUME NEW cards
    PROVE  \E g : Keeps(g, cards)
<1> DEFINE S == DOMAIN Combinations
           upTo(n) == {s \in SUBSET S : Cardinality(s) <= n}
           sizes == {n \in Nat : \E g : g = [s \in upTo(n) |-> KeepStep(g, cards, s)]}
<1>1. S = 1 .. 21
  BY DEF Combinations
<1> HIDE DEF S
<1>2. IsFiniteSet(S) /\ Cardinality(S) = 21
  <2>1. \A n \in Int : IsFiniteSet(1 .. n)
           /\ Cardinality(1 .. n) = IF 1 > n THEN 0 ELSE n - 1 + 1
    BY FS_Interval
  <2>2. IsFiniteSet(1 .. 21) /\ Cardinality(1 .. 21) = IF 1 > 21 THEN 0 ELSE 21 - 1 + 1
    <3>1. 21 \in Int
      OBVIOUS
    <3> QED  BY <2>1, <3>1, Zenon
  <2>3. (IF 1 > 21 THEN 0 ELSE 21 - 1 + 1) = 21
    OBVIOUS
  <2> QED  BY <1>1, <2>2, <2>3
<1>3. \A s \in SUBSET S : IsFiniteSet(s) /\ Cardinality(s) \in Nat /\ Cardinality(s) <= 21
  BY <1>2, FS_Subset, FS_CardinalityType
<1>4. 0 \in sizes
  <2>1. \A s \in upTo(0) : s = {}
    BY <1>3, FS_EmptySet
  <2> DEFINE g == [s \in upTo(0) |-> NoHand]
  <2>2. g = [s \in upTo(0) |-> KeepStep(g, cards, s)]
    BY <2>1 DEF KeepStep
  <2> QED  BY <2>2
<1>5. ASSUME NEW n \in sizes PROVE n + 1 \in sizes
  <2>1. PICK g : g = [s \in upTo(n) |-> KeepStep(g, cards, s)]
    OBVIOUS
  <2> DEFINE h == [s \in upTo(n + 1) |-> KeepStep(g, cards, s)]
  <2>2. \A s \in upTo(n) : s \in upTo(n + 1) /\ h[s] = g[s]
    BY <1>3, <2>1
  <2>3. ASSUME NEW s \in upTo(n + 1), s # {}
        PROVE  s \ {Max(s)} \in upTo(n)
    <3>1. Max(s) \in s
      BY <1>1, <2>3, MaxIsMember
    <3>2. Cardinality(s \ {Max(s)}) = Cardinality(s) - 1
      BY <1>3, <3>1, FS_RemoveElement
    <3> QED  BY <1>3, <3>2
  <2>4. \A s \in upTo(n + 1) : KeepStep(h, cards, s) = KeepStep(g, cards, s)
    BY <2>2, <2>3 DEF KeepStep
  <2>5. h = [s \in upTo(n + 1) |-> KeepStep(h, cards, s)]
    BY <2>4
  <2>6. n + 1 \in Nat
    OBVIOUS
  <2> HIDE DEF h, upTo
  <2> QED  BY <2>5, <2>6
<1>6. sizes = Nat
  <2> sizes \in SUBSET Nat
    OBVIOUS
  <2> HIDE DEF sizes
  <2> QED  BY <1>4, <1>5, NatSetInduction
<1>7. upTo(21) = SUBSET S
  BY <1>3
<1>8. PICK g : g = [s \in upTo(21) |-> KeepStep(g, cards, s)]
  <2> HIDE DEF upTo
  <2> QED  BY <1>6
<1>9. g = [s \in SUBSET S |-> KeepStep(g, cards, s)]
  BY <1>7, <1>8
<1> QED  BY <1>9 DEF Keeps, S

\* The loop of Evaluate, round by round.
LEMMA EvaluateByRounds ==
    ASSUME NEW cards, Len(cards) = 7
    PROVE  \E best :
              /\ best[0] = NoHand
              /\ \A k \in 0 .. 20 : best[k + 1] = Keep(best[k], HandAt(cards, k + 1))
              /\ best[21] = Evaluate(cards)
<1> DEFINE g == CHOOSE g : Keeps(g, cards)
           best == [k \in 0 .. 21 |-> g[1 .. k]]
<1>1. Keeps(g, cards)
  BY KeepsExists
<1>2. Evaluate(cards) = g[DOMAIN Combinations]
  BY EvaluateIsFold
<1> HIDE DEF g
<1>3. DOMAIN Combinations = 1 .. 21
  BY DEF Combinations
<1>4. \A s \in SUBSET (1 .. 21) : g[s] = KeepStep(g, cards, s)
  BY <1>1, <1>3 DEF Keeps
<1>5. best[0] = NoHand
  <2>1. 1 .. 0 = {}
    OBVIOUS
  <2>2. g[{}] = NoHand
    BY <1>4 DEF KeepStep
  <2> QED  BY <2>1, <2>2
<1>6. ASSUME NEW k \in 0 .. 20
      PROVE  best[k + 1] = Keep(best[k], HandAt(cards, k + 1))
  <2> DEFINE s == 1 .. k + 1
  <2>1. s \in SUBSET (1 .. 21) /\ s # {} /\ k + 1 \in s
    OBVIOUS
  <2>2. Max(s) = k + 1
    <3>1. Max(s) \in s /\ \A y \in s : y <= Max(s)
      <4> HIDE DEF s
      <4> QED  BY <2>1, MaxIsMember
    <3> QED  BY <3>1
  <2>3. s \ {k + 1} = 1 .. k
    OBVIOUS
  <2>4. g[s] = Keep(g[s \ {Max(s)}], HandAt(cards, Max(s)))
    <3> HIDE DEF s
    <3> QED  BY <1>4, <2>1 DEF KeepStep
  <2>5. g[s] = Keep(g[1 .. k], HandAt(cards, k + 1))
    <3> HIDE DEF s
    <3> QED  BY <2>2, <2>3, <2>4
  <2> QED  BY <2>5
<1>7. best[21] = Evaluate(cards)
  BY <1>2, <1>3
<1> HIDE DEF best
<1> QED  BY <1>5, <1>6, <1>7

-----------------------------------------------------------------------------
(* What the loop keeps. *)

\* Seven different cards, as a deck deals them.
Seven == {cards \in [1 .. 7 -> Card] :
             /\ Len(cards) = 7
             /\ \A i, j \in 1 .. 7 : i # j => cards[i] # cards[j]}

\* What evaluate5CardHand returns.
Result == [strength : HighCard .. RoyalFlush, ranks : Five]

\* Five different places of seven different cards hold five different cards.
LEMMA ChosenIsHand ==
    ASSUME NEW cards \in Seven, NEW c \in Fives
    PROVE  Chosen(cards, c) \in Hand
<1>1. c \in [1 .. 5 -> 1 .. 7] /\ \A i, j \in 1 .. 5 : i < j => c[i] < c[j]
  BY FivesIncrease
<1>2. \A i \in 1 .. 7 : cards[i] \in Card
  BY DEF Seven
<1>3. \A i, j \in 1 .. 5 : i # j => c[i] # c[j]
  <2>1. \A i, j \in 1 .. 5 : i # j => i < j \/ j < i
    OBVIOUS
  <2>2. \A i, j \in 1 .. 5 : c[i] < c[j] => c[i] # c[j]
    BY <1>1
  <2> QED  BY <1>1, <2>1, <2>2
<1>4. \A i, j \in 1 .. 7 : i # j => cards[i] # cards[j]
  BY DEF Seven
<1> QED  BY <1>1, <1>2, <1>3, <1>4 DEF Chosen, Hand

\* A hand is evaluated to a strength and five ranks.
LEMMA EvaluationIsResult ==
    ASSUME NEW hand \in Hand
    PROVE  Evaluate5CardHand(hand) \in Result
<1> DEFINE s == HighToLow(hand)
           e == Evaluate5CardHand(hand)
<1>1. e.strength = Kind(hand)
  BY StrengthIsKind
<1>2. Kind(hand) \in HighCard .. RoyalFlush
  BY DEF Kind, HighCard, OnePair, TwoPair, ThreeOfAKind, Straight, Flush, FullHouse,
         FourOfAKind, StraightFlush, RoyalFlush
<1>3. e = [strength |-> e.strength, ranks |-> e.ranks]
  BY DEF Evaluate5CardHand
<1>4. e.ranks = IF IsAceLow(s) THEN <<5, 4, 3, 2, Ace>> ELSE s
  BY DEF Evaluate5CardHand
<1>5. s \in Five
  BY HighToLowSorts DEF Hand, Five
<1>6. <<5, 4, 3, 2, Ace>> \in Five
  BY AceAssumption DEF Five
<1> HIDE DEF s, e
<1>7. e.ranks \in Five
  BY <1>4, <1>5, <1>6
<1> QED  BY <1>1, <1>2, <1>3, <1>7 DEF Result, e

\* Over results: a first one of the lowest strength makes the loop panic; else it
\* ends with one that no other exceeds, in strength or, of its strength, in ranks.
LEMMA RoundsKeepTheBest ==
    ASSUME NEW h \in [1 .. 21 -> Result], NEW best, best[0] = NoHand,
           \A k \in 0 .. 20 : best[k + 1] = Keep(best[k], h[k + 1])
    PROVE  /\ h[1].strength = HighCard => best[21] = Panic
           /\ h[1].strength # HighCard => \E j \in 1 .. 21 :
                 /\ best[21] = h[j]
                 /\ \A i \in 1 .. 21 :
                       /\ h[i].strength <= h[j].strength
                       /\ h[i].strength = h[j].strength => ~Higher(h[i].ranks, h[j].ranks)
<1> DEFINE top(j, k) == \A i \in 1 .. k :
                          /\ h[i].strength <= h[j].strength
                          /\ h[i].strength = h[j].strength => ~Higher(h[i].ranks, h[j].ranks)
           kept(k) == /\ h[1].strength = HighCard => best[k] = Panic
                      /\ h[1].strength # HighCard =>
                            \E j \in 1 .. k : best[k] = h[j] /\ top(j, k)
           rounds == {n \in Nat : n <= 20 => kept(n + 1)}
<1>1. \A k \in 1 .. 21 : h[k].strength \in 0 .. 9 /\ h[k].ranks \in Five
  BY DEF Result, HighCard, RoyalFlush
<1>2. Panic.strength = -1 /\ NoHand.strength = 0 /\ HighCard = 0
  BY DEF Panic, NoHand, HighCard
<1>3. kept(1)
  <2>1. best[1] = Keep(NoHand, h[1])
    BY <1>2
  <2>2. NoHand # Panic
    BY <1>2
  <2>3. CASE h[1].strength = 0
    <3>1. best[1] = Panic
      BY <1>2, <2>1, <2>2, <2>3 DEF Keep
    <3> QED  BY <1>2, <2>3, <3>1
  <2>4. CASE h[1].strength # 0
    <3>1. h[1].strength > 0
      BY <1>1, <2>4
    <3>2. best[1] = h[1]
      <4>1. h[1].strength \in Int /\ ~(0 > h[1].strength)
        BY <1>1
      <4> QED  BY <1>2, <2>1, <2>2, <3>1, <4>1 DEF Keep
    <3>3. ~Higher(h[1].ranks, h[1].ranks)
      BY <1>1, HigherIsOrder
    <3>4. top(1, 1)
      BY <1>1, <3>3
    <3> QED  BY <1>2, <2>4, <3>2, <3>4
  <2> QED  BY <2>3, <2>4
<1>4. ASSUME NEW n \in Nat, n + 1 <= 20, kept(n + 1)
      PROVE  kept(n + 1 + 1)
  <2> DEFINE k == n + 1
             x == h[k + 1]
  <2>1. k \in 1 .. 20 /\ k + 1 \in 1 .. 21 /\ x.strength \in 0 .. 9 /\ x.ranks \in Five
    BY <1>1, <1>4
  <2>2. best[k + 1] = Keep(best[k], x)
    BY <2>1
  <2>3. kept(k)
    BY <1>4
  <2> SUFFICES kept(k + 1)
    OBVIOUS
  <2>4. \A i \in 1 .. k + 1 : i \in 1 .. k \/ i = k + 1
    BY <2>1
  <2> HIDE DEF k
  <2>5. CASE h[1].strength = HighCard
    <3>1. best[k] = Panic
      BY <2>3, <2>5
    <3>2. best[k + 1] = Panic
      BY <2>2, <3>1 DEF Keep
    <3> QED  BY <2>5, <3>2
  <2>6. CASE h[1].strength # HighCard
    <3>1. PICK j \in 1 .. k : best[k] = h[j] /\ top(j, k)
      BY <2>3, <2>6
    <3> DEFINE y == h[j]
    <3>2. j \in 1 .. 21 /\ y.strength \in 0 .. 9 /\ y.ranks \in Five /\ y # Panic
      BY <1>1, <1>2, <2>1
    <3>3. y.strength >= h[1].strength /\ h[1].strength \in 1 .. 9
      <4>1. 1 \in 1 .. k /\ 1 \in 1 .. 21
        BY <2>1
      <4> QED  BY <1>1, <1>2, <2>6, <3>1, <4>1
    <3>4. y # NoHand
      BY <1>2, <3>2, <3>3
    <3>5. best[k + 1] = IF y.strength > x.strength THEN y
                        ELSE IF x.strength > y.strength THEN x
                        ELSE IF Higher(x.ranks, y.ranks) THEN x ELSE y
      <4> HIDE DEF x, y
      <4>1. best[k] = y
        BY <3>1 DEF y
      <4> QED  BY <2>2, <3>2, <3>4, <4>1 DEF Keep
    <3>6. \A i \in 1 .. k : i \in 1 .. 21 /\ h[i].strength \in 0 .. 9 /\ h[i].ranks \in Five
      BY <1>1, <2>1
    <3>7. ASSUME best[k + 1] = y, y.strength >= x.strength,
                 x.strength = y.strength => ~Higher(x.ranks, y.ranks)
          PROVE  kept(k + 1)
      <4>1. top(j, k + 1)
        <5> SUFFICES ASSUME NEW i \in 1 .. k + 1
                     PROVE  /\ h[i].strength <= h[j].strength
                            /\ h[i].strength = h[j].strength => ~Higher(h[i].ranks, h[j].ranks)
          OBVIOUS
        <5>1. CASE i \in 1 .. k
          BY <3>1, <5>1
        <5>2. CASE i = k + 1
          BY <2>1, <3>2, <3>7, <5>2
        <5> QED  BY <2>4, <5>1, <5>2
      <4>2. j \in 1 .. k + 1
        BY <2>1
      <4> HIDE DEF top
      <4> QED  BY <2>6, <3>7, <4>1, <4>2
    <3>8. ASSUME best[k + 1] = x,
                 x.strength > y.strength \/ (x.strength = y.strength /\ Higher(x.ranks, y.ranks))
          PROVE  kept(k + 1)
      <4>1. top(k + 1, k + 1)
        <5> SUFFICES ASSUME NEW i \in 1 .. k + 1
                     PROVE  /\ h[i].strength <= x.strength
                            /\ h[i].strength = x.strength => ~Higher(h[i].ranks, x.ranks)
          OBVIOUS
        <5>1. CASE i \in 1 .. k
          <6>1. /\ h[i].strength <= y.strength
                /\ h[i].strength = y.strength => ~Higher(h[i].ranks, y.ranks)
            BY <3>1, <5>1
          <6>2. h[i].strength \in 0 .. 9 /\ h[i].ranks \in Five
            BY <3>6, <5>1
          <6>3. h[i].strength <= x.strength
            BY <2>1, <3>2, <3>8, <6>1, <6>2
          <6>4. ASSUME h[i].strength = x.strength PROVE ~Higher(h[i].ranks, x.ranks)
            <7>1. x.strength = y.strength /\ Higher(x.ranks, y.ranks)
              BY <2>1, <3>2, <3>8, <6>1, <6>2, <6>4
            <7>2. ~Higher(h[i].ranks, y.ranks)
              BY <6>1, <6>4, <7>1
            <7>3. Higher(h[i].ranks, x.ranks) /\ Higher(x.ranks, y.ranks)
                     => Higher(h[i].ranks, y.ranks)
              BY <2>1, <3>2, <6>2, HigherIsOrder
            <7> QED  BY <7>1, <7>2, <7>3
          <6> QED  BY <6>3, <6>4
        <5>2. CASE i = k + 1
          <6>1. ~Higher(x.ranks, x.ranks)
            BY <2>1, HigherIsOrder
          <6> QED  BY <2>1, <5>2, <6>1
        <5> QED  BY <2>4, <5>1, <5>2
      <4>2. k + 1 \in 1 .. k + 1
        BY <2>1
      <4> HIDE DEF top
      <4> QED  BY <2>6, <3>8, <4>1, <4>2
    <3> HIDE DEF kept, x, y
    <3>9. x.strength \in Int /\ y.strength \in Int
      BY <2>1, <3>2
    <3> QED  BY <3>5, <3>7, <3>8, <3>9
  <2> QED  BY <2>5, <2>6
<1> HIDE DEF kept
<1>5. 0 \in rounds
  BY <1>3
<1>6. \A n \in rounds : n + 1 \in rounds
  <2> SUFFICES ASSUME NEW n \in Nat, n <= 20 => kept(n + 1), n + 1 <= 20
               PROVE  kept(n + 1 + 1)
    OBVIOUS
  <2> QED  BY <1>4
<1>7. rounds = Nat
  <2> rounds \in SUBSET Nat
    OBVIOUS
  <2> HIDE DEF rounds
  <2> QED  BY <1>5, <1>6, NatSetInduction
<1>8. 20 \in rounds
  <2> HIDE DEF rounds
  <2> QED  BY <1>7
<1>9. kept(21)
  BY <1>8
<1> QED  BY <1>9 DEF kept

\* Evaluate returns the evaluation of five of the seven cards that make the best
\* kind of hand there is among them, and the one with the highest cards position
\* by position of that kind; unless the first five make nothing: it panics then.
LEMMA EvaluateByRanks ==
    ASSUME NEW cards \in Seven, Len(cards) = 7
    PROVE  LET first == Evaluate5CardHand([i \in 1 .. 5 |-> cards[i]])
           IN  /\ first.strength = HighCard => Evaluate(cards) = Panic
               /\ first.strength # HighCard => \E hand \in Hands(cards) :
                     /\ Evaluate(cards) = Evaluate5CardHand(hand)
                     /\ \A other \in Hands(cards) :
                           /\ Kind(other) <= Kind(hand)
                           /\ Kind(other) = Kind(hand) =>
                                 ~Higher(Evaluate5CardHand(other).ranks,
                                         Evaluate5CardHand(hand).ranks)
<1> DEFINE h == [k \in 1 .. 21 |-> HandAt(cards, k)]
           five(k) == Chosen(cards, Combinations[k])
<1>1. PICK best :
        /\ best[0] = NoHand
        /\ \A k \in 0 .. 20 : best[k + 1] = Keep(best[k], HandAt(cards, k + 1))
        /\ best[21] = Evaluate(cards)
  BY EvaluateByRounds
<1>2. \A k \in 1 .. 21 : Combinations[k] \in Fives
  BY CombinationsAreAll
<1>3. \A k \in 1 .. 21 : five(k) \in Hand /\ five(k) \in Hands(cards)
                         /\ h[k] = Evaluate5CardHand(five(k))
  BY <1>2, ChosenIsHand DEF HandAt, Hands
<1>4. h \in [1 .. 21 -> Result]
  <2>1. \A k \in 1 .. 21 : h[k] \in Result
    BY <1>3, EvaluationIsResult
  <2> QED  BY <2>1
<1>5. \A k \in 0 .. 20 : best[k + 1] = Keep(best[k], h[k + 1])
  <2>1. \A k \in 0 .. 20 : k + 1 \in 1 .. 21
    OBVIOUS
  <2> QED  BY <1>1, <2>1
<1>6. \A k \in 1 .. 21 : h[k].strength = Kind(five(k))
  BY <1>3, StrengthIsKind
<1>7. five(1) = [i \in 1 .. 5 |-> cards[i]]
  <2>1. Combinations[1] = [i \in 1 .. 5 |-> i]
    BY CombinationsAreAll
  <2> QED  BY <2>1 DEF Chosen
<1>8. \A other \in Hands(cards) : \E k \in 1 .. 21 : other = five(k)
  <2>1. \A c \in Fives : \E k \in 1 .. 21 : Combinations[k] = c
    BY CombinationsAreAll DEF Range
  <2> QED  BY <2>1 DEF Hands
<1> HIDE DEF h, five
<1>9. /\ h[1].strength = HighCard => best[21] = Panic
      /\ h[1].strength # HighCard => \E j \in 1 .. 21 :
            /\ best[21] = h[j]
            /\ \A i \in 1 .. 21 :
                  /\ h[i].strength <= h[j].strength
                  /\ h[i].strength = h[j].strength => ~Higher(h[i].ranks, h[j].ranks)
  BY <1>1, <1>4, <1>5, RoundsKeepTheBest
<1>10. h[1] = Evaluate5CardHand([i \in 1 .. 5 |-> cards[i]])
  BY <1>3, <1>7
<1>11. ASSUME h[1].strength # HighCard
       PROVE  \E hand \in Hands(cards) :
                /\ Evaluate(cards) = Evaluate5CardHand(hand)
                /\ \A other \in Hands(cards) :
                      /\ Kind(other) <= Kind(hand)
                      /\ Kind(other) = Kind(hand) =>
                            ~Higher(Evaluate5CardHand(other).ranks,
                                    Evaluate5CardHand(hand).ranks)
  <2>1. PICK j \in 1 .. 21 :
          /\ best[21] = h[j]
          /\ \A i \in 1 .. 21 :
                /\ h[i].strength <= h[j].strength
                /\ h[i].strength = h[j].strength => ~Higher(h[i].ranks, h[j].ranks)
    BY <1>9, <1>11
  <2>2. Evaluate(cards) = Evaluate5CardHand(five(j))
    BY <1>1, <1>3, <2>1
  <2>3. ASSUME NEW other \in Hands(cards)
        PROVE  /\ Kind(other) <= Kind(five(j))
               /\ Kind(other) = Kind(five(j)) =>
                     ~Higher(Evaluate5CardHand(other).ranks,
                             Evaluate5CardHand(five(j)).ranks)
    <3>1. PICK i \in 1 .. 21 : other = five(i)
      BY <1>8
    <3> QED  BY <1>3, <1>6, <2>1, <3>1
  <2> QED  BY <1>3, <2>2, <2>3
<1> QED  BY <1>1, <1>9, <1>10, <1>11

\* What can be made of seven cards are hands, and they have a kind.
LEMMA HandsAreHands ==
    ASSUME NEW cards \in Seven, NEW hand \in Hands(cards)
    PROVE  hand \in Hand /\ Kind(hand) \in HighCard .. RoyalFlush
           /\ Evaluate5CardHand(hand) \in Result
<1>1. hand \in Hand
  BY ChosenIsHand DEF Hands
<1>2. Evaluate5CardHand(hand) \in Result
  BY <1>1, EvaluationIsResult
<1> QED  BY <1>1, <1>2, StrengthIsKind DEF Result

\* A member no other exceeds is the Max of a set.
LEMMA GreatestIsMax ==
    ASSUME NEW S \in SUBSET Int, NEW x \in S, \A y \in S : y <= x
    PROVE  Max(S) = x
<1>1. Max(S) \in S /\ \A y \in S : Max(S) >= y
  BY DEF Max
<1>2. Max(S) \in Int /\ x \in Int
  BY <1>1
<1>3. Max(S) >= x /\ Max(S) <= x
  BY <1>1
<1> QED  BY <1>2, <1>3

\* The best kind of hand of seven cards is a number: there are hands.
LEMMA BestKindIsInt ==
    ASSUME NEW cards \in Seven
    PROVE  BestKind(cards) \in Int
<1> DEFINE kinds == {Kind(hand) : hand \in Hands(cards)}
           c == [i \in 1 .. 5 |-> i]
<1>1. kinds \subseteq 0 .. 9
  BY HandsAreHands DEF HighCard, RoyalFlush
<1>2. kinds # {}
  <2>1. Combinations[1] \in Fives
    BY CombinationsAreAll
  <2>2. Chosen(cards, Combinations[1]) \in Hands(cards)
    BY <2>1 DEF Hands
  <2> QED  BY <2>2
<1> HIDE DEF kinds
<1> DEFINE up == {k + 1 : k \in kinds}
<1>3. up \in SUBSET (1 .. 10) /\ up # {}
  <2>1. \A k \in kinds : k + 1 \in 1 .. 10
    BY <1>1
  <2>2. PICK k \in kinds : TRUE
    BY <1>2
  <2>3. k + 1 \in up
    OBVIOUS
  <2> QED  BY <2>1, <2>3
<1>4. PICK m \in up : \A y \in up : y <= m
  <2> HIDE DEF up
  <2> QED  BY <1>3, MaxIsMember
<1>5. m - 1 \in kinds /\ \A k \in kinds : k <= m - 1
  <2>1. PICK n \in kinds : m = n + 1
    BY <1>4
  <2>2. m - 1 = n
    BY <1>1, <2>1
  <2>3. \A k \in kinds : k \in Int /\ k + 1 <= m
    BY <1>1, <1>4
  <2>4. m \in Int
    BY <1>1, <2>1
  <2> QED  BY <2>2, <2>3, <2>4
<1>6. kinds \in SUBSET Int
  BY <1>1
<1>7. Max(kinds) = m - 1
  BY <1>5, <1>6, GreatestIsMax
<1> QED  BY <1>1, <1>5, <1>7 DEF BestKind, kinds

\* Of seven different cards Evaluate finds the best kind of hand, for whatever
\* ranks and suits, unless the first five of them make nothing: it panics then.
THEOREM EvaluateFindsTheKind ==
    ASSUME NEW cards \in Seven, Len(cards) = 7
    PROVE  LET first == Evaluate5CardHand([i \in 1 .. 5 |-> cards[i]])
           IN  IF first.strength = HighCard
               THEN Evaluate(cards) = Panic
               ELSE Evaluate(cards).strength = BestKind(cards)
<1> DEFINE first == Evaluate5CardHand([i \in 1 .. 5 |-> cards[i]])
<1>1. ASSUME first.strength # HighCard
      PROVE  Evaluate(cards).strength = BestKind(cards)
  <2>1. PICK hand \in Hands(cards) :
          /\ Evaluate(cards) = Evaluate5CardHand(hand)
          /\ \A other \in Hands(cards) : Kind(other) <= Kind(hand)
    BY <1>1, EvaluateByRanks
  <2>2. Evaluate(cards).strength = Kind(hand)
    BY <2>1, HandsAreHands, StrengthIsKind
  <2> DEFINE kinds == {Kind(other) : other \in Hands(cards)}
  <2>3. Kind(hand) \in kinds /\ \A k \in kinds : Kind(hand) >= k
    BY <2>1, HandsAreHands DEF HighCard, RoyalFlush
  <2>4. kinds \subseteq Int
    BY HandsAreHands DEF HighCard, RoyalFlush
  <2> HIDE DEF kinds
  <2>5. Max(kinds) = Kind(hand)
    <3>1. Max(kinds) \in kinds /\ \A k \in kinds : Max(kinds) >= k
      BY <2>3 DEF Max
    <3>2. Max(kinds) \in Int /\ Kind(hand) \in Int
      BY <2>3, <2>4, <3>1
    <3>3. Max(kinds) >= Kind(hand) /\ Kind(hand) >= Max(kinds)
      BY <2>3, <3>1
    <3> QED  BY <3>2, <3>3
  <2> QED  BY <2>2, <2>5 DEF BestKind, kinds
<1> QED  BY <1>1, EvaluateByRanks

-----------------------------------------------------------------------------
(* Hands of one kind.  Evaluate compares their cards position by position    *)
(* from the highest, poker compares the largest groups first.                *)

\* How many cards of a hand have this rank.
Many(hand, r) == Count(HighToLow(hand), r)

\* Cards of four different ranks are five at most.
LEMMA ManyAreFive ==
    ASSUME NEW hand \in Hand, NEW a \in Int, NEW b \in Int, NEW c \in Int, NEW d \in Int,
           a # b, a # c, a # d, b # c, b # d, c # d
    PROVE  /\ Many(hand, a) \in 0 .. 5 /\ Many(hand, b) \in 0 .. 5
           /\ Many(hand, c) \in 0 .. 5 /\ Many(hand, d) \in 0 .. 5
           /\ Many(hand, a) + Many(hand, b) + Many(hand, c) + Many(hand, d) <= 5
<1> DEFINE s == HighToLow(hand)
           sum(r) == One(s[1] = r) + One(s[2] = r) + One(s[3] = r) + One(s[4] = r) + One(s[5] = r)
<1>1. s \in [1 .. 5 -> Int]
  BY HighToLowSorts DEF Hand
<1> HIDE DEF s
<1>2. \A r \in Int : Count(s, r) = sum(r)
  BY <1>1, CountIsSum
<1> HIDE DEF sum
<1>3. \A r \in Int : Many(hand, r) = sum(r)
  BY <1>2 DEF Many, s
<1>4. \A r : sum(r) \in 0 .. 5
  BY DEF One, sum
<1>5. sum(a) + sum(b) + sum(c) + sum(d) <= 5
  <2> DEFINE at(i) == One(s[i] = a) + One(s[i] = b) + One(s[i] = c) + One(s[i] = d)
  <2>1. \A i : at(i) \in 0 .. 1
    BY DEF One
  <2>2. ASSUME NEW i \in 1 .. 5
        PROVE  /\ One(s[i] = a) \in Int /\ One(s[i] = b) \in Int
               /\ One(s[i] = c) \in Int /\ One(s[i] = d) \in Int
    BY DEF One
  <2>3. sum(a) + sum(b) + sum(c) + sum(d) = at(1) + at(2) + at(3) + at(4) + at(5)
    BY <2>2 DEF sum
  <2> HIDE DEF at
  <2> QED  BY <2>1, <2>3
<1> QED  BY <1>3, <1>4, <1>5

\* Cards of three different ranks are five at most.
LEMMA ManyAtMostFive ==
    ASSUME NEW hand \in Hand, NEW a \in Int, NEW b \in Int, NEW c \in Int,
           a # b, a # c, b # c
    PROVE  /\ Many(hand, a) \in 0 .. 5 /\ Many(hand, b) \in 0 .. 5 /\ Many(hand, c) \in 0 .. 5
           /\ Many(hand, a) + Many(hand, b) + Many(hand, c) <= 5
<1>1. PICK d \in Int : d # a /\ d # b /\ d # c
  <2>1. \/ a + 1 \notin {b, c} \/ a + 2 \notin {b, c} \/ a + 3 \notin {b, c}
    OBVIOUS
  <2> QED  BY <2>1
<1>2. /\ Many(hand, a) \in 0 .. 5 /\ Many(hand, b) \in 0 .. 5
      /\ Many(hand, c) \in 0 .. 5 /\ Many(hand, d) \in 0 .. 5
      /\ Many(hand, a) + Many(hand, b) + Many(hand, c) + Many(hand, d) <= 5
  BY <1>1, ManyAreFive
<1> DEFINE ma == Many(hand, a)
           mb == Many(hand, b)
           mc == Many(hand, c)
           md == Many(hand, d)
<1>3. /\ ma \in 0 .. 5 /\ mb \in 0 .. 5 /\ mc \in 0 .. 5 /\ md \in 0 .. 5
      /\ ma + mb + mc + md <= 5
  BY <1>2
<1> HIDE DEF ma, mb, mc, md
<1>4. ma + mb + mc <= 5
  BY <1>3
<1> QED  BY <1>3, <1>4 DEF ma, mb, mc, md

\* A rank comes up to five times.
LEMMA ManyIsCount ==
    ASSUME NEW hand \in Hand, NEW a \in Int
    PROVE  Many(hand, a) \in 0 .. 5
<1>1. a + 1 \in Int /\ a + 2 \in Int /\ a # a + 1 /\ a # a + 2 /\ a + 1 # a + 2
  OBVIOUS
<1> QED  BY <1>1, ManyAtMostFive

\* More of one rank and no fewer of any higher one: higher position by position.
LEMMA HigherByCounts ==
    ASSUME NEW s, Sorted(s), NEW t, Sorted(t), NEW v \in Int,
           Count(t, v) > Count(s, v), \A w \in Int : w > v => Count(t, w) >= Count(s, w)
    PROVE  Higher(t, s)
<1>1. /\ s[1] \in Int /\ s[2] \in Int /\ s[3] \in Int /\ s[4] \in Int /\ s[5] \in Int
      /\ s[1] >= s[2] /\ s[2] >= s[3] /\ s[3] >= s[4] /\ s[4] >= s[5]
      /\ t[1] \in Int /\ t[2] \in Int /\ t[3] \in Int /\ t[4] \in Int /\ t[5] \in Int
      /\ t[1] >= t[2] /\ t[2] >= t[3] /\ t[3] >= t[4] /\ t[4] >= t[5]
  BY SortedRanks
<1> DEFINE S(r) == One(s[1] = r) + One(s[2] = r) + One(s[3] = r) + One(s[4] = r) + One(s[5] = r)
           T(r) == One(t[1] = r) + One(t[2] = r) + One(t[3] = r) + One(t[4] = r) + One(t[5] = r)
<1>2. \A r \in Int : Count(s, r) = S(r) /\ Count(t, r) = T(r)
  <2>1. s \in [1 .. 5 -> Int] /\ t \in [1 .. 5 -> Int]
    BY DEF Sorted
  <2> QED  BY <2>1, CountIsSum
<1>3. T(v) > S(v) /\ \A w \in Int : w > v => T(w) >= S(w)
  <2> HIDE DEF S, T
  <2> QED  BY <1>2
<1>4. /\ s[1] > v => T(s[1]) >= S(s[1])
      /\ s[2] > v => T(s[2]) >= S(s[2])
      /\ s[3] > v => T(s[3]) >= S(s[3])
      /\ s[4] > v => T(s[4]) >= S(s[4])
      /\ s[5] > v => T(s[5]) >= S(s[5])
  <2> HIDE DEF S, T
  <2> QED  BY <1>1, <1>3
<1>5. ~(s[1] > t[1])
  BY <1>1, <1>3, <1>4 DEF One
<1>6. ~(s[1] = t[1] /\ s[2] > t[2])
  BY <1>1, <1>3, <1>4 DEF One
<1>7. ~(s[1] = t[1] /\ s[2] = t[2] /\ s[3] > t[3])
  BY <1>1, <1>3, <1>4 DEF One
<1>8. ~(s[1] = t[1] /\ s[2] = t[2] /\ s[3] = t[3] /\ s[4] > t[4])
  BY <1>1, <1>3, <1>4 DEF One
<1>9. ~(s[1] = t[1] /\ s[2] = t[2] /\ s[3] = t[3] /\ s[4] = t[4] /\ s[5] > t[5])
  BY <1>1, <1>3, <1>4 DEF One
<1>10. ~(s[1] = t[1] /\ s[2] = t[2] /\ s[3] = t[3] /\ s[4] = t[4] /\ s[5] = t[5])
  BY <1>1, <1>3 DEF One
<1> HIDE DEF S, T
<1> QED  BY <1>1, <1>5, <1>6, <1>7, <1>8, <1>9, <1>10, HigherUnfolds

\* Five in a row, or of one suit, have no rank twice.
LEMMA PairsAreNoRun ==
    ASSUME NEW hand \in Hand, NEW r \in Int, Many(hand, r) >= 2
    PROVE  ~CheckStraight(HighToLow(hand)) /\ ~Flat(hand)
<1> DEFINE s == HighToLow(hand)
<1>1. hand \in [1 .. 5 -> Card] /\ Sorted(s) /\ Range(s) \subseteq 2 .. Ace
  BY HighToLowRange DEF Hand
<1>2. Count(s, r) \in Int /\ Count(s, r) >= 2
  BY ManyIsCount DEF Many
<1> HIDE DEF s
<1>3. ~InARow(s)
  BY <1>1, <1>2, RowsAreRuns
<1>4. ~IsAceLow(s)
  <2> SUFFICES ASSUME IsAceLow(s) PROVE FALSE
    OBVIOUS
  <2>1. s[1] = Ace /\ s[2] = 5 /\ s[3] = 4 /\ s[4] = 3 /\ s[5] = 2
    BY DEF IsAceLow
  <2>2. Count(s, r) = One(s[1] = r) + One(s[2] = r) + One(s[3] = r) + One(s[4] = r) + One(s[5] = r)
    BY <1>1, CountIsSum DEF Sorted
  <2>3. One(s[1] = r) + One(s[2] = r) + One(s[3] = r) + One(s[4] = r) + One(s[5] = r) <= 1
    BY <2>1, AceAssumption DEF One
  <2>4. One(s[1] = r) + One(s[2] = r) + One(s[3] = r) + One(s[4] = r) + One(s[5] = r) \in Int
    BY DEF One
  <2> QED  BY <1>2, <2>2, <2>3, <2>4
<1>5. ~Flat(hand)
  <2>1. Flat(hand) => Count(s, r) <= 1
    BY SuitedRanksDiffer DEF s
  <2> QED  BY <1>2, <2>1
<1>6. ~CheckStraight(s)
  BY <1>3, <1>4 DEF CheckStraight, InARow
<1> QED  BY <1>5, <1>6 DEF s

\* What is not five in a row is compared by its cards from high to low, and its
\* groups are of the ranks that come so many times.
LEMMA GroupsOfOthers ==
    ASSUME NEW hand \in Hand, ~CheckStraight(HighToLow(hand))
    PROVE  /\ \A n \in 1 .. 4 : \A r : r \in Groups(hand)[n] <=> r \in Int /\ Many(hand, r) = n
           /\ Evaluate5CardHand(hand).ranks = HighToLow(hand)
           /\ ~IsRun(Groups(hand)[1])
<1> DEFINE s == HighToLow(hand)
<1>1. hand \in [1 .. 5 -> Card] /\ Sorted(s) /\ s \in [1 .. 5 -> Int]
  BY HighToLowRange DEF Hand, Sorted
<1>2. ~IsAceLow(s)
  BY DEF CheckStraight
<1>3. Evaluate5CardHand(hand).ranks = s
  BY <1>2 DEF Evaluate5CardHand
<1>4. ASSUME NEW n \in 1 .. 4, NEW r \in Int, Count(s, r) = n
      PROVE  r \in Range(s)
  <2> HIDE DEF s
  <2>1. Count(s, r) = One(s[1] = r) + One(s[2] = r) + One(s[3] = r) + One(s[4] = r) + One(s[5] = r)
    BY <1>1, CountIsSum
  <2>2. r = s[1] \/ r = s[2] \/ r = s[3] \/ r = s[4] \/ r = s[5]
    BY <1>4, <2>1 DEF One
  <2> QED  BY <1>1, <2>2, SortedRanks
<1>5. \A n \in 1 .. 4 : Groups(hand)[n] = Times(s, n)
  BY <1>1, <1>2, GroupsOfRanks
<1>6. Range(s) \subseteq Int
  BY <1>1 DEF Range
<1>7. ~IsRun(Groups(hand)[1])
  BY <1>1, StraightsAreRuns
<1> HIDE DEF s
<1>8. \A n \in 1 .. 4 : \A r : r \in Groups(hand)[n] <=> r \in Int /\ Count(s, r) = n
  BY <1>4, <1>5, <1>6 DEF Times
<1> QED  BY <1>3, <1>7, <1>8 DEF s, Many

\* Two ranks that come twice or more.
LEMMA KindOfPairs ==
    ASSUME NEW hand \in Hand, NEW a \in Int, NEW b \in Int, a # b,
           Many(hand, a) >= 2, Many(hand, b) >= 2
    PROVE  /\ Kind(hand) \in {TwoPair, FullHouse}
           /\ Many(hand, a) = 3 => Kind(hand) = FullHouse
           /\ Many(hand, a) = 2 /\ Many(hand, b) = 2 => Kind(hand) = TwoPair
<1> DEFINE groups == Groups(hand)
           ma == Many(hand, a)
           mb == Many(hand, b)
<1>1. ~CheckStraight(HighToLow(hand)) /\ ~Flat(hand)
  BY PairsAreNoRun
<1>2. /\ \A n \in 1 .. 4 : \A r : r \in groups[n] <=> r \in Int /\ Many(hand, r) = n
      /\ ~IsRun(groups[1])
  BY <1>1, GroupsOfOthers
<1>3. \A r \in Int : r # a /\ r # b => Many(hand, r) \in 0 .. 5 /\ ma + mb + Many(hand, r) <= 5
                                          /\ ma \in 0 .. 5 /\ mb \in 0 .. 5
  BY ManyAtMostFive
<1>4. ma \in 0 .. 5 /\ mb \in 0 .. 5 /\ ma >= 2 /\ mb >= 2
  BY ManyIsCount
<1>5. ma + mb <= 5
  <2>1. PICK r \in Int : r # a /\ r # b
    <3>1. a + 1 # b \/ a + 2 # b
      OBVIOUS
    <3> QED  BY <3>1
  <2>2. Many(hand, r) \in 0 .. 5 /\ ma + mb + Many(hand, r) <= 5
    BY <1>3, <2>1
  <2> DEFINE mr == Many(hand, r)
  <2> HIDE DEF ma, mb, mr
  <2> QED  BY <1>4, <2>2 DEF mr
<1>6. \/ ma = 2 /\ mb = 2
      \/ ma = 3 /\ mb = 2
      \/ ma = 2 /\ mb = 3
  <2> HIDE DEF ma, mb
  <2> QED  BY <1>4, <1>5
<1>7. \A r \in Int : r # a /\ r # b => Many(hand, r) \in 0 .. 1
  <2> SUFFICES ASSUME NEW r \in Int, r # a, r # b PROVE Many(hand, r) \in 0 .. 1
    OBVIOUS
  <2> DEFINE mr == Many(hand, r)
  <2>1. mr \in 0 .. 5 /\ ma + mb + mr <= 5
    BY <1>3
  <2> HIDE DEF ma, mb, mr
  <2>2. mr \in 0 .. 1
    BY <1>4, <2>1
  <2> QED  BY <2>2 DEF mr
<1>8. groups[4] = {}
  <2> SUFFICES ASSUME NEW r \in groups[4] PROVE FALSE
    OBVIOUS
  <2>1. r \in Int /\ Many(hand, r) = 4
    BY <1>2
  <2> QED  BY <1>6, <1>7, <2>1
<1> HIDE DEF groups
<1>9. CASE ma = 2 /\ mb = 2
  <2>1. a \in groups[2] /\ b \in groups[2]
    BY <1>2, <1>9
  <2>2. groups[3] = {}
    <3> SUFFICES ASSUME NEW r \in groups[3] PROVE FALSE
      OBVIOUS
    <3>1. r \in Int /\ Many(hand, r) = 3
      BY <1>2
    <3> QED  BY <1>9, <1>7, <3>1
  <2>3. Kind(hand) = TwoPair
    BY <1>1, <1>2, <1>8, <2>1, <2>2 DEF Kind, groups, Flat
  <2> QED  BY <1>9, <2>3
<1>10. CASE (ma = 3 /\ mb = 2) \/ (ma = 2 /\ mb = 3)
  <2>1. groups[2] # {} /\ groups[3] # {}
    BY <1>2, <1>10
  <2>2. Kind(hand) = FullHouse
    <3>1. ~IsRun(Groups(hand)[1]) /\ Groups(hand)[4] = {}
          /\ Groups(hand)[2] # {} /\ Groups(hand)[3] # {}
      BY <1>2, <1>8, <2>1 DEF groups
    <3>2. ~ \A i, j \in 1 .. 5 : hand[i].suit = hand[j].suit
      BY <1>1 DEF Flat
    <3>3. ~ \E r, q \in Groups(hand)[2] : r # q
      <4> SUFFICES ASSUME NEW r \in Groups(hand)[2], NEW q \in Groups(hand)[2], r # q
                   PROVE  FALSE
        OBVIOUS
      <4>1. r \in Int /\ Many(hand, r) = 2 /\ q \in Int /\ Many(hand, q) = 2
        BY <1>2 DEF groups
      <4>2. r \in {a, b} /\ q \in {a, b}
        BY <1>7, <4>1
      <4> QED  BY <1>10, <4>1, <4>2
    <3> QED  BY <3>1, <3>2, <3>3 DEF Kind
  <2> QED  BY <1>10, <2>2
<1> QED  BY <1>6, <1>9, <1>10

\* The hands checkStraight finds are those of three kinds.
LEMMA RunsByKind ==
    ASSUME NEW hand \in Hand
    PROVE  CheckStraight(HighToLow(hand))
              <=> Kind(hand) \in {Straight, StraightFlush, RoyalFlush}
<1> DEFINE groups == Groups(hand)
<1>1. hand \in [1 .. 5 -> Card]
  BY DEF Hand
<1>2. /\ IsRun(groups[1]) <=> CheckStraight(HighToLow(hand))
      /\ CheckStraight(HighToLow(hand)) => groups[2] = {} /\ groups[3] = {} /\ groups[4] = {}
  BY <1>1, StraightsAreRuns
<1>3. CASE IsRun(groups[1])
  <2>1. groups[2] = {} /\ groups[3] = {} /\ groups[4] = {}
    BY <1>2, <1>3
  <2>2. Kind(hand) \in {Straight, StraightFlush, RoyalFlush}
    BY <1>3, <2>1 DEF Kind, groups
  <2> QED  BY <1>2, <1>3, <2>2
<1>4. CASE ~IsRun(groups[1])
  <2>1. Kind(hand) \notin {Straight, StraightFlush, RoyalFlush}
    BY <1>4 DEF Kind, groups, HighCard, OnePair, TwoPair, ThreeOfAKind, Straight, Flush,
           FullHouse, FourOfAKind, StraightFlush, RoyalFlush
  <2> QED  BY <1>2, <1>4, <2>1
<1> QED  BY <1>3, <1>4

\* What the kind of a hand says of how often ranks come in it.
LEMMA GroupsByKind ==
    ASSUME NEW hand \in Hand
    PROVE  /\ Kind(hand) = FourOfAKind => \E a \in Int : Many(hand, a) = 4
           /\ Kind(hand) = FullHouse =>
                 \E a, b \in Int : Many(hand, a) = 3 /\ Many(hand, b) = 2
           /\ Kind(hand) = ThreeOfAKind =>
                 /\ \E a \in Int : Many(hand, a) = 3
                 /\ \A b \in Int : Many(hand, b) # 2
           /\ Kind(hand) = TwoPair =>
                 \E a, b \in Int : a # b /\ Many(hand, a) = 2 /\ Many(hand, b) = 2
           /\ Kind(hand) = OnePair =>
                 /\ \E a \in Int : Many(hand, a) = 2
                 /\ \A a \in Int : Many(hand, a) # 3
                 /\ \A a, b \in Int : Many(hand, a) = 2 /\ Many(hand, b) = 2 => a = b
           /\ Kind(hand) = Flush => Flat(hand)
           /\ ~CheckStraight(HighToLow(hand)) /\ Kind(hand) # HighCard =>
                 Kind(hand) \in {OnePair, TwoPair, ThreeOfAKind, Flush, FullHouse, FourOfAKind}
<1> DEFINE g2 == Groups(hand)[2]
           g3 == Groups(hand)[3]
           g4 == Groups(hand)[4]
           run == IsRun(Groups(hand)[1])
<1>1. CASE CheckStraight(HighToLow(hand))
  <2>1. Kind(hand) \in {Straight, StraightFlush, RoyalFlush}
    BY <1>1, RunsByKind
  <2> QED  BY <1>1, <2>1 DEF OnePair, TwoPair, ThreeOfAKind, Straight, Flush,
                 FullHouse, FourOfAKind, StraightFlush, RoyalFlush
<1>2. CASE ~CheckStraight(HighToLow(hand))
  <2>1. /\ \A r : r \in g2 <=> r \in Int /\ Many(hand, r) = 2
        /\ \A r : r \in g3 <=> r \in Int /\ Many(hand, r) = 3
        /\ \A r : r \in g4 <=> r \in Int /\ Many(hand, r) = 4
        /\ ~run
    BY <1>2, GroupsOfOthers
  <2>2. Kind(hand) =
          CASE g4 # {} -> FourOfAKind
            [] g3 # {} /\ g2 # {} -> FullHouse
            [] Flat(hand) -> Flush
            [] g3 # {} /\ g2 = {} -> ThreeOfAKind
            [] \E r, q \in g2 : r # q -> TwoPair
            [] g3 = {} /\ \E r \in g2 : g2 = {r} -> OnePair
            [] OTHER -> HighCard
    <3>1. ~IsRun(Groups(hand)[1])
      BY <2>1
    <3> QED  BY <3>1 DEF Kind, Flat
  <2> HIDE DEF g2, g3, g4, run
  <2>3. /\ Kind(hand) = FourOfAKind => g4 # {}
        /\ Kind(hand) = FullHouse => g3 # {} /\ g2 # {}
        /\ Kind(hand) = ThreeOfAKind => g3 # {} /\ g2 = {}
        /\ Kind(hand) = TwoPair => \E r, q \in g2 : r # q
        /\ Kind(hand) = OnePair => g3 = {} /\ \E r \in g2 : g2 = {r}
        /\ Kind(hand) = Flush => Flat(hand)
        /\ Kind(hand) # HighCard =>
                 Kind(hand) \in {OnePair, TwoPair, ThreeOfAKind, Flush, FullHouse, FourOfAKind}
    BY <2>2 DEF HighCard, OnePair, TwoPair, ThreeOfAKind, Straight, Flush,
           FullHouse, FourOfAKind, StraightFlush, RoyalFlush
  <2> QED  BY <1>2, <2>1, <2>3
<1> QED  BY <1>1, <1>2

\* Five cards of one rank, which four suits do not have, make nothing.
LEMMA FiveAlikeAreNothing ==
    ASSUME NEW hand \in Hand, NEW a \in Int, Many(hand, a) = 5
    PROVE  Kind(hand) = HighCard
<1>1. ~CheckStraight(HighToLow(hand)) /\ ~Flat(hand)
  BY PairsAreNoRun
<1>2. \A b \in Int : b # a => Many(hand, b) = 0
  <2> SUFFICES ASSUME NEW b \in Int, b # a PROVE Many(hand, b) = 0
    OBVIOUS
  <2>1. PICK c \in Int : c # a /\ c # b
    <3>1. a + 1 # b \/ a + 2 # b
      OBVIOUS
    <3> QED  BY <3>1
  <2>2. /\ Many(hand, a) \in 0 .. 5 /\ Many(hand, b) \in 0 .. 5 /\ Many(hand, c) \in 0 .. 5
        /\ Many(hand, a) + Many(hand, b) + Many(hand, c) <= 5
    BY <2>1, ManyAtMostFive
  <2> DEFINE mb == Many(hand, b)
             mc == Many(hand, c)
  <2>3. mb \in 0 .. 5 /\ mc \in 0 .. 5 /\ 5 + mb + mc <= 5
    BY <2>2
  <2> HIDE DEF mb, mc
  <2>4. mb = 0
    BY <2>3
  <2> QED  BY <2>4 DEF mb
<1>3. \A b \in Int : Many(hand, b) \in {0, 5}
  BY <1>2
<1>4. /\ Kind(hand) \notin {Straight, StraightFlush, RoyalFlush}
      /\ Kind(hand) \notin {OnePair, TwoPair, ThreeOfAKind, Flush, FullHouse, FourOfAKind}
  BY <1>1, <1>3, RunsByKind, GroupsByKind
<1> QED  BY <1>1, <1>4, GroupsByKind

-----------------------------------------------------------------------------
(* Places among the seven cards. *)

\* The places of the cards of this rank.
With(cards, r) == {i \in 1 .. 7 : cards[i].rank = r}

\* Five places of the seven, each another one.
Pick == {p \in [1 .. 5 -> 1 .. 7] : \A i, j \in 1 .. 5 : i # j => p[i] # p[j]}

\* The size of the seven places.
LEMMA SevenPlaces ==
    IsFiniteSet(1 .. 7) /\ Cardinality(1 .. 7) = 7
<1>1. \A n \in Int : IsFiniteSet(1 .. n)
         /\ Cardinality(1 .. n) = IF 1 > n THEN 0 ELSE n - 1 + 1
  BY FS_Interval
<1>2. IsFiniteSet(1 .. 7) /\ Cardinality(1 .. 7) = IF 1 > 7 THEN 0 ELSE 7 - 1 + 1
  <2>1. 7 \in Int
    OBVIOUS
  <2> QED  BY <1>1, <2>1, Zenon
<1>3. (IF 1 > 7 THEN 0 ELSE 7 - 1 + 1) = 7
  OBVIOUS
<1> QED  BY <1>2, <1>3

\* The size of the five places.
LEMMA FivePlaces ==
    IsFiniteSet(1 .. 5) /\ Cardinality(1 .. 5) = 5
<1>1. \A n \in Int : IsFiniteSet(1 .. n)
         /\ Cardinality(1 .. n) = IF 1 > n THEN 0 ELSE n - 1 + 1
  BY FS_Interval
<1>2. IsFiniteSet(1 .. 5) /\ Cardinality(1 .. 5) = IF 1 > 5 THEN 0 ELSE 5 - 1 + 1
  <2>1. 5 \in Int
    OBVIOUS
  <2> QED  BY <1>1, <2>1, Zenon
<1>3. (IF 1 > 5 THEN 0 ELSE 5 - 1 + 1) = 5
  OBVIOUS
<1> QED  BY <1>2, <1>3

\* The places of a rank are finitely many.
LEMMA WithIsFinite ==
    ASSUME NEW cards, NEW r
    PROVE  /\ IsFiniteSet(With(cards, r)) /\ Cardinality(With(cards, r)) \in Nat
           /\ With(cards, r) \subseteq 1 .. 7
  BY SevenPlaces, FS_Subset, FS_CardinalityType DEF With

\* Counting the cards at some places is counting the places.
LEMMA CountByPlaces ==
    ASSUME NEW cards, NEW p \in Pick, NEW r
    PROVE  Count([k \in 1 .. 5 |-> cards[p[k]].rank], r)
              = Cardinality(Range(p) \cap With(cards, r))
<1> DEFINE A == {k \in 1 .. 5 : cards[p[k]].rank = r}
           B == Range(p) \cap With(cards, r)
           f == [k \in A |-> p[k]]
<1>1. p \in [1 .. 5 -> 1 .. 7] /\ \A i, j \in 1 .. 5 : i # j => p[i] # p[j]
  BY DEF Pick
<1>2. Range(p) = {p[k] : k \in 1 .. 5}
  BY <1>1 DEF Range
<1>3. /\ f \in [A -> B]
      /\ \A i, j \in A : f[i] = f[j] => i = j
      /\ \A y \in B : \E k \in A : f[k] = y
  <2>1. \A k \in A : p[k] \in B
    BY <1>1, <1>2 DEF With
  <2>2. \A y \in B : \E k \in A : p[k] = y
    BY <1>1, <1>2 DEF With
  <2> QED  BY <1>1, <2>1, <2>2
<1>4. IsFiniteSet(A)
  BY FivePlaces, FS_Subset
<1> HIDE DEF A, B, f
<1>5. ExistsBijection(A, B)
  BY <1>3 DEF ExistsBijection, Bijection, Injection, Surjection, IsInjective
<1>6. Cardinality(A) = Cardinality(B)
  BY <1>4, <1>5, FS_Bijection
<1>7. Count([k \in 1 .. 5 |-> cards[p[k]].rank], r) = Cardinality(A)
  BY DEF Count, A
<1> QED  BY <1>6, <1>7 DEF B

\* Choices of Evaluate are choices.
LEMMA FivesArePicks ==
    ASSUME NEW c \in Fives PROVE c \in Pick
<1>1. c \in [1 .. 5 -> 1 .. 7] /\ \A i, j \in 1 .. 5 : i < j => c[i] < c[j]
  BY FivesIncrease
<1>2. ASSUME NEW i \in 1 .. 5, NEW j \in 1 .. 5, i # j PROVE c[i] # c[j]
  <2>1. c[i] \in Int /\ c[j] \in Int /\ (i < j \/ j < i)
    BY <1>1, <1>2
  <2> QED  BY <1>1, <2>1
<1> QED  BY <1>1, <1>2 DEF Pick

\* The cards of a hand are cards of the seven.
LEMMA ManyByPlaces ==
    ASSUME NEW cards \in Seven, NEW c \in Fives, NEW r \in Int
    PROVE  Many(Chosen(cards, c), r) = Cardinality(Range(c) \cap With(cards, r))
<1> DEFINE hand == Chosen(cards, c)
<1>1. hand \in [1 .. 5 -> Card]
  BY ChosenIsHand DEF Hand
<1>2. Ranks(hand) = [k \in 1 .. 5 |-> cards[c[k]].rank]
  BY DEF Ranks, Chosen
<1>3. Many(hand, r) = Count(Ranks(hand), r)
  BY <1>1, HighToLowSorts DEF Many
<1> QED  BY <1>2, <1>3, CountByPlaces, FivesArePicks

\* A hand has no more cards of a rank than the seven have.
LEMMA HandHasNoMore ==
    ASSUME NEW cards \in Seven, NEW hand \in Hands(cards), NEW r \in Int
    PROVE  Many(hand, r) <= Cardinality(With(cards, r))
<1>1. PICK c \in Fives : hand = Chosen(cards, c)
  BY DEF Hands
<1>2. Many(hand, r) = Cardinality(Range(c) \cap With(cards, r))
  BY <1>1, ManyByPlaces
<1> QED  BY <1>2, WithIsFinite, FS_Subset

\* Any five places make a hand.
LEMMA PicksMakeHands ==
    ASSUME NEW cards \in Seven, NEW p \in Pick
    PROVE  \E hand \in Hands(cards) : \A r \in Int :
              Many(hand, r) = Cardinality(Range(p) \cap With(cards, r))
<1> DEFINE P == Range(p)
           D == (1 .. 7) \ P
<1>1. p \in [1 .. 5 -> 1 .. 7] /\ \A i, j \in 1 .. 5 : i # j => p[i] # p[j]
  BY DEF Pick
<1>2. P \subseteq 1 .. 7 /\ \A y \in P : \E k \in 1 .. 5 : p[k] = y
  BY <1>1 DEF Range
<1>3. p \in [1 .. 5 -> P]
  BY <1>1 DEF Range
<1> HIDE DEF P
<1>4. ExistsBijection(1 .. 5, P)
  BY <1>1, <1>2, <1>3 DEF ExistsBijection, Bijection, Injection, Surjection, IsInjective
<1>5. IsFiniteSet(P) /\ Cardinality(P) = 5
  BY <1>4, FivePlaces, FS_Bijection
<1>6. IsFiniteSet(D) /\ Cardinality(D) = 2
  <2>1. IsFiniteSet(D) /\ Cardinality(D) \in Int
    BY SevenPlaces, FS_Subset, FS_CardinalityType
  <2>2. D \cup P = 1 .. 7 /\ D \cap P = {}
    BY <1>2
  <2> HIDE DEF D
  <2>3. Cardinality(1 .. 7) = Cardinality(D) + Cardinality(P) - Cardinality({})
    BY <1>5, <2>1, <2>2, FS_Union
  <2>4. Cardinality({}) = 0
    BY FS_EmptySet
  <2> DEFINE d == Cardinality(D)
  <2>5. 7 = d + 5 - 0 /\ d \in Int
    BY <1>5, <2>1, <2>3, <2>4, SevenPlaces
  <2> HIDE DEF d
  <2>6. d = 2
    BY <2>5
  <2> QED  BY <2>1, <2>6 DEF d
<1>7. PICK x \in 1 .. 7, y \in 1 .. 7 : x < y /\ D = {x, y}
  <2>1. D # {}
    BY <1>6, FS_EmptySet
  <2>2. PICK a \in D : TRUE
    BY <2>1
  <2>3. IsFiniteSet(D \ {a}) /\ Cardinality(D \ {a}) = 1
    <3>1. Cardinality(D \ {a}) = Cardinality(D) - 1 /\ IsFiniteSet(D \ {a})
      BY <1>6, <2>2, FS_RemoveElement
    <3>2. Cardinality(D) - 1 = 1
      BY <1>6
    <3> QED  BY <3>1, <3>2
  <2>4. PICK b : D \ {a} = {b}
    BY <2>3, FS_Singleton
  <2>5. a \in 1 .. 7 /\ b \in 1 .. 7 /\ a # b /\ D = {a, b}
    BY <2>4
  <2> HIDE DEF D
  <2>6. a < b \/ b < a
    BY <2>5
  <2> QED  BY <2>5, <2>6
<1> DEFINE c == AllBut(x, y)
<1>8. x \in 1 .. 6 /\ y \in x + 1 .. 7
  BY <1>7
<1>9. c \in Fives /\ Range(c) = (1 .. 7) \ {x, y}
  BY <1>8, AllButIsFive, AllButMakesFive
<1>10. Range(c) = P
  BY <1>2, <1>7, <1>9
<1> HIDE DEF c
<1>11. Chosen(cards, c) \in Hands(cards)
  BY <1>9 DEF Hands
<1>12. \A r \in Int : Many(Chosen(cards, c), r) = Cardinality(Range(p) \cap With(cards, r))
  BY <1>9, <1>10, ManyByPlaces DEF P
<1> QED  BY <1>11, <1>12

\* A set of two or more has two different members.
LEMMA TwoOf ==
    ASSUME NEW S, IsFiniteSet(S), Cardinality(S) >= 2
    PROVE  \E x, y \in S : x # y
<1>1. Cardinality(S) \in Nat
  BY FS_CardinalityType
<1>2. S # {}
  BY <1>1, FS_EmptySet
<1>3. PICK x \in S : TRUE
  BY <1>2
<1>4. IsFiniteSet(S \ {x}) /\ Cardinality(S \ {x}) = Cardinality(S) - 1
  BY <1>3, FS_RemoveElement
<1>5. Cardinality(S \ {x}) # 0
  BY <1>1, <1>4
<1>6. S \ {x} # {}
  BY <1>5, FS_EmptySet
<1> QED  BY <1>6

\* A set of three or more has three different members.
LEMMA ThreeOf ==
    ASSUME NEW S, IsFiniteSet(S), Cardinality(S) >= 3
    PROVE  \E x, y, z \in S : x # y /\ x # z /\ y # z
<1>1. Cardinality(S) \in Nat
  BY FS_CardinalityType
<1>2. PICK x \in S, y \in S : x # y
  BY <1>1, TwoOf
<1>3. IsFiniteSet(S \ {x}) /\ Cardinality(S \ {x}) = Cardinality(S) - 1
  BY FS_RemoveElement
<1>4. IsFiniteSet((S \ {x}) \ {y}) /\ Cardinality((S \ {x}) \ {y}) = Cardinality(S \ {x}) - 1
  BY <1>2, <1>3, FS_RemoveElement
<1>5. Cardinality((S \ {x}) \ {y}) # 0
  BY <1>1, <1>3, <1>4
<1>6. (S \ {x}) \ {y} # {}
  BY <1>5, FS_EmptySet
<1> QED  BY <1>2, <1>6

\* There are only seven cards.
LEMMA SevenAtMost ==
    ASSUME NEW cards, NEW a, NEW b, NEW c, NEW d,
           a # b, a # c, a # d, b # c, b # d, c # d
    PROVE  Cardinality(With(cards, a)) + Cardinality(With(cards, b))
              + Cardinality(With(cards, c)) + Cardinality(With(cards, d)) <= 7
<1> DEFINE A == With(cards, a)
           B == With(cards, b)
           C == With(cards, c)
           D == With(cards, d)
<1>1. /\ A \cap B = {} /\ (A \cup B) \cap C = {} /\ (A \cup B \cup C) \cap D = {}
      /\ A \cup B \cup C \cup D \subseteq 1 .. 7
  BY DEF With
<1>2. IsFiniteSet(A) /\ IsFiniteSet(B) /\ IsFiniteSet(C) /\ IsFiniteSet(D)
  BY WithIsFinite
<1> HIDE DEF A, B, C, D
<1>3. IsFiniteSet(A \cup B)
      /\ Cardinality(A \cup B) = Cardinality(A) + Cardinality(B) - Cardinality({})
  BY <1>1, <1>2, FS_Union
<1>4. IsFiniteSet(A \cup B \cup C)
      /\ Cardinality(A \cup B \cup C) = Cardinality(A \cup B) + Cardinality(C) - Cardinality({})
  BY <1>1, <1>2, <1>3, FS_Union
<1>5. IsFiniteSet(A \cup B \cup C \cup D)
      /\ Cardinality(A \cup B \cup C \cup D)
            = Cardinality(A \cup B \cup C) + Cardinality(D) - Cardinality({})
  BY <1>1, <1>2, <1>4, FS_Union
<1>6. Cardinality(A \cup B \cup C \cup D) <= 7
  BY <1>1, SevenPlaces, FS_Subset
<1>7. Cardinality({}) = 0
  BY FS_EmptySet
<1>8. /\ Cardinality(A) \in Int /\ Cardinality(B) \in Int /\ Cardinality(C) \in Int
      /\ Cardinality(D) \in Int
  BY <1>2, FS_CardinalityType
<1> DEFINE na == Cardinality(A)
           nb == Cardinality(B)
           nc == Cardinality(C)
           nd == Cardinality(D)
           ab == Cardinality(A \cup B)
           abc == Cardinality(A \cup B \cup C)
           all == Cardinality(A \cup B \cup C \cup D)
<1>9. /\ ab = na + nb - 0 /\ abc = ab + nc - 0 /\ all = abc + nd - 0 /\ all <= 7
      /\ na \in Int /\ nb \in Int /\ nc \in Int /\ nd \in Int
  BY <1>3, <1>4, <1>5, <1>6, <1>7, <1>8
<1> HIDE DEF na, nb, nc, nd, ab, abc, all
<1>10. na + nb + nc + nd <= 7
  BY <1>9
<1> QED  BY <1>10 DEF na, nb, nc, nd, A, B, C, D

\* The hand at five given places.
MadeOf(hand, cards, u, v, x, y, z) ==
    \A r \in Int : Many(hand, r) = One(cards[u].rank = r) + One(cards[v].rank = r)
                                     + One(cards[x].rank = r) + One(cards[y].rank = r)
                                     + One(cards[z].rank = r)

\* Any five different places make a hand, in whatever order they are named.
LEMMA HandAtPlaces ==
    ASSUME NEW cards \in Seven, NEW u \in 1 .. 7, NEW v \in 1 .. 7, NEW x \in 1 .. 7,
           NEW y \in 1 .. 7, NEW z \in 1 .. 7,
           u # v, u # x, u # y, u # z, v # x, v # y, v # z, x # y, x # z, y # z
    PROVE  \E hand \in Hands(cards) : MadeOf(hand, cards, u, v, x, y, z)
<1> DEFINE p == [k \in 1 .. 5 |-> CASE k = 1 -> u [] k = 2 -> v [] k = 3 -> x
                                     [] k = 4 -> y [] k = 5 -> z]
           f == [k \in 1 .. 5 |-> cards[p[k]].rank]
<1>1. p[1] = u /\ p[2] = v /\ p[3] = x /\ p[4] = y /\ p[5] = z
  OBVIOUS
<1>2. \A k \in 1 .. 5 : k = 1 \/ k = 2 \/ k = 3 \/ k = 4 \/ k = 5
  OBVIOUS
<1>3. p \in [1 .. 5 -> 1 .. 7]
  <2>1. \A k \in 1 .. 5 : p[k] \in 1 .. 7
    <3> HIDE DEF p
    <3> QED  BY <1>1, <1>2
  <2> QED  BY <2>1
<1>4. p \in Pick
  <2> HIDE DEF p
  <2>1. \A i, j \in 1 .. 5 : i # j => p[i] # p[j]
    BY <1>1, <1>2
  <2> QED  BY <1>3, <2>1 DEF Pick
<1> HIDE DEF p
<1>5. PICK hand \in Hands(cards) : \A r \in Int :
          Many(hand, r) = Cardinality(Range(p) \cap With(cards, r))
  BY <1>4, PicksMakeHands
<1>6. f \in [1 .. 5 -> Int]
  <2>1. \A i \in 1 .. 7 : cards[i].rank \in Int
    BY DEF Seven, Card
  <2> QED  BY <1>3, <2>1
<1>7. f[1] = cards[u].rank /\ f[2] = cards[v].rank /\ f[3] = cards[x].rank
      /\ f[4] = cards[y].rank /\ f[5] = cards[z].rank
  BY <1>1
<1>8. \A r \in Int : Count(f, r) = Cardinality(Range(p) \cap With(cards, r))
  BY <1>4, CountByPlaces
<1> HIDE DEF f
<1>9. \A r \in Int : Count(f, r) = One(f[1] = r) + One(f[2] = r) + One(f[3] = r)
                                      + One(f[4] = r) + One(f[5] = r)
  BY <1>6, CountIsSum
<1>10. \A r \in Int : Many(hand, r) = One(f[1] = r) + One(f[2] = r) + One(f[3] = r)
                                         + One(f[4] = r) + One(f[5] = r)
  <2> SUFFICES ASSUME NEW r \in Int
               PROVE  Many(hand, r) = One(f[1] = r) + One(f[2] = r) + One(f[3] = r)
                                         + One(f[4] = r) + One(f[5] = r)
    OBVIOUS
  <2>1. Many(hand, r) = Cardinality(Range(p) \cap With(cards, r))
    BY <1>5
  <2>2. Count(f, r) = Cardinality(Range(p) \cap With(cards, r))
    BY <1>8
  <2>3. Count(f, r) = One(f[1] = r) + One(f[2] = r) + One(f[3] = r)
                         + One(f[4] = r) + One(f[5] = r)
    BY <1>9
  <2> QED  BY <2>1, <2>2, <2>3
<1>11. \A r \in Int : Many(hand, r) = One(cards[u].rank = r) + One(cards[v].rank = r)
                                         + One(cards[x].rank = r) + One(cards[y].rank = r)
                                         + One(cards[z].rank = r)
  BY <1>7, <1>10
<1> QED  BY <1>11 DEF MadeOf

-----------------------------------------------------------------------------
(* The highest hand of its kind is beaten by none. *)

\* A hand is told from the others by the order of Evaluate.
Highest(cards, R) ==
    /\ R \in Hands(cards) /\ Kind(R) # HighCard
    /\ \A T \in Hands(cards) :
          /\ Kind(T) <= Kind(R)
          /\ Kind(T) = Kind(R) =>
                ~Higher(Evaluate5CardHand(T).ranks, Evaluate5CardHand(R).ranks)

\* Of two hands that are no straights, one is higher card by card if it has more
\* cards of a rank and no fewer of any above.
LEMMA HigherHands ==
    ASSUME NEW T \in Hand, NEW R \in Hand, NEW v \in Int,
           ~CheckStraight(HighToLow(T)), ~CheckStraight(HighToLow(R)),
           Many(T, v) > Many(R, v), \A w \in Int : w > v => Many(T, w) >= Many(R, w)
    PROVE  Higher(Evaluate5CardHand(T).ranks, Evaluate5CardHand(R).ranks)
<1> DEFINE t == HighToLow(T)
           s == HighToLow(R)
<1>1. Sorted(t) /\ Sorted(s)
  BY HighToLowRange DEF Hand
<1>2. Evaluate5CardHand(T).ranks = t /\ Evaluate5CardHand(R).ranks = s
  BY GroupsOfOthers
<1>3. Count(t, v) > Count(s, v) /\ \A w \in Int : w > v => Count(t, w) >= Count(s, w)
  BY DEF Many
<1> HIDE DEF t, s
<1> QED  BY <1>1, <1>2, <1>3, HigherByCounts

\* Straights: the end decides for both, the wheel being the lowest.
LEMMA EndsOfRuns ==
    ASSUME NEW hand \in Hand, CheckStraight(HighToLow(hand))
    PROVE  \E low \in Int :
              /\ Groups(hand)[1] = low .. low + 4
              /\ Groups(hand)[2] = {} /\ Groups(hand)[3] = {} /\ Groups(hand)[4] = {}
              /\ Evaluate5CardHand(hand).ranks[1] = low + 4
<1> DEFINE s == HighToLow(hand)
           groups == Groups(hand)
<1>1. hand \in [1 .. 5 -> Card] /\ Sorted(s) /\ Range(s) \subseteq 2 .. Ace
  BY HighToLowRange DEF Hand
<1>2. groups[2] = {} /\ groups[3] = {} /\ groups[4] = {}
  BY <1>1, StraightsAreRuns
<1>3. Evaluate5CardHand(hand).ranks = IF IsAceLow(s) THEN <<5, 4, 3, 2, Ace>> ELSE s
  BY DEF Evaluate5CardHand
<1>4. CASE IsAceLow(s)
  <2>1. groups[1] = 1 .. 1 + 4
    BY <1>1, <1>4, GroupsOfWheel
  <2>2. Evaluate5CardHand(hand).ranks[1] = 1 + 4
    BY <1>3, <1>4
  <2> QED  BY <1>2, <2>1, <2>2
<1>5. CASE ~IsAceLow(s)
  <2>1. InARow(s)
    BY <1>5 DEF CheckStraight, InARow
  <2>2. groups[1] = Times(s, 1)
    BY <1>1, <1>5, GroupsOfRanks
  <2>3. Times(s, 1) = s[5] .. s[5] + 4 /\ s[1] = s[5] + 4 /\ s[5] \in Int
    <3> HIDE DEF s
    <3> QED  BY <1>1, <2>1, RowsAreRuns, SortedRanks
  <2>4. Evaluate5CardHand(hand).ranks[1] = s[5] + 4
    BY <1>3, <1>5, <2>3
  <2> HIDE DEF s, groups
  <2>5. groups[1] = s[5] .. s[5] + 4
    BY <2>2, <2>3
  <2> QED  BY <1>2, <2>3, <2>4, <2>5 DEF groups
<1> QED  BY <1>4, <1>5

\* Of two straights, one that beats the other is higher card by card, as the
\* ranks of the wheel are rotated.
LEMMA RunsCompare ==
    ASSUME NEW T \in Hand, NEW R \in Hand,
           CheckStraight(HighToLow(T)), CheckStraight(HighToLow(R)),
           NEW n \in 1 .. 4, NEW a \in Groups(T)[n] \ Groups(R)[n],
           \A q \in Groups(R)[n] \ Groups(T)[n] : q < a
    PROVE  Higher(Evaluate5CardHand(T).ranks, Evaluate5CardHand(R).ranks)
<1>1. PICK j \in Int :
          /\ Groups(T)[1] = j .. j + 4
          /\ Groups(T)[2] = {} /\ Groups(T)[3] = {} /\ Groups(T)[4] = {}
          /\ Evaluate5CardHand(T).ranks[1] = j + 4
  BY EndsOfRuns
<1>2. PICK k \in Int :
          /\ Groups(R)[1] = k .. k + 4
          /\ Evaluate5CardHand(R).ranks[1] = k + 4
  BY EndsOfRuns
<1>3. n = 1
  <2>1. n = 1 \/ n = 2 \/ n = 3 \/ n = 4
    OBVIOUS
  <2> QED  BY <1>1, <2>1
<1>4. a \in j .. j + 4 /\ a \notin k .. k + 4 /\ \A q \in (k .. k + 4) \ (j .. j + 4) : q < a
  BY <1>1, <1>2, <1>3
<1>5. j > k
  <2>1. k + 4 \in j .. j + 4 \/ k + 4 < a
    BY <1>4
  <2> QED  BY <1>4, <2>1
<1>6. j + 4 > k + 4
  BY <1>5
<1> QED  BY <1>1, <1>2, <1>6, HigherUnfolds

\* The larger groups are the same: the highest single card only one of them has.
LEMMA SinglesDecide ==
    ASSUME NEW T \in Hand, NEW R \in Hand, Kind(R) # HighCard,
           ~CheckStraight(HighToLow(T)), ~CheckStraight(HighToLow(R)),
           \A n \in 2 .. 4 : \A r \in Int : Many(T, r) = n <=> Many(R, r) = n,
           NEW a \in Int, Many(T, a) = 1, Many(R, a) # 1,
           \A q \in Int : Many(R, q) = 1 /\ Many(T, q) # 1 => q < a
    PROVE  Higher(Evaluate5CardHand(T).ranks, Evaluate5CardHand(R).ranks)
<1>1. \A r \in Int : Many(T, r) \in 0 .. 5 /\ Many(R, r) \in 0 .. 4
  <2> SUFFICES ASSUME NEW r \in Int PROVE Many(T, r) \in 0 .. 5 /\ Many(R, r) \in 0 .. 4
    OBVIOUS
  <2>1. Many(T, r) \in 0 .. 5 /\ Many(R, r) \in 0 .. 5
    BY ManyIsCount
  <2>2. Many(R, r) # 5
    BY FiveAlikeAreNothing
  <2> QED  BY <2>1, <2>2
<1>2. Many(R, a) = 0
  BY <1>1
<1>3. ASSUME NEW w \in Int, w > a PROVE Many(T, w) >= Many(R, w)
  <2>1. CASE Many(R, w) \in 2 .. 4
    BY <2>1
  <2>2. CASE Many(R, w) = 1
    <3>1. Many(T, w) = 1
      BY <1>3, <2>2
    <3> QED  BY <2>2, <3>1
  <2>3. CASE Many(R, w) = 0
    BY <1>1, <2>3
  <2> QED  BY <1>1, <2>1, <2>2, <2>3
<1> QED  BY <1>2, <1>3, HigherHands

\* Two fours are eight cards.
LEMMA OneFour ==
    ASSUME NEW cards \in Seven, NEW T \in Hands(cards), NEW R \in Hands(cards),
           NEW a \in Int, Many(T, a) = 4, NEW b \in Int, Many(R, b) = 4
    PROVE  a = b
<1> SUFFICES ASSUME a # b PROVE FALSE
  OBVIOUS
<1>1. Cardinality(With(cards, a)) >= 4 /\ Cardinality(With(cards, b)) >= 4
  BY HandHasNoMore
<1>2. PICK c \in Int, d \in Int : a # c /\ a # d /\ b # c /\ b # d /\ c # d
  <2>1. \A x, y \in Int : \E z \in Int : z > x /\ z > y
    <3> SUFFICES ASSUME NEW x \in Int, NEW y \in Int PROVE \E z \in Int : z > x /\ z > y
      OBVIOUS
    <3>1. CASE x >= y
      <4>1. x + 1 > x /\ x + 1 > y /\ x + 1 \in Int
        BY <3>1
      <4> QED  BY <4>1
    <3>2. CASE x < y
      <4>1. y + 1 > x /\ y + 1 > y /\ y + 1 \in Int
        BY <3>2
      <4> QED  BY <4>1
    <3> QED  BY <3>1, <3>2
  <2>2. PICK c \in Int : c > a /\ c > b
    BY <2>1
  <2>3. c + 1 \in Int /\ c + 1 # a /\ c + 1 # b /\ c + 1 # c /\ c # a /\ c # b
    BY <2>2
  <2> QED  BY <2>3
<1> DEFINE na == Cardinality(With(cards, a))
           nb == Cardinality(With(cards, b))
           nc == Cardinality(With(cards, c))
           nd == Cardinality(With(cards, d))
<1>3. na + nb + nc + nd <= 7 /\ na \in Nat /\ nb \in Nat /\ nc \in Nat /\ nd \in Nat
  BY <1>2, SevenAtMost, WithIsFinite
<1>4. na >= 4 /\ nb >= 4
  BY <1>1
<1> HIDE DEF na, nb, nc, nd
<1> QED  BY <1>3, <1>4

\* Cards of three different ranks are seven at most.
LEMMA ThreeRanksAtMost ==
    ASSUME NEW cards, NEW a \in Int, NEW b \in Int, NEW c \in Int, a # b, a # c, b # c
    PROVE  Cardinality(With(cards, a)) + Cardinality(With(cards, b))
              + Cardinality(With(cards, c)) <= 7
<1>1. PICK d \in Int : d # a /\ d # b /\ d # c
  <2>1. \/ a + 1 \notin {b, c} \/ a + 2 \notin {b, c} \/ a + 3 \notin {b, c}
    OBVIOUS
  <2> QED  BY <2>1
<1> DEFINE na == Cardinality(With(cards, a))
           nb == Cardinality(With(cards, b))
           nc == Cardinality(With(cards, c))
           nd == Cardinality(With(cards, d))
<1>2. na + nb + nc + nd <= 7 /\ na \in Nat /\ nb \in Nat /\ nc \in Nat /\ nd \in Nat
  BY <1>1, SevenAtMost, WithIsFinite
<1> HIDE DEF na, nb, nc, nd
<1>3. na + nb + nc <= 7
  BY <1>2
<1> QED  BY <1>3 DEF na, nb, nc

\* Two ranks at least three and two times: there is a full house.
LEMMA FullHouseOfSeven ==
    ASSUME NEW cards \in Seven, NEW a \in Int, NEW b \in Int, a # b,
           Cardinality(With(cards, a)) >= 3, Cardinality(With(cards, b)) >= 2
    PROVE  \E hand \in Hands(cards) : Kind(hand) = FullHouse
<1>1. PICK u \in With(cards, a), v \in With(cards, a), x \in With(cards, a) :
          u # v /\ u # x /\ v # x
  BY WithIsFinite, ThreeOf
<1>2. PICK y \in With(cards, b), z \in With(cards, b) : y # z
  BY WithIsFinite, TwoOf
<1>3. /\ u \in 1 .. 7 /\ v \in 1 .. 7 /\ x \in 1 .. 7 /\ y \in 1 .. 7 /\ z \in 1 .. 7
      /\ cards[u].rank = a /\ cards[v].rank = a /\ cards[x].rank = a
      /\ cards[y].rank = b /\ cards[z].rank = b
  BY DEF With
<1>4. /\ u \in 1 .. 7 /\ v \in 1 .. 7 /\ x \in 1 .. 7 /\ y \in 1 .. 7 /\ z \in 1 .. 7
      /\ u # v /\ u # x /\ u # y /\ u # z /\ v # x /\ v # y /\ v # z
      /\ x # y /\ x # z /\ y # z
  BY <1>1, <1>2, <1>3
<1>5. PICK hand \in Hands(cards) : MadeOf(hand, cards, u, v, x, y, z)
  BY <1>4, HandAtPlaces
<1>6. Many(hand, a) = 3 /\ Many(hand, b) = 2
  BY <1>3, <1>5 DEF One, MadeOf
<1>7. hand \in Hand
  BY HandsAreHands
<1>8. Many(hand, a) >= 2 /\ Many(hand, b) >= 2
  BY <1>6
<1> QED  BY <1>6, <1>7, <1>8, KindOfPairs

\* Two ranks twice: there are two pairs at least.
LEMMA TwoPairOfSeven ==
    ASSUME NEW cards \in Seven, NEW a \in Int, NEW b \in Int, a # b,
           Cardinality(With(cards, a)) >= 2, Cardinality(With(cards, b)) >= 2,
           NEW c \in Int, a # c, b # c
    PROVE  /\ \E hand \in Hands(cards) : Kind(hand) \in {TwoPair, FullHouse}
           /\ Cardinality(With(cards, c)) >= 1 =>
                 \E hand \in Hands(cards) :
                    /\ Kind(hand) = TwoPair
                    /\ Many(hand, a) = 2 /\ Many(hand, b) = 2 /\ Many(hand, c) = 1
<1>1. PICK u \in With(cards, a), v \in With(cards, a) : u # v
  BY WithIsFinite, TwoOf
<1>2. PICK x \in With(cards, b), y \in With(cards, b) : x # y
  BY WithIsFinite, TwoOf
<1>3. /\ u \in 1 .. 7 /\ v \in 1 .. 7 /\ x \in 1 .. 7 /\ y \in 1 .. 7
      /\ cards[u].rank = a /\ cards[v].rank = a
      /\ cards[x].rank = b /\ cards[y].rank = b
      /\ u # x /\ u # y /\ v # x /\ v # y
  BY DEF With
<1>4. ASSUME NEW z \in 1 .. 7, z \notin {u, v, x, y}
      PROVE  \E hand \in Hands(cards) : MadeOf(hand, cards, u, v, x, y, z)
  <2>1. /\ u \in 1 .. 7 /\ v \in 1 .. 7 /\ x \in 1 .. 7 /\ y \in 1 .. 7
        /\ u # v /\ u # x /\ u # y /\ u # z /\ v # x /\ v # y /\ v # z
        /\ x # y /\ x # z /\ y # z
    BY <1>1, <1>2, <1>3, <1>4
  <2> QED  BY <2>1, HandAtPlaces
<1>5. \E hand \in Hands(cards) : Kind(hand) \in {TwoPair, FullHouse}
  <2>1. PICK z \in 1 .. 7 : z \notin {u, v, x, y}
    BY <1>3
  <2>2. PICK hand \in Hands(cards) : MadeOf(hand, cards, u, v, x, y, z)
    BY <1>4, <2>1
  <2>3. Many(hand, a) >= 2 /\ Many(hand, b) >= 2
    BY <1>3, <2>2 DEF One, MadeOf
  <2>4. hand \in Hand
    BY HandsAreHands
  <2> QED  BY <2>3, <2>4, KindOfPairs
<1>6. ASSUME Cardinality(With(cards, c)) >= 1
      PROVE  \E hand \in Hands(cards) :
                /\ Kind(hand) = TwoPair
                /\ Many(hand, a) = 2 /\ Many(hand, b) = 2 /\ Many(hand, c) = 1
  <2>1. PICK z \in With(cards, c) : TRUE
    <3>1. Cardinality(With(cards, c)) # 0
      BY <1>6, WithIsFinite
    <3>2. With(cards, c) # {}
      BY <3>1, FS_EmptySet
    <3> QED  BY <3>2
  <2>2. z \in 1 .. 7 /\ cards[z].rank = c /\ z \notin {u, v, x, y}
    BY <1>3 DEF With
  <2>3. PICK hand \in Hands(cards) : MadeOf(hand, cards, u, v, x, y, z)
    BY <1>4, <2>2
  <2>4. Many(hand, a) = 2 /\ Many(hand, b) = 2 /\ Many(hand, c) = 1
    BY <1>3, <2>2, <2>3 DEF One, MadeOf
  <2>5. hand \in Hand /\ Many(hand, a) >= 2 /\ Many(hand, b) >= 2
    BY <2>4, HandsAreHands
  <2>6. Kind(hand) = TwoPair
    BY <2>4, <2>5, KindOfPairs
  <2> QED  BY <2>4, <2>6
<1> QED  BY <1>5, <1>6

\* Threes: of two ranks three times there is a full house, and the lower of two
\* full houses is lower position by position, whatever the pairs are.
LEMMA ThreesDecide ==
    ASSUME NEW cards \in Seven, NEW R, Highest(cards, R),
           NEW T \in Hands(cards), Kind(T) = Kind(R),
           NEW a \in Int, Many(T, a) = 3, Many(R, a) # 3,
           \A q \in Int : Many(R, q) = 3 /\ Many(T, q) # 3 => q < a
    PROVE  FALSE
<1>1. /\ R \in Hands(cards) /\ Kind(R) # HighCard
      /\ \A U \in Hands(cards) :
            /\ Kind(U) <= Kind(R)
            /\ Kind(U) = Kind(R) =>
                  ~Higher(Evaluate5CardHand(U).ranks, Evaluate5CardHand(R).ranks)
  BY DEF Highest
<1>2. R \in Hand /\ T \in Hand
  BY <1>1, HandsAreHands
<1>3. ~CheckStraight(HighToLow(T)) /\ ~Flat(T)
  <2>1. Many(T, a) >= 2
    OBVIOUS
  <2> QED  BY <1>2, <2>1, PairsAreNoRun
<1>4. ~CheckStraight(HighToLow(R))
  BY <1>2, <1>3, RunsByKind
<1>5. ASSUME NEW b \in Int, NEW c \in Int, b # a, c # a, b # c
      PROVE  /\ Many(T, b) \in 0 .. 2 /\ Many(T, c) \in 0 .. 2
             /\ Many(T, b) + Many(T, c) <= 2
  <2>1. /\ Many(T, a) \in 0 .. 5 /\ Many(T, b) \in 0 .. 5 /\ Many(T, c) \in 0 .. 5
        /\ Many(T, a) + Many(T, b) + Many(T, c) <= 5
    BY <1>2, <1>5, ManyAtMostFive
  <2> DEFINE mb == Many(T, b)
             mc == Many(T, c)
  <2>2. mb \in 0 .. 5 /\ mc \in 0 .. 5 /\ 3 + mb + mc <= 5
    BY <2>1
  <2> HIDE DEF mb, mc
  <2>3. mb \in 0 .. 2 /\ mc \in 0 .. 2 /\ mb + mc <= 2
    BY <2>2
  <2> QED  BY <2>3 DEF mb, mc
<1>6. ASSUME NEW b \in Int, b # a PROVE Many(T, b) \in 0 .. 2
  <2>1. PICK c \in Int : c # a /\ c # b
    <3>1. a + 1 # b \/ a + 2 # b
      OBVIOUS
    <3> QED  BY <3>1
  <2> QED  BY <1>5, <1>6, <2>1
<1>7. Kind(R) \in {ThreeOfAKind, FullHouse}
  <2>1. Kind(T) \in {OnePair, TwoPair, ThreeOfAKind, Flush, FullHouse, FourOfAKind}
    BY <1>1, <1>2, <1>3, GroupsByKind
  <2>2. Kind(T) # Flush
    BY <1>2, <1>3, GroupsByKind
  <2>3. Kind(T) # OnePair
    BY <1>2, GroupsByKind
  <2>4. Kind(T) # FourOfAKind
    <3> SUFFICES ASSUME NEW b \in Int, Many(T, b) = 4 PROVE FALSE
      BY <1>2, GroupsByKind
    <3>1. b # a
      OBVIOUS
    <3> QED  BY <1>6, <3>1
  <2>5. Kind(T) # TwoPair
    <3> SUFFICES ASSUME NEW b \in Int, NEW c \in Int, b # c, Many(T, b) = 2, Many(T, c) = 2
                 PROVE  FALSE
      BY <1>2, GroupsByKind
    <3>1. b # a /\ c # a
      OBVIOUS
    <3>2. Many(T, b) + Many(T, c) <= 2
      BY <1>5, <3>1
    <3> QED  BY <3>2
  <2> QED  BY <2>1, <2>2, <2>3, <2>4, <2>5
<1>8. Cardinality(With(cards, a)) >= 3
  <2>1. 3 <= Cardinality(With(cards, a))
    BY HandHasNoMore
  <2> QED  BY <2>1, WithIsFinite
<1>9. ASSUME NEW c \in Int, Many(R, c) = 3
      PROVE  c # a /\ c < a /\ Cardinality(With(cards, c)) >= 3
  <2>1. c # a
    BY <1>9
  <2>2. Many(T, c) # 3
    BY <1>6, <2>1
  <2>3. 3 <= Cardinality(With(cards, c))
    BY <1>1, <1>9, HandHasNoMore
  <2> QED  BY <1>9, <2>1, <2>2, <2>3, WithIsFinite
<1>10. CASE Kind(R) = ThreeOfAKind
  <2>1. PICK c \in Int : Many(R, c) = 3
    BY <1>2, <1>10, GroupsByKind
  <2>2. Cardinality(With(cards, c)) >= 2 /\ a # c
    BY <1>9, <2>1, WithIsFinite
  <2>3. PICK U \in Hands(cards) : Kind(U) = FullHouse
    BY <1>8, <2>2, FullHouseOfSeven
  <2> QED  BY <1>1, <1>10, <2>3 DEF FullHouse, ThreeOfAKind
<1>11. CASE Kind(R) = FullHouse
  <2>1. PICK c \in Int, d \in Int : Many(R, c) = 3 /\ Many(R, d) = 2
    BY <1>2, <1>11, GroupsByKind
  <2>2. c # d /\ c # a /\ c < a /\ Cardinality(With(cards, c)) >= 3
    BY <1>9, <2>1
  <2>3. Cardinality(With(cards, d)) >= 2
    <3>1. 2 <= Cardinality(With(cards, d))
      BY <1>1, <2>1, HandHasNoMore
    <3> QED  BY <3>1, WithIsFinite
  <2>4. d <= a
    <3> SUFFICES ASSUME d # a PROVE FALSE
      OBVIOUS
    <3> DEFINE na == Cardinality(With(cards, a))
               nc == Cardinality(With(cards, c))
               nd == Cardinality(With(cards, d))
    <3>1. na + nc + nd <= 7
      BY <2>2, ThreeRanksAtMost
    <3>2. na \in Nat /\ nc \in Nat /\ nd \in Nat /\ na >= 3 /\ nc >= 3 /\ nd >= 2
      BY <1>8, <2>2, <2>3, WithIsFinite
    <3> HIDE DEF na, nc, nd
    <3> QED  BY <3>1, <3>2
  <2>5. ASSUME NEW w \in Int, w # c, w # d PROVE Many(R, w) = 0
    <3>1. /\ Many(R, w) \in 0 .. 5
          /\ Many(R, c) + Many(R, d) + Many(R, w) <= 5
      BY <1>2, <2>2, <2>5, ManyAtMostFive
    <3> DEFINE mw == Many(R, w)
    <3>2. mw \in 0 .. 5 /\ 3 + 2 + mw <= 5
      BY <2>1, <3>1
    <3> HIDE DEF mw
    <3>3. mw = 0
      BY <3>2
    <3> QED  BY <3>3 DEF mw
  <2>6. Many(T, a) > Many(R, a)
    <3>1. Many(R, a) \in {0, 2}
      BY <2>1, <2>2, <2>5
    <3> QED  BY <3>1
  <2>7. \A w \in Int : w > a => Many(T, w) >= Many(R, w)
    <3> SUFFICES ASSUME NEW w \in Int, w > a PROVE Many(T, w) >= Many(R, w)
      OBVIOUS
    <3>1. w # c /\ w # d
      BY <2>2, <2>4
    <3>2. Many(R, w) = 0 /\ Many(T, w) \in 0 .. 5
      BY <1>2, <2>5, <3>1, ManyIsCount
    <3> QED  BY <3>2
  <2>8. Higher(Evaluate5CardHand(T).ranks, Evaluate5CardHand(R).ranks)
    BY <1>2, <1>3, <1>4, <2>6, <2>7, HigherHands
  <2> QED  BY <1>1, <2>8
<1> QED  BY <1>7, <1>10, <1>11

\* Seven cards have no four pairs.
LEMMA FourRanksAtMost ==
    ASSUME NEW cards, NEW a, NEW b, NEW c, NEW d,
           a # b, a # c, a # d, b # c, b # d, c # d,
           Cardinality(With(cards, a)) >= 2, Cardinality(With(cards, b)) >= 2,
           Cardinality(With(cards, c)) >= 2, Cardinality(With(cards, d)) >= 2
    PROVE  FALSE
<1> DEFINE na == Cardinality(With(cards, a))
           nb == Cardinality(With(cards, b))
           nc == Cardinality(With(cards, c))
           nd == Cardinality(With(cards, d))
<1>1. na + nb + nc + nd <= 7 /\ na \in Nat /\ nb \in Nat /\ nc \in Nat /\ nd \in Nat
  BY SevenAtMost, WithIsFinite
<1> HIDE DEF na, nb, nc, nd
<1>2. na >= 2 /\ nb >= 2 /\ nc >= 2 /\ nd >= 2
  BY DEF na, nb, nc, nd
<1> QED  BY <1>1, <1>2

\* Pairs: with two different single pairs there are two pairs, with a full house
\* the higher pair is higher position by position, and of two pairs the third pair
\* goes in place of the lower one, besides the same odd card if that is higher.
LEMMA PairsDecide ==
    ASSUME NEW cards \in Seven, NEW R, Highest(cards, R),
           NEW T \in Hands(cards), Kind(T) = Kind(R),
           \A r \in Int : Many(T, r) = 3 <=> Many(R, r) = 3,
           NEW a \in Int, Many(T, a) = 2, Many(R, a) # 2,
           \A q \in Int : Many(R, q) = 2 /\ Many(T, q) # 2 => q < a
    PROVE  FALSE
<1>1. /\ R \in Hands(cards) /\ Kind(R) # HighCard
      /\ \A U \in Hands(cards) :
            /\ Kind(U) <= Kind(R)
            /\ Kind(U) = Kind(R) =>
                  ~Higher(Evaluate5CardHand(U).ranks, Evaluate5CardHand(R).ranks)
  BY DEF Highest
<1>2. R \in Hand /\ T \in Hand
  BY <1>1, HandsAreHands
<1>3. ~CheckStraight(HighToLow(T)) /\ ~Flat(T)
  <2>1. Many(T, a) >= 2
    OBVIOUS
  <2> QED  BY <1>2, <2>1, PairsAreNoRun
<1>4. ~CheckStraight(HighToLow(R))
  BY <1>2, <1>3, RunsByKind
<1>5. \A r \in Int : Many(T, r) \in 0 .. 5 /\ Many(R, r) \in 0 .. 5
  BY <1>2, ManyIsCount
<1>6. ASSUME NEW X \in Hand, NEW b \in Int, NEW c \in Int, NEW w \in Int,
             b # c, w # b, w # c
      PROVE  Many(X, b) + Many(X, c) + Many(X, w) <= 5
             /\ Many(X, b) \in 0 .. 5 /\ Many(X, c) \in 0 .. 5 /\ Many(X, w) \in 0 .. 5
  BY <1>6, ManyAtMostFive
<1>7. ASSUME NEW r \in Int, NEW X \in Hands(cards), Many(X, r) >= 2
      PROVE  Cardinality(With(cards, r)) >= 2
  <2>1. Many(X, r) <= Cardinality(With(cards, r)) /\ Cardinality(With(cards, r)) \in Nat
    BY HandHasNoMore, WithIsFinite
  <2>2. Many(X, r) \in 0 .. 5
    BY HandsAreHands, ManyIsCount
  <2> QED  BY <1>7, <2>1, <2>2
<1>8. Cardinality(With(cards, a)) >= 2
  <2>1. Many(T, a) >= 2
    OBVIOUS
  <2> QED  BY <1>7, <2>1
<1>9. Kind(R) \in {OnePair, TwoPair, FullHouse}
  <2>1. Kind(T) \in {OnePair, TwoPair, ThreeOfAKind, Flush, FullHouse, FourOfAKind}
    BY <1>1, <1>2, <1>3, GroupsByKind
  <2>2. Kind(T) # Flush /\ Kind(T) # ThreeOfAKind
    BY <1>2, <1>3, GroupsByKind
  <2>3. Kind(T) # FourOfAKind
    <3> SUFFICES ASSUME NEW b \in Int, Many(T, b) = 4 PROVE FALSE
      BY <1>2, GroupsByKind
    <3>1. b # a
      OBVIOUS
    <3>2. PICK c \in Int : c # a /\ c # b
      <4>1. a + 1 # b \/ a + 2 # b
        OBVIOUS
      <4> QED  BY <4>1
    <3>3. Many(T, a) + Many(T, b) + Many(T, c) <= 5 /\ Many(T, c) \in 0 .. 5
      BY <1>2, <1>6, <3>1, <3>2
    <3> DEFINE mc == Many(T, c)
    <3>4. 2 + 4 + mc <= 5 /\ mc \in 0 .. 5
      BY <3>3
    <3> HIDE DEF mc
    <3> QED  BY <3>4
  <2> QED  BY <2>1, <2>2, <2>3
<1>10. CASE Kind(R) = OnePair
  <2>1. PICK d \in Int : Many(R, d) = 2
    BY <1>2, <1>10, GroupsByKind
  <2>2. d # a /\ Cardinality(With(cards, d)) >= 2
    <3>1. Many(R, d) >= 2
      BY <2>1
    <3> QED  BY <1>1, <1>7, <2>1, <3>1
  <2>3. PICK c \in Int : c # a /\ c # d
    <3>1. a + 1 # d \/ a + 2 # d
      OBVIOUS
    <3> QED  BY <3>1
  <2>4. PICK U \in Hands(cards) : Kind(U) \in {TwoPair, FullHouse}
    BY <1>8, <2>2, <2>3, TwoPairOfSeven
  <2>5. Kind(U) <= OnePair
    BY <1>1, <1>10
  <2> QED  BY <2>4, <2>5 DEF OnePair, TwoPair, FullHouse
<1>11. CASE Kind(R) = FullHouse
  <2>1. PICK c \in Int, b \in Int : Many(T, c) = 3 /\ Many(T, b) = 2
    BY <1>2, <1>11, GroupsByKind
  <2>2. PICK e \in Int, d \in Int : Many(R, e) = 3 /\ Many(R, d) = 2
    BY <1>2, <1>11, GroupsByKind
  <2>3. c # a /\ Many(R, c) = 3 /\ c # d
    BY <2>1, <2>2
  <2>4. ASSUME NEW w \in Int, w # c, w # a PROVE Many(T, w) = 0
    <3> DEFINE mw == Many(T, w)
    <3>1. 3 + 2 + mw <= 5 /\ mw \in 0 .. 5
      BY <1>2, <1>6, <2>1, <2>3, <2>4
    <3> HIDE DEF mw
    <3>2. mw = 0
      BY <3>1
    <3> QED  BY <3>2 DEF mw
  <2>5. ASSUME NEW w \in Int, w # c, w # d PROVE Many(R, w) = 0
    <3> DEFINE mw == Many(R, w)
    <3>1. 3 + 2 + mw <= 5 /\ mw \in 0 .. 5
      BY <1>2, <1>6, <2>2, <2>3, <2>5
    <3> HIDE DEF mw
    <3>2. mw = 0
      BY <3>1
    <3> QED  BY <3>2 DEF mw
  <2>6. d # a /\ d < a
    <3>1. d # a
      BY <2>2
    <3>2. Many(T, d) = 0
      BY <2>3, <2>4, <3>1
    <3> QED  BY <2>2, <3>1, <3>2
  <2>7. Many(T, a) > Many(R, a)
    <3>1. Many(R, a) = 0
      BY <2>3, <2>5, <2>6
    <3> QED  BY <3>1
  <2>8. ASSUME NEW w \in Int, w > a PROVE Many(T, w) >= Many(R, w)
    <3>1. CASE w = c
      BY <2>1, <2>3, <3>1
    <3>2. CASE w # c
      <4>1. w # d
        BY <2>6, <2>8
      <4>2. Many(R, w) = 0
        BY <2>5, <3>2, <4>1
      <4> QED  BY <1>5, <4>2
    <3> QED  BY <3>1, <3>2
  <2>9. Higher(Evaluate5CardHand(T).ranks, Evaluate5CardHand(R).ranks)
    BY <1>2, <1>3, <1>4, <2>7, <2>8, HigherHands
  <2> QED  BY <1>1, <2>9
<1>12. CASE Kind(R) = TwoPair
  <2>1. PICK e \in Int : e # a /\ Many(T, e) = 2
    <3>1. PICK b \in Int, c \in Int : b # c /\ Many(T, b) = 2 /\ Many(T, c) = 2
      BY <1>2, <1>12, GroupsByKind
    <3> QED  BY <3>1
  <2>2. PICK b \in Int, c \in Int : b # c /\ Many(R, b) = 2 /\ Many(R, c) = 2
    BY <1>2, <1>12, GroupsByKind
  <2>3. b # a /\ c # a
    BY <2>2
  <2>4. e = b \/ e = c
    <3> SUFFICES ASSUME e # b, e # c PROVE FALSE
      OBVIOUS
    <3>1. Many(R, b) >= 2 /\ Many(R, c) >= 2 /\ Many(T, e) >= 2
      BY <2>1, <2>2
    <3>2. /\ Cardinality(With(cards, b)) >= 2 /\ Cardinality(With(cards, c)) >= 2
          /\ Cardinality(With(cards, e)) >= 2
      BY <1>1, <1>7, <3>1
    <3> QED  BY <1>8, <2>1, <2>2, <2>3, <3>2, FourRanksAtMost
  <2>5. PICK d \in Int : d # e /\ d # a /\ Many(R, d) = 2 /\ Many(R, e) = 2
    BY <2>2, <2>3, <2>4
  <2>6. ASSUME NEW w \in Int, w # a, w # e PROVE Many(T, w) \in 0 .. 1
    <3> DEFINE mw == Many(T, w)
    <3>1. 2 + 2 + mw <= 5 /\ mw \in 0 .. 5
      BY <1>2, <1>6, <2>1, <2>6
    <3> HIDE DEF mw
    <3>2. mw \in 0 .. 1
      BY <3>1
    <3> QED  BY <3>2 DEF mw
  <2>7. d < a
    <3>1. Many(T, d) # 2
      BY <2>5, <2>6
    <3> QED  BY <2>5, <3>1
  <2>8. ASSUME NEW w \in Int, w # d, w # e PROVE Many(R, w) \in 0 .. 1
    <3> DEFINE mw == Many(R, w)
    <3>1. 2 + 2 + mw <= 5 /\ mw \in 0 .. 5
      BY <1>2, <1>6, <2>5, <2>8
    <3> HIDE DEF mw
    <3>2. mw \in 0 .. 1
      BY <3>1
    <3> QED  BY <3>2 DEF mw
  <2>9. Many(R, a) \in 0 .. 1
    BY <2>1, <2>5, <2>8
  <2>10. CASE \A w \in Int : w > a /\ w # e => Many(R, w) = 0
    <3>1. Many(T, a) > Many(R, a)
      BY <2>9
    <3>2. ASSUME NEW w \in Int, w > a PROVE Many(T, w) >= Many(R, w)
      <4>1. CASE w = e
        BY <2>1, <2>5, <4>1
      <4>2. CASE w # e
        <5>1. Many(R, w) = 0
          BY <2>10, <3>2, <4>2
        <5> QED  BY <1>5, <5>1
      <4> QED  BY <4>1, <4>2
    <3>3. Higher(Evaluate5CardHand(T).ranks, Evaluate5CardHand(R).ranks)
      BY <1>2, <1>3, <1>4, <3>1, <3>2, HigherHands
    <3> QED  BY <1>1, <3>3
  <2>11. ASSUME NEW y \in Int, y > a, y # e, Many(R, y) # 0 PROVE FALSE
    <3>1. y # a /\ y # d
      BY <2>7, <2>11
    <3>2. Many(R, y) = 1
      BY <2>8, <2>11, <3>1
    <3>3. ASSUME NEW w \in Int, w # d, w # e, w # y PROVE Many(R, w) = 0
      <4>1. /\ Many(R, w) \in 0 .. 5
            /\ Many(R, d) + Many(R, e) + Many(R, y) + Many(R, w) <= 5
        BY <1>2, <2>5, <2>11, <3>1, <3>3, ManyAreFive
      <4> DEFINE mw == Many(R, w)
      <4>2. 2 + 2 + 1 + mw <= 5 /\ mw \in 0 .. 5
        BY <2>5, <3>2, <4>1
      <4> HIDE DEF mw
      <4>3. mw = 0
        BY <4>2
      <4> QED  BY <4>3 DEF mw
    <3>4. Cardinality(With(cards, e)) >= 2 /\ Cardinality(With(cards, y)) >= 1
      <4>1. Many(R, e) >= 2
        BY <2>5
      <4>2. 1 <= Cardinality(With(cards, y))
        BY <1>1, <3>2, HandHasNoMore
      <4> QED  BY <1>1, <1>7, <4>1, <4>2, WithIsFinite
    <3>5. PICK U \in Hands(cards) :
            /\ Kind(U) = TwoPair
            /\ Many(U, a) = 2 /\ Many(U, e) = 2 /\ Many(U, y) = 1
      BY <1>8, <2>1, <2>11, <3>1, <3>4, TwoPairOfSeven
    <3>6. U \in Hand /\ ~CheckStraight(HighToLow(U))
      <4>1. U \in Hand /\ Many(U, a) >= 2
        BY <3>5, HandsAreHands
      <4> QED  BY <4>1, PairsAreNoRun
    <3>7. Many(U, a) > Many(R, a)
      BY <2>9, <3>5
    <3>8. ASSUME NEW w \in Int, w > a PROVE Many(U, w) >= Many(R, w)
      <4>1. CASE w = e
        BY <2>5, <3>5, <4>1
      <4>2. CASE w = y
        BY <3>2, <3>5, <4>2
      <4>3. CASE w # e /\ w # y
        <5>1. w # d
          BY <2>7, <3>8
        <5>2. Many(R, w) = 0 /\ Many(U, w) \in 0 .. 5
          BY <3>3, <3>6, <4>3, <5>1, ManyIsCount
        <5> QED  BY <5>2
      <4> QED  BY <4>1, <4>2, <4>3
    <3>9. Higher(Evaluate5CardHand(U).ranks, Evaluate5CardHand(R).ranks)
      BY <1>2, <1>4, <3>6, <3>7, <3>8, HigherHands
    <3> QED  BY <1>1, <1>12, <3>5, <3>9
  <2> QED  BY <2>10, <2>11
<1> QED  BY <1>9, <1>10, <1>11, <1>12

\* Four of a rank are four of a kind.
LEMMA FourIsFour ==
    ASSUME NEW hand \in Hand, ~CheckStraight(HighToLow(hand)), Groups(hand)[4] # {}
    PROVE  Kind(hand) = FourOfAKind
<1>1. PICK a \in Int : Many(hand, a) = 4
  BY GroupsOfOthers
<1>2. ASSUME NEW b \in Int, b # a PROVE Many(hand, b) \in 0 .. 1
  <2>1. PICK c \in Int : c # a /\ c # b
    <3>1. a + 1 # b \/ a + 2 # b
      OBVIOUS
    <3> QED  BY <3>1
  <2>2. /\ Many(hand, b) \in 0 .. 5 /\ Many(hand, c) \in 0 .. 5
        /\ Many(hand, a) + Many(hand, b) + Many(hand, c) <= 5
    BY <1>2, <2>1, ManyAtMostFive
  <2> DEFINE mb == Many(hand, b)
             mc == Many(hand, c)
  <2>3. 4 + mb + mc <= 5 /\ mb \in 0 .. 5 /\ mc \in 0 .. 5
    BY <1>1, <2>2
  <2> HIDE DEF mb, mc
  <2>4. mb \in 0 .. 1
    BY <2>3
  <2> QED  BY <2>4 DEF mb
<1>3. ~Flat(hand)
  <2>1. Many(hand, a) >= 2
    BY <1>1
  <2> QED  BY <2>1, PairsAreNoRun
<1>4. Groups(hand)[2] = {} /\ Groups(hand)[3] = {} /\ ~IsRun(Groups(hand)[1])
  <2>1. \A r \in Int : Many(hand, r) # 2 /\ Many(hand, r) # 3
    BY <1>1, <1>2
  <2> QED  BY <2>1, GroupsOfOthers
<1> QED  BY <1>3, <1>4 DEF Kind, Flat

\* No hand of the seven cards beats the one Evaluate places highest, whatever
\* its kind: poker compares group by group, Evaluate card by card.
LEMMA HighestIsUnbeaten ==
    ASSUME NEW cards \in Seven, NEW R, Highest(cards, R), NEW T \in Hands(cards)
    PROVE  ~Beats(T, R)
<1> SUFFICES ASSUME Beats(T, R) PROVE FALSE
  OBVIOUS
<1>1. /\ R \in Hands(cards) /\ Kind(R) # HighCard
      /\ Kind(T) <= Kind(R)
      /\ Kind(T) = Kind(R) =>
            ~Higher(Evaluate5CardHand(T).ranks, Evaluate5CardHand(R).ranks)
  BY DEF Highest
<1>2. /\ R \in Hand /\ T \in Hand
      /\ Kind(R) \in HighCard .. RoyalFlush /\ Kind(T) \in HighCard .. RoyalFlush
  BY <1>1, HandsAreHands
<1>3. Kind(T) = Kind(R)
  BY <1>1, <1>2 DEF Beats, HighCard, RoyalFlush
<1> DEFINE A == Groups(T)
           B == Groups(R)
<1>4. ~(Kind(T) > Kind(R))
  BY <1>2, <1>3 DEF HighCard, RoyalFlush
<1>5. PICK n \in 1 .. 4 :
          /\ \A m \in n + 1 .. 4 : A[m] = B[m]
          /\ \E r \in A[n] \ B[n] : \A q \in B[n] \ A[n] : q < r
  BY <1>4 DEF Beats
<1>6. PICK a \in A[n] \ B[n] : \A q \in B[n] \ A[n] : q < a
  BY <1>5
<1>7. CASE CheckStraight(HighToLow(R))
  <2>1. CheckStraight(HighToLow(T))
    BY <1>2, <1>3, <1>7, RunsByKind
  <2>2. Higher(Evaluate5CardHand(T).ranks, Evaluate5CardHand(R).ranks)
    BY <1>2, <1>6, <1>7, <2>1, RunsCompare
  <2> QED  BY <1>1, <1>3, <2>2
<1>8. CASE ~CheckStraight(HighToLow(R))
  <2>1. ~CheckStraight(HighToLow(T))
    BY <1>2, <1>3, <1>8, RunsByKind
  <2>2. \A m \in 1 .. 4 : \A r : /\ r \in A[m] <=> r \in Int /\ Many(T, r) = m
                                 /\ r \in B[m] <=> r \in Int /\ Many(R, r) = m
    BY <1>2, <1>8, <2>1, GroupsOfOthers
  <2> HIDE DEF A, B
  <2>3. a \in Int /\ Many(T, a) = n /\ Many(R, a) # n
    BY <1>6, <2>2
  <2>4. \A q \in Int : Many(R, q) = n /\ Many(T, q) # n => q < a
    BY <1>6, <2>2
  <2>5. \A m \in n + 1 .. 4 : \A r \in Int : Many(T, r) = m <=> Many(R, r) = m
    <3> SUFFICES ASSUME NEW m \in n + 1 .. 4, NEW r \in Int
                 PROVE  Many(T, r) = m <=> Many(R, r) = m
      OBVIOUS
    <3>1. A[m] = B[m] /\ m \in 1 .. 4
      BY <1>5
    <3> QED  BY <2>2, <3>1
  <2>6. CASE n = 1
    <3>1. \A m \in 2 .. 4 : \A r \in Int : Many(T, r) = m <=> Many(R, r) = m
      BY <2>5, <2>6
    <3>2. Many(T, a) = 1 /\ Many(R, a) # 1
          /\ \A q \in Int : Many(R, q) = 1 /\ Many(T, q) # 1 => q < a
      BY <2>3, <2>4, <2>6
    <3>3. Higher(Evaluate5CardHand(T).ranks, Evaluate5CardHand(R).ranks)
      BY <1>1, <1>2, <1>8, <2>1, <2>3, <3>1, <3>2, SinglesDecide
    <3> QED  BY <1>1, <1>3, <3>3
  <2>7. CASE n = 2
    <3>1. \A r \in Int : Many(T, r) = 3 <=> Many(R, r) = 3
      <4>1. 3 \in n + 1 .. 4
        BY <2>7
      <4> QED  BY <2>5, <4>1
    <3>2. Many(T, a) = 2 /\ Many(R, a) # 2
          /\ \A q \in Int : Many(R, q) = 2 /\ Many(T, q) # 2 => q < a
      BY <2>3, <2>4, <2>7
    <3> QED  BY <1>3, <2>3, <3>1, <3>2, PairsDecide
  <2>8. CASE n = 3
    <3>1. Many(T, a) = 3 /\ Many(R, a) # 3
          /\ \A q \in Int : Many(R, q) = 3 /\ Many(T, q) # 3 => q < a
      BY <2>3, <2>4, <2>8
    <3> QED  BY <1>3, <2>3, <3>1, ThreesDecide
  <2>9. CASE n = 4
    <3>1. Many(T, a) = 4 /\ Many(R, a) # 4
      BY <2>3, <2>9
    <3>2. Kind(T) = FourOfAKind
      <4>1. Kind(T) \in {OnePair, TwoPair, ThreeOfAKind, Flush, FullHouse, FourOfAKind}
        BY <1>1, <1>2, <1>3, <2>1, GroupsByKind
      <4>2. a \in Groups(T)[4]
        BY <2>2, <2>3, <3>1 DEF A
      <4>3. Groups(T)[4] # {}
        BY <4>2
      <4> QED  BY <1>2, <2>1, <4>3, FourIsFour
    <3>3. PICK b \in Int : Many(R, b) = 4
      BY <1>2, <1>3, <3>2, GroupsByKind
    <3> QED  BY <1>1, <2>3, <3>1, <3>3, OneFour
  <2>10. n = 1 \/ n = 2 \/ n = 3 \/ n = 4
    OBVIOUS
  <2> QED  BY <2>6, <2>7, <2>8, <2>9, <2>10
<1> QED  BY <1>7, <1>8

\* Of seven different cards of whatever ranks and suits Evaluate finds the best
\* five by the rules of poker, although it compares hands of one kind card by
\* card; unless the first five of them make nothing: it panics then, and only then.
THEOREM EvaluateFindsTheBest ==
    ASSUME NEW cards \in Seven, Len(cards) = 7
    PROVE  LET first == Evaluate5CardHand([i \in 1 .. 5 |-> cards[i]])
           IN  IF first.strength = HighCard
               THEN Evaluate(cards) = Panic
               ELSE /\ IsBest(Evaluate(cards), cards)
                    /\ Evaluate(cards).strength = BestKind(cards)
                    /\ Evaluate(cards) # Panic
<1> DEFINE first == Evaluate5CardHand([i \in 1 .. 5 |-> cards[i]])
<1>1. ASSUME first.strength # HighCard
      PROVE  /\ IsBest(Evaluate(cards), cards)
             /\ Evaluate(cards).strength = BestKind(cards)
             /\ Evaluate(cards) # Panic
  <2>1. PICK R \in Hands(cards) :
          /\ Evaluate(cards) = Evaluate5CardHand(R)
          /\ \A other \in Hands(cards) :
                /\ Kind(other) <= Kind(R)
                /\ Kind(other) = Kind(R) =>
                      ~Higher(Evaluate5CardHand(other).ranks, Evaluate5CardHand(R).ranks)
    BY <1>1, EvaluateByRanks
  <2>2. R \in Hand /\ Kind(R) \in HighCard .. RoyalFlush
        /\ Evaluate5CardHand(R).strength = Kind(R)
    BY HandsAreHands, StrengthIsKind
  <2>3. Kind(R) # HighCard
    <3> DEFINE c == [i \in 1 .. 5 |-> i]
               F == [i \in 1 .. 5 |-> cards[i]]
    <3>1. c \in Fives /\ F = Chosen(cards, c)
      <4>1. Combinations[1] = c /\ Combinations[1] \in Fives
        BY CombinationsAreAll
      <4> QED  BY <4>1 DEF Chosen
    <3>2. F \in Hands(cards)
      BY <3>1 DEF Hands
    <3> HIDE DEF F
    <3>3. first.strength = Kind(F) /\ Kind(F) \in HighCard .. RoyalFlush
      BY <3>2, HandsAreHands, StrengthIsKind DEF F
    <3>4. Kind(F) <= Kind(R)
      BY <2>1, <3>2
    <3> QED  BY <1>1, <2>2, <3>3, <3>4 DEF HighCard, RoyalFlush
  <2>4. Highest(cards, R)
    BY <2>1, <2>3 DEF Highest
  <2>5. \A T \in Hands(cards) : ~Beats(T, R)
    BY <2>4, HighestIsUnbeaten
  <2>6. IsBest(Evaluate(cards), cards)
    BY <2>1, <2>2, <2>5 DEF IsBest
  <2>7. Evaluate(cards).strength = BestKind(cards)
    BY <1>1, EvaluateFindsTheKind
  <2>8. Evaluate(cards) # Panic
    BY <2>1, <2>2 DEF Panic, HighCard, RoyalFlush
  <2> QED  BY <2>6, <2>7, <2>8
<1>2. first.strength = HighCard => Evaluate(cards) = Panic
  BY EvaluateByRanks
<1> QED  BY <1>1, <1>2
===============================================================================
