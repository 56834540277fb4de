---------------------------- MODULE FiniteSetFacts ----------------------------
(***************************************************************************)
(* Facts about finite sets the proofs share: the least element of a set of *)
(* naturals (the rings of peers are walked with Min), induction over a     *)
(* finite set, and the sum of a function over one (chips are added up with *)
(* SumFunctionOnSet).                                                      *)
(*                                                                         *)
(* The induction is stated over a set of sets, not over a predicate:       *)
(* a predicate would be an operator parameter, which no prover here can    *)
(* instantiate; a comprehension is a value like any other.                 *)
(***************************************************************************)
EXTENDS Integers, FiniteSetsExt, FiniteSetTheorems, TLAPS, WellFoundedInduction

\* A non-empty set of naturals has a least member, and Min is it.
LEMMA MinIsMember ==
    ASSUME NEW S \in SUBSET Nat, S # {}
    PROVE  Min(S) \in S /\ \A y \in S : Min(S) <= y
<1>1. PICK x \in S : \A y \in S : ~(<<y, x>> \in OpToRel(<, Nat))
    BY WFMin, NatLessThanWellFounded
<1>2. ASSUME NEW y \in S
      PROVE  ~(y < x)
    <2>1. y < x <=> <<y, x>> \in OpToRel(<, Nat)
        BY DEF OpToRel
    <2>. QED BY <1>1, <2>1
<1>3. \A y \in S : x <= y
    BY <1>2
<1>. QED BY <1>3 DEF Min

-----------------------------------------------------------------------------
(* Induction over data. *)

\* A set of naturals that holds 0 and is closed under successor is Nat.
LEMMA NatSetInduction ==
    ASSUME NEW S \in SUBSET Nat, 0 \in S, \A n \in S : n + 1 \in S
    PROVE  S = Nat
<1>. DEFINE out == Nat \ S
<1>1. SUFFICES ASSUME out # {} PROVE FALSE
    OBVIOUS
<1>2. Min(out) \in out /\ \A n \in out : Min(out) <= n
    <2>. out \in SUBSET Nat
        OBVIOUS
    <2>. HIDE DEF out
    <2>. QED BY <1>1, MinIsMember
<1>3. Min(out) - 1 \in Nat /\ Min(out) - 1 \notin out
    BY <1>2
<1>4. (Min(out) - 1) + 1 \in S
    BY <1>3
<1>. QED BY <1>2, <1>4

\* Subsets of a finite set, one element added at a time, reach the set itself.
LEMMA FiniteSetInduction ==
    ASSUME NEW S, IsFiniteSet(S), NEW Good \in SUBSET SUBSET S,
           {} \in Good,
           \A T \in Good : \A x \in S \ T : T \cup {x} \in Good
    PROVE  \A T \in SUBSET S : T \in Good
<1>. DEFINE sizes == {n \in Nat : \A T \in SUBSET S : Cardinality(T) = n => T \in Good}
<1>0. \A T \in SUBSET S : IsFiniteSet(T) /\ Cardinality(T) \in Nat
    BY FS_Subset, FS_CardinalityType
<1>1. 0 \in sizes
    BY <1>0, FS_EmptySet
<1>2. ASSUME NEW n \in sizes PROVE n + 1 \in sizes
    <2>1. SUFFICES ASSUME NEW T \in SUBSET S, Cardinality(T) = n + 1
                   PROVE  T \in Good
        OBVIOUS
    <2>2. PICK x : x \in T
        <3>1. T # {}
            BY <2>1, FS_EmptySet
        <3>. QED BY <3>1
    <2>3. Cardinality(T \ {x}) = n
        BY <1>0, <2>1, <2>2, FS_RemoveElement
    <2>4. T \ {x} \in Good /\ x \in S \ (T \ {x})
        BY <2>2, <2>3
    <2>5. (T \ {x}) \cup {x} = T
        BY <2>2
    <2>. QED BY <2>4, <2>5
<1>3. sizes = Nat
    <2>. sizes \in SUBSET Nat
        OBVIOUS
    <2>. HIDE DEF sizes
    <2>. QED BY <1>1, <1>2, NatSetInduction
<1>. QED BY <1>0, <1>3

-----------------------------------------------------------------------------
(* The sum of a function over a finite set. *)

Picked(s) == CHOOSE x \in s : TRUE

\* What the fold adds for the set s, given what g is for smaller ones.
FoldStep(g, f, s) == IF s = {} THEN 0 ELSE f[Picked(s)] + g[s \ {Picked(s)}]

\* The recursive equation of the fold over the subsets of S.
FoldsTo(g, f, S) == g = [s \in SUBSET S |-> FoldStep(g, f, s)]

LEMMA PickedIsMember == ASSUME NEW s, s # {} PROVE Picked(s) \in s
BY DEF Picked

LEMMA SumIsFold ==
    ASSUME NEW f, NEW S
    PROVE  SumFunctionOnSet(f, S) = (CHOOSE g : FoldsTo(g, f, S))[S]
BY DEF SumFunctionOnSet, FoldFunctionOnSet, MapThenFoldSet, FoldsTo, FoldStep, Picked

\* The equation has a solution on the sets of at most n elements, for every n.
LEMMA FoldExists ==
    ASSUME NEW f, NEW S, IsFiniteSet(S)
    PROVE  \E g : FoldsTo(g, f, S)
<1>. DEFINE upTo(n) == {s \in SUBSET S : Cardinality(s) <= n}
            sizes == {n \in Nat : \E g : g = [s \in upTo(n) |-> FoldStep(g, f, s)]}
<1>0. \A s \in SUBSET S : IsFiniteSet(s) /\ Cardinality(s) \in Nat
                          /\ Cardinality(s) <= Cardinality(S)
    BY FS_Subset, FS_CardinalityType
<1>1. 0 \in sizes
    <2>1. \A s \in upTo(0) : s = {}
        BY <1>0, FS_EmptySet
    <2>. DEFINE g == [s \in upTo(0) |-> 0]
    <2>2. g = [s \in upTo(0) |-> FoldStep(g, f, s)]
        BY <2>1 DEF FoldStep
    <2>. QED BY <2>2
<1>2. ASSUME NEW n \in sizes PROVE n + 1 \in sizes
    <2>1. PICK g : g = [s \in upTo(n) |-> FoldStep(g, f, s)]
        OBVIOUS
    <2>. DEFINE h == [s \in upTo(n + 1) |-> FoldStep(g, f, s)]
    <2>2. \A s \in upTo(n) : s \in upTo(n + 1) /\ h[s] = g[s]
        BY <1>0, <2>1
    <2>3. ASSUME NEW s \in upTo(n + 1), s # {}
          PROVE  s \ {Picked(s)} \in upTo(n)
        <3>1. Picked(s) \in s
            BY <2>3, PickedIsMember
        <3>2. Cardinality(s \ {Picked(s)}) = Cardinality(s) - 1
            BY <1>0, <3>1, FS_RemoveElement
        <3>. QED BY <1>0, <3>2
    <2>4. \A s \in upTo(n + 1) : FoldStep(h, f, s) = FoldStep(g, f, s)
        BY <2>2, <2>3 DEF FoldStep
    <2>5. h = [s \in upTo(n + 1) |-> FoldStep(h, f, s)]
        BY <2>4
    <2>6. n + 1 \in Nat
        OBVIOUS
    <2>. HIDE DEF h, upTo
    <2>. QED BY <2>5, <2>6
<1>3. sizes = Nat
    <2>. sizes \in SUBSET Nat
        OBVIOUS
    <2>. HIDE DEF sizes
    <2>. QED BY <1>1, <1>2, NatSetInduction
<1>4. Cardinality(S) \in Nat /\ upTo(Cardinality(S)) = SUBSET S
    BY <1>0, FS_CardinalityType
<1>5. PICK g : g = [s \in upTo(Cardinality(S)) |-> FoldStep(g, f, s)]
    <2>. HIDE DEF upTo
    <2>. QED BY <1>3, <1>4
<1>6. g = [s \in SUBSET S |-> FoldStep(g, f, s)]
    BY <1>4, <1>5
<1>. QED BY <1>6 DEF FoldsTo

\* Two solutions agree wherever both are defined.
LEMMA FoldsAgree ==
    ASSUME NEW f, NEW S, NEW T \in SUBSET S, IsFiniteSet(S),
           NEW g, FoldsTo(g, f, S), NEW h, FoldsTo(h, f, T)
    PROVE  g[T] = h[T]
<1>. DEFINE sizes == {n \in Nat : \A s \in SUBSET T :
                                     Cardinality(s) = n => g[s] = h[s]}
<1>0. \A s \in SUBSET T : IsFiniteSet(s) /\ Cardinality(s) \in Nat /\ s \in SUBSET S
    BY FS_Subset, FS_CardinalityType
<1>1. 0 \in sizes
    BY <1>0, FS_EmptySet DEF FoldsTo, FoldStep
<1>2. ASSUME NEW n \in sizes PROVE n + 1 \in sizes
    <2>1. SUFFICES ASSUME NEW s \in SUBSET T, Cardinality(s) = n + 1
                   PROVE  g[s] = h[s]
        OBVIOUS
    <2>2. s # {} /\ Picked(s) \in s
        <3>1. s # {}
            BY <2>1, FS_EmptySet
        <3>. QED BY <3>1, PickedIsMember
    <2>3. Cardinality(s \ {Picked(s)}) = n
        <3>1. Cardinality(s \ {Picked(s)}) = Cardinality(s) - 1
            BY <1>0, <2>2, FS_RemoveElement
        <3>. QED BY <2>1, <3>1
    <2>4. g[s \ {Picked(s)}] = h[s \ {Picked(s)}]
        BY <2>3
    <2>. QED BY <1>0, <2>2, <2>4 DEF FoldsTo, FoldStep
<1>3. sizes = Nat
    <2>. sizes \in SUBSET Nat
        OBVIOUS
    <2>. HIDE DEF sizes
    <2>. QED BY <1>1, <1>2, NatSetInduction
<1>. QED BY <1>0, <1>3

\* The sum of the empty set, and what the element the fold picks adds.
LEMMA SumUnfolds ==
    ASSUME NEW f, NEW S, IsFiniteSet(S)
    PROVE  SumFunctionOnSet(f, S) =
              IF S = {} THEN 0
              ELSE f[Picked(S)] + SumFunctionOnSet(f, S \ {Picked(S)})
<1>. DEFINE rest == S \ {Picked(S)}
            g == CHOOSE g : FoldsTo(g, f, S)
            h == CHOOSE h : FoldsTo(h, f, rest)
<1>1. rest \in SUBSET S /\ IsFiniteSet(rest)
    BY FS_Subset
<1>2. FoldsTo(g, f, S) /\ FoldsTo(h, f, rest)
    BY <1>1, FoldExists
<1>3. SumFunctionOnSet(f, S) = g[S] /\ SumFunctionOnSet(f, rest) = h[rest]
    BY SumIsFold
<1>. HIDE DEF g, h, rest
<1>4. g[rest] = h[rest]
    BY <1>1, <1>2, FoldsAgree
<1>5. g[S] = FoldStep(g, f, S)
    BY <1>2 DEF FoldsTo
<1>. QED BY <1>3, <1>4, <1>5 DEF FoldStep, rest

-----------------------------------------------------------------------------
(* What the proofs cite of a sum. *)

LEMMA SumOfNone ==
    ASSUME NEW f PROVE SumFunctionOnSet(f, {}) = 0
BY SumUnfolds, FS_EmptySet

LEMMA SumIsInt ==
    ASSUME NEW f, NEW S, IsFiniteSet(S), \A x \in S : f[x] \in Int
    PROVE  SumFunctionOnSet(f, S) \in Int
<1>. DEFINE sizes == {n \in Nat : \A T \in SUBSET S : Cardinality(T) = n =>
                                     SumFunctionOnSet(f, T) \in Int}
<1>0. \A T \in SUBSET S : IsFiniteSet(T) /\ Cardinality(T) \in Nat
    BY FS_Subset, FS_CardinalityType
<1>1. 0 \in sizes
    BY <1>0, FS_EmptySet, SumOfNone
<1>2. ASSUME NEW n \in sizes PROVE n + 1 \in sizes
    <2>1. SUFFICES ASSUME NEW T \in SUBSET S, Cardinality(T) = n + 1
                   PROVE  SumFunctionOnSet(f, T) \in Int
        OBVIOUS
    <2>2. T # {}
        BY <2>1, FS_EmptySet
    <2>3. Picked(T) \in T
        BY <2>2, PickedIsMember
    <2>4. Cardinality(T \ {Picked(T)}) = Cardinality(T) - 1
        BY <1>0, <2>3, FS_RemoveElement
    <2>5. SumFunctionOnSet(f, T \ {Picked(T)}) \in Int
        BY <2>1, <2>4
    <2>6. f[Picked(T)] \in Int
        BY <2>3
    <2>7. SumFunctionOnSet(f, T) =
            f[Picked(T)] + SumFunctionOnSet(f, T \ {Picked(T)})
        BY <1>0, <2>2, SumUnfolds
    <2>. QED BY <2>5, <2>6, <2>7
<1>3. sizes = Nat
    <2>. sizes \in SUBSET Nat
        OBVIOUS
    <2>. HIDE DEF sizes
    <2>. QED BY <1>1, <1>2, NatSetInduction
<1>. QED BY <1>0, <1>3

\* The order in which a sum is added up does not matter: any element can be
\* taken out first.
LEMMA SumTakesOut ==
    ASSUME NEW f, NEW S, IsFiniteSet(S), \A y \in S : f[y] \in Int, NEW x \in S
    PROVE  SumFunctionOnSet(f, S) = f[x] + SumFunctionOnSet(f, S \ {x})
<1>. DEFINE Sum(T) == SumFunctionOnSet(f, T)
            sizes == {n \in Nat : \A T \in SUBSET S : Cardinality(T) = n =>
                                     \A y \in T : Sum(T) = f[y] + Sum(T \ {y})}
<1>0. \A T \in SUBSET S : IsFiniteSet(T) /\ Cardinality(T) \in Nat /\ Sum(T) \in Int
    BY FS_Subset, FS_CardinalityType, SumIsInt
<1>1. 0 \in sizes
    BY <1>0, FS_EmptySet
<1>2. ASSUME NEW n \in sizes PROVE n + 1 \in sizes
    <2>1. SUFFICES ASSUME NEW T \in SUBSET S, Cardinality(T) = n + 1, NEW y \in T
                   PROVE  Sum(T) = f[y] + Sum(T \ {y})
        OBVIOUS
    <2>. DEFINE z == Picked(T)
    <2>2. z \in T
        BY PickedIsMember
    <2>3. Sum(T) = f[z] + Sum(T \ {z})
        BY <1>0, SumUnfolds
    <2>. HIDE DEF z
    <2>4. CASE z = y
        BY <2>3, <2>4
    <2>5. CASE z # y
        <3>1. Cardinality(T \ {z}) = n /\ Cardinality(T \ {y}) = n
            <4>1. /\ Cardinality(T \ {z}) = Cardinality(T) - 1
                  /\ Cardinality(T \ {y}) = Cardinality(T) - 1
                BY <1>0, <2>2, FS_RemoveElement
            <4>. QED BY <2>1, <4>1
        <3>2. y \in T \ {z} /\ z \in T \ {y}
            BY <2>2, <2>5
        <3>3. Sum(T \ {z}) = f[y] + Sum((T \ {z}) \ {y})
            BY <3>1, <3>2
        <3>4. Sum(T \ {y}) = f[z] + Sum((T \ {y}) \ {z})
            BY <3>1, <3>2
        <3>5. (T \ {z}) \ {y} = (T \ {y}) \ {z}
            OBVIOUS
        <3>6. /\ Sum((T \ {y}) \ {z}) \in Int /\ f[y] \in Int /\ f[z] \in Int
            BY <1>0, <2>2
        <3>7. Sum(T \ {y}) = f[z] + Sum((T \ {z}) \ {y})
            BY <3>4, <3>5
        <3>8. Sum((T \ {z}) \ {y}) \in Int
            BY <3>5, <3>6
        <3>. QED BY <2>3, <3>3, <3>6, <3>7, <3>8
    <2>. QED BY <2>4, <2>5
<1>3. sizes = Nat
    <2>. sizes \in SUBSET Nat
        OBVIOUS
    <2>. HIDE DEF sizes
    <2>. QED BY <1>1, <1>2, NatSetInduction
<1>. QED BY <1>0, <1>3

LEMMA SumAdds ==
    ASSUME NEW f, NEW S, IsFiniteSet(S), NEW x, x \notin S,
           \A y \in S \cup {x} : f[y] \in Int
    PROVE  SumFunctionOnSet(f, S \cup {x}) = f[x] + SumFunctionOnSet(f, S)
<1>1. IsFiniteSet(S \cup {x})
    BY FS_AddElement
<1>2. (S \cup {x}) \ {x} = S
    OBVIOUS
<1>. QED BY <1>1, <1>2, SumTakesOut

\* Only what a function is on the set counts.
LEMMA SumsAgree ==
    ASSUME NEW f, NEW g, NEW S, IsFiniteSet(S),
           \A x \in S : f[x] \in Int /\ g[x] = f[x]
    PROVE  SumFunctionOnSet(g, S) = SumFunctionOnSet(f, S)
<1>. DEFINE Good == {T \in SUBSET S : SumFunctionOnSet(g, T) = SumFunctionOnSet(f, T)}
<1>1. {} \in Good
    BY SumOfNone
<1>2. ASSUME NEW T \in Good, NEW x \in S \ T PROVE T \cup {x} \in Good
    <2>1. IsFiniteSet(T) /\ T \cup {x} \in SUBSET S
        BY FS_Subset
    <2>2. /\ SumFunctionOnSet(f, T \cup {x}) = f[x] + SumFunctionOnSet(f, T)
          /\ SumFunctionOnSet(g, T \cup {x}) = g[x] + SumFunctionOnSet(g, T)
        BY <2>1, SumAdds
    <2>. QED BY <2>1, <2>2
<1>3. \A T \in SUBSET S : T \in Good
    <2>. Good \in SUBSET SUBSET S
        OBVIOUS
    <2>. HIDE DEF Good
    <2>. QED BY <1>1, <1>2, FiniteSetInduction
<1>. QED BY <1>3

\* Changing the function at one element shifts the sum by the difference.
LEMMA SumShifts ==
    ASSUME NEW f, NEW g, NEW S, IsFiniteSet(S), NEW x \in S,
           \A y \in S : f[y] \in Int /\ g[y] \in Int,
           \A y \in S \ {x} : g[y] = f[y]
    PROVE  SumFunctionOnSet(g, S) = SumFunctionOnSet(f, S) + (g[x] - f[x])
<1>1. /\ SumFunctionOnSet(f, S) = f[x] + SumFunctionOnSet(f, S \ {x})
      /\ SumFunctionOnSet(g, S) = g[x] + SumFunctionOnSet(g, S \ {x})
    BY SumTakesOut
<1>2. IsFiniteSet(S \ {x})
    BY FS_Subset
<1>3. SumFunctionOnSet(g, S \ {x}) = SumFunctionOnSet(f, S \ {x})
    BY <1>2, SumsAgree
<1>4. SumFunctionOnSet(f, S \ {x}) \in Int /\ f[x] \in Int /\ g[x] \in Int
    BY <1>2, SumIsInt
<1>. QED BY <1>1, <1>3, <1>4

LEMMA SumIsNat ==
    ASSUME NEW f, NEW S, IsFiniteSet(S), \A x \in S : f[x] \in Nat
    PROVE  SumFunctionOnSet(f, S) \in Nat
<1>. DEFINE Good == {T \in SUBSET S : SumFunctionOnSet(f, T) \in Nat}
<1>1. {} \in Good
    BY SumOfNone
<1>2. ASSUME NEW T \in Good, NEW x \in S \ T PROVE T \cup {x} \in Good
    <2>1. IsFiniteSet(T) /\ T \cup {x} \in SUBSET S
        BY FS_Subset
    <2>2. SumFunctionOnSet(f, T \cup {x}) = f[x] + SumFunctionOnSet(f, T)
        BY <2>1, SumAdds
    <2>. QED BY <2>1, <2>2
<1>3. \A T \in SUBSET S : T \in Good
    <2>. Good \in SUBSET SUBSET S
        OBVIOUS
    <2>. HIDE DEF Good
    <2>. QED BY <1>1, <1>2, FiniteSetInduction
<1>. QED BY <1>3

LEMMA SumOfZeros ==
    ASSUME NEW f, NEW S, IsFiniteSet(S), \A x \in S : f[x] = 0
    PROVE  SumFunctionOnSet(f, S) = 0
<1>. DEFINE Good == {T \in SUBSET S : SumFunctionOnSet(f, T) = 0}
<1>1. {} \in Good
    BY SumOfNone
<1>2. ASSUME NEW T \in Good, NEW x \in S \ T PROVE T \cup {x} \in Good
    <2>1. IsFiniteSet(T) /\ T \cup {x} \in SUBSET S
        BY FS_Subset
    <2>2. SumFunctionOnSet(f, T \cup {x}) = f[x] + SumFunctionOnSet(f, T)
        BY <2>1, SumAdds
    <2>. QED BY <2>1, <2>2
<1>3. \A T \in SUBSET S : T \in Good
    <2>. Good \in SUBSET SUBSET S
        OBVIOUS
    <2>. HIDE DEF Good
    <2>. QED BY <1>1, <1>2, FiniteSetInduction
<1>. QED BY <1>3
=============================================================================
