---------------------------- MODULE SumTheorems ----------------------------
(***************************************************************************)
(* Sums over finite sets, for every set and every function: what the       *)
(* models' balances, totals and tallies (SumFunctionOnSet of the community *)
(* modules) do when one amount changes, joins or leaves.                   *)
(*                                                                         *)
(* The sum is a recursive function over the subsets of a set.  That the    *)
(* function exists and what it computes is shown by induction over         *)
(* subsets, which rests on a fact of the library that names no operator:   *)
(* inclusion is well founded on finite sets, so that a set of subsets that *)
(* is not empty has a minimal member.                                      *)
(***************************************************************************)
EXTENDS Functions, FiniteSetTheorems, TLAPS

\* The member that is added last, and the function that adds up.
Pick(S) == CHOOSE x \in S : TRUE
Iterated(f, S, sum) ==
    sum = [s \in SUBSET S |-> IF s = {} THEN 0 ELSE f[Pick(s)] + sum[s \ {Pick(s)}]]

\* The same up to a number of members.
Level(S, n) == {s \in SUBSET S : Cardinality(s) <= n}
IteratedTo(f, S, n, sum) ==
    sum = [s \in Level(S, n) |-> IF s = {} THEN 0 ELSE f[Pick(s)] + sum[s \ {Pick(s)}]]

-----------------------------------------------------------------------------
(* Induction.                                                              *)

\* A set that has members has the one picked.
LEMMA PickIsIn == ASSUME NEW S, S # {} PROVE Pick(S) \in S
  BY DEF Pick

\* Some member of a set of finite sets has no smaller one in it.
LEMMA SmallestSubset ==
  ASSUME NEW S, IsFiniteSet(S), NEW B \in SUBSET SUBSET S, B # {}
  PROVE  \E s \in B : \A t \in B : ~ (t \subseteq s /\ t # s)
  <1>1. IsWellFoundedOn(StrictSubsetOrdering(S), SUBSET S)
    BY FS_StrictSubsetOrderingWellFounded, FS_FiniteSubsetsOfFinite
  <1>2. \E s \in B : \A t \in B : ~ (<<t, s>> \in StrictSubsetOrdering(S))
    BY <1>1, WFMin
  <1> QED
    BY <1>2 DEF StrictSubsetOrdering

\* What holds of a set when it holds of all its proper subsets holds of all finite sets.
LEMMA SubsetInduction ==
  ASSUME NEW S, IsFiniteSet(S), NEW T,
         \A s \in SUBSET S : (\A t \in SUBSET s : t # s => t \in T) => s \in T
  PROVE  SUBSET S \subseteq T
  <1> DEFINE B == {s \in SUBSET S : s \notin T}
  <1> SUFFICES ASSUME B # {} PROVE FALSE
    OBVIOUS
  <1>1. B \in SUBSET SUBSET S
    OBVIOUS
  <1>2. PICK s \in B : \A t \in B : ~ (t \subseteq s /\ t # s)
    <2> HIDE DEF B
    <2> QED
      BY <1>1, SmallestSubset
  <1>3. \A t \in SUBSET s : t # s => t \in T
    BY <1>2
  <1> QED
    BY <1>3

\* What holds of the empty set, and of a set when it holds without the member picked,
\* holds of all finite sets.
LEMMA PickInduction ==
  ASSUME NEW S, IsFiniteSet(S), NEW T, {} \in T,
         \A s \in SUBSET S : s # {} /\ s \ {Pick(s)} \in T => s \in T
  PROVE  SUBSET S \subseteq T
  <1>1. ASSUME NEW s \in SUBSET S, \A t \in SUBSET s : t # s => t \in T
        PROVE  s \in T
    BY <1>1, PickIsIn
  <1> QED
    BY <1>1, SubsetInduction

\* Induction over the naturals, as a set.
LEMMA NatInductive ==
  ASSUME NEW T, 0 \in T, \A n \in Nat : n \in T => n + 1 \in T
  PROVE  Nat \subseteq T
  <1> DEFINE B == {n \in Nat : n \notin T}
  <1> SUFFICES ASSUME B # {} PROVE FALSE
    OBVIOUS
  <1>1. B \subseteq Nat
    OBVIOUS
  <1>2. PICK n \in B : \A m \in B : ~ (<<m, n>> \in OpToRel(<, Nat))
    <2> HIDE DEF B
    <2> QED
      BY <1>1, NatLessThanWellFounded, WFMin
  <1>3. \A m \in B : ~ (m < n)
    BY <1>2 DEF OpToRel
  <1>4. n # 0 /\ n - 1 \in Nat /\ n - 1 < n
    OBVIOUS
  <1>5. n - 1 \in T
    BY <1>3, <1>4
  <1>6. (n - 1) + 1 \in T
    BY <1>4, <1>5
  <1> QED
    BY <1>6

-----------------------------------------------------------------------------
(* The function that adds up exists, and there is one.                     *)

\* A function that adds up to some number of members is extended by one member at a time.
LEMMA IteratedExists ==
  ASSUME NEW S, IsFiniteSet(S), NEW f
  PROVE  \E sum : Iterated(f, S, sum)
  <1> DEFINE T == {n \in Nat : \E sum : IteratedTo(f, S, n, sum)}
  <1>1. 0 \in T
    <2>1. \A s \in Level(S, 0) : s = {}
      BY FS_Subset, FS_EmptySet, FS_CardinalityType DEF Level
    <2>2. IteratedTo(f, S, 0, [s \in Level(S, 0) |-> 0])
      BY <2>1 DEF IteratedTo
    <2> QED
      BY <2>2
  <1>2. ASSUME NEW n \in Nat, n \in T
        PROVE  n + 1 \in T
    <2>1. PICK g : IteratedTo(f, S, n, g)
      BY <1>2
    <2> DEFINE h == [s \in Level(S, n + 1) |->
                        IF s = {} THEN 0 ELSE f[Pick(s)] + g[s \ {Pick(s)}]]
    <2>2. ASSUME NEW s \in Level(S, n + 1), s # {}
          PROVE  s \ {Pick(s)} \in Level(S, n) /\ s \ {Pick(s)} \in Level(S, n + 1)
      <3>1. s \in SUBSET S /\ IsFiniteSet(s) /\ Cardinality(s) <= n + 1 /\ Pick(s) \in s
        BY <2>2, FS_Subset, PickIsIn DEF Level
      <3>2. Cardinality(s) \in Nat /\ Cardinality(s \ {Pick(s)}) = Cardinality(s) - 1
        BY <3>1, FS_RemoveElement, FS_CardinalityType
      <3> QED
        BY <3>1, <3>2 DEF Level
    <2>3. ASSUME NEW s \in Level(S, n), s \in Level(S, n + 1)
          PROVE  h[s] = g[s]
      BY <2>1, <2>3 DEF IteratedTo
    <2>4. IteratedTo(f, S, n + 1, h)
      <3>1. \A s \in Level(S, n + 1) : s # {} => h[s \ {Pick(s)}] = g[s \ {Pick(s)}]
        BY <2>2, <2>3
      <3> QED
        BY <3>1 DEF IteratedTo
    <2> HIDE DEF h
    <2> QED
      BY <2>4
  <1>3. Cardinality(S) \in T
    <2> HIDE DEF T
    <2> QED
      BY <1>1, <1>2, NatInductive, FS_CardinalityType
  <1>4. Level(S, Cardinality(S)) = SUBSET S
    BY FS_Subset DEF Level
  <1> QED
    BY <1>3, <1>4 DEF IteratedTo, Iterated

\* Whatever the set it was begun with, it gives a subset the same sum.
LEMMA IteratedUnique ==
  ASSUME NEW S, IsFiniteSet(S), NEW T \in SUBSET S, NEW f, NEW g, NEW h,
         Iterated(f, S, g), Iterated(f, T, h)
  PROVE  \A s \in SUBSET T : g[s] = h[s]
  <1> DEFINE Same == {s \in SUBSET T : g[s] = h[s]}
  <1>1. {} \in Same
    BY DEF Iterated
  <1>2. ASSUME NEW s \in SUBSET T, s # {}, s \ {Pick(s)} \in Same
        PROVE  s \in Same
    BY <1>2 DEF Iterated
  <1>3. IsFiniteSet(T)
    BY FS_Subset
  <1>4. SUBSET T \subseteq Same
    <2> HIDE DEF Same
    <2> QED
      BY <1>1, <1>2, <1>3, PickInduction
  <1> QED
    BY <1>4

\* The definition of the library, in these words.
LEMMA SumIsIterated ==
  ASSUME NEW S, NEW f
  PROVE  SumFunctionOnSet(f, S) = (CHOOSE sum : Iterated(f, S, sum))[S]
  BY DEF SumFunctionOnSet, FoldFunctionOnSet, MapThenFoldSet, Iterated, Pick

\* A sum is that of the member picked and the others.
LEMMA SumUnfolds ==
  ASSUME NEW S, IsFiniteSet(S), NEW f
  PROVE  /\ S = {} => SumFunctionOnSet(f, S) = 0
         /\ S # {} => SumFunctionOnSet(f, S) = f[Pick(S)] + SumFunctionOnSet(f, S \ {Pick(S)})
  <1> DEFINE It(T) == CHOOSE sum : Iterated(f, T, sum)
             R == S \ {Pick(S)}
  <1>1. ASSUME NEW T, IsFiniteSet(T) PROVE Iterated(f, T, It(T))
    BY <1>1, IteratedExists
  <1>2. IsFiniteSet(R) /\ R \in SUBSET S
    BY FS_Subset
  <1>3. Iterated(f, S, It(S)) /\ Iterated(f, R, It(R))
    BY <1>1, <1>2
  <1>4. SumFunctionOnSet(f, S) = It(S)[S] /\ SumFunctionOnSet(f, R) = It(R)[R]
    BY SumIsIterated
  <1> HIDE DEF It, R
  <1>5. It(S)[R] = It(R)[R]
    BY <1>2, <1>3, IteratedUnique
  <1>6. It(S)[S] = IF S = {} THEN 0 ELSE f[Pick(S)] + It(S)[S \ {Pick(S)}]
    <2>1. S \in SUBSET S
      OBVIOUS
    <2> QED
      BY <1>3, <2>1 DEF Iterated
  <1>7. SumFunctionOnSet(f, S) =
            IF S = {} THEN 0 ELSE f[Pick(S)] + SumFunctionOnSet(f, S \ {Pick(S)})
    BY <1>4, <1>5, <1>6 DEF R
  <1> QED
    BY <1>7

-----------------------------------------------------------------------------
(* Facts about sums.                                                       *)

\* Nothing adds up to nothing.
LEMMA SumOfNone == \A f : SumFunctionOnSet(f, {}) = 0
  BY SumUnfolds, FS_EmptySet

\* A sum is in every set that has zero and is closed under adding the amounts.
LEMMA SumIsIn ==
  ASSUME NEW S, IsFiniteSet(S), NEW f, NEW V, 0 \in V,
         \A x \in S, v \in V : f[x] + v \in V
  PROVE  SumFunctionOnSet(f, S) \in V
  <1> DEFINE T == {s \in SUBSET S : SumFunctionOnSet(f, s) \in V}
  <1>1. {} \in T
    BY SumOfNone
  <1>2. ASSUME NEW s \in SUBSET S, s # {}, s \ {Pick(s)} \in T
        PROVE  s \in T
    <2>1. IsFiniteSet(s) /\ Pick(s) \in s
      BY <1>2, FS_Subset, PickIsIn
    <2>2. SumFunctionOnSet(f, s) = f[Pick(s)] + SumFunctionOnSet(f, s \ {Pick(s)})
      BY <1>2, <2>1, SumUnfolds
    <2> QED
      BY <1>2, <2>1, <2>2
  <1>3. SUBSET S \subseteq T
    <2> HIDE DEF T
    <2> QED
      BY <1>1, <1>2, PickInduction
  <1> QED
    BY <1>3

\* Amounts add up to an amount.
LEMMA SumInt ==
  ASSUME NEW S, IsFiniteSet(S), NEW f, \A x \in S : f[x] \in Int
  PROVE  SumFunctionOnSet(f, S) \in Int
  BY SumIsIn

\* Amounts that are not negative add up to one.
LEMMA SumNat ==
  ASSUME NEW S, IsFiniteSet(S), NEW f, \A x \in S : f[x] \in Nat
  PROVE  SumFunctionOnSet(f, S) \in Nat
  <1>1. \A x \in S, v \in Nat : f[x] + v \in Nat
    OBVIOUS
  <1> QED
    BY <1>1, SumIsIn

\* Zeros add up to zero.
LEMMA SumOfZeros ==
  ASSUME NEW S, IsFiniteSet(S), NEW f, \A x \in S : f[x] = 0
  PROVE  SumFunctionOnSet(f, S) = 0
  <1>1. \A x \in S, v \in {0} : f[x] + v \in {0}
    OBVIOUS
  <1>2. SumFunctionOnSet(f, S) \in {0}
    BY <1>1, SumIsIn
  <1> QED
    BY <1>2

\* Sums are added member by member.
LEMMA SumOfBoth ==
  ASSUME NEW S, IsFiniteSet(S), NEW f, NEW g, NEW h,
         \A x \in S : f[x] \in Int /\ g[x] \in Int /\ h[x] = f[x] + g[x]
  PROVE  SumFunctionOnSet(h, S) = SumFunctionOnSet(f, S) + SumFunctionOnSet(g, S)
  <1> DEFINE F(s) == SumFunctionOnSet(f, s)
             G(s) == SumFunctionOnSet(g, s)
             H(s) == SumFunctionOnSet(h, s)
             T == {s \in SUBSET S : F(s) \in Int /\ G(s) \in Int /\ H(s) = F(s) + G(s)}
  <1>1. {} \in T
    BY SumOfNone
  <1>2. ASSUME NEW s \in SUBSET S, s # {}, s \ {Pick(s)} \in T
        PROVE  s \in T
    <2>1. IsFiniteSet(s) /\ Pick(s) \in s
      BY <1>2, FS_Subset, PickIsIn
    <2>2. /\ F(s) = f[Pick(s)] + F(s \ {Pick(s)})
          /\ G(s) = g[Pick(s)] + G(s \ {Pick(s)})
          /\ H(s) = h[Pick(s)] + H(s \ {Pick(s)})
      BY <1>2, <2>1, SumUnfolds
    <2>3. h[Pick(s)] = f[Pick(s)] + g[Pick(s)] /\ f[Pick(s)] \in Int /\ g[Pick(s)] \in Int
      BY <2>1
    <2> HIDE DEF F, G, H
    <2> QED
      BY <1>2, <2>2, <2>3
  <1>3. SUBSET S \subseteq T
    <2> HIDE DEF T
    <2> QED
      BY <1>1, <1>2, PickInduction
  <1> QED
    BY <1>3

\* A sum is that of the amounts, whatever else the functions are.
LEMMA SumOfSame ==
  ASSUME NEW S, IsFiniteSet(S), NEW f, NEW g, \A x \in S : f[x] = g[x]
  PROVE  SumFunctionOnSet(f, S) = SumFunctionOnSet(g, S)
  <1> DEFINE T == {s \in SUBSET S : SumFunctionOnSet(f, s) = SumFunctionOnSet(g, s)}
  <1>1. {} \in T
    BY SumOfNone
  <1>2. ASSUME NEW s \in SUBSET S, s # {}, s \ {Pick(s)} \in T
        PROVE  s \in T
    <2>1. IsFiniteSet(s) /\ Pick(s) \in s
      BY <1>2, FS_Subset, PickIsIn
    <2>2. /\ SumFunctionOnSet(f, s) = f[Pick(s)] + SumFunctionOnSet(f, s \ {Pick(s)})
          /\ SumFunctionOnSet(g, s) = g[Pick(s)] + SumFunctionOnSet(g, s \ {Pick(s)})
      BY <1>2, <2>1, SumUnfolds
    <2> QED
      BY <1>2, <2>1, <2>2
  <1>3. SUBSET S \subseteq T
    <2> HIDE DEF T
    <2> QED
      BY <1>1, <1>2, PickInduction
  <1> QED
    BY <1>3

\* The order does not matter: a sum is that of any member and the others.
LEMMA SumWithout ==
  ASSUME NEW S, IsFiniteSet(S), NEW f, \A x \in S : f[x] \in Int, NEW x \in S
  PROVE  SumFunctionOnSet(f, S) = f[x] + SumFunctionOnSet(f, S \ {x})
  <1> DEFINE F(s) == SumFunctionOnSet(f, s)
             T == {s \in SUBSET S : \A y \in s : F(s) = f[y] + F(s \ {y})}
  <1>1. ASSUME NEW s \in SUBSET S, \A t \in SUBSET s : t # s => t \in T
        PROVE  s \in T
    <2> SUFFICES ASSUME NEW y \in s PROVE F(s) = f[y] + F(s \ {y})
      OBVIOUS
    <2> DEFINE p == Pick(s)
    <2>1. IsFiniteSet(s) /\ p \in s
      BY FS_Subset, PickIsIn
    <2>2. F(s) = f[p] + F(s \ {p})
      BY <2>1, SumUnfolds
    <2>3. CASE y = p
      BY <2>2, <2>3
    <2>4. CASE y # p
      <3>1. s \ {p} \in T /\ s \ {y} \in T
        BY <1>1, <2>1
      <3>2. y \in s \ {p} /\ p \in s \ {y}
        BY <2>1, <2>4
      <3>3. F(s \ {p}) = f[y] + F((s \ {p}) \ {y}) /\ F(s \ {y}) = f[p] + F((s \ {y}) \ {p})
        BY <3>1, <3>2
      <3>4. (s \ {p}) \ {y} = (s \ {y}) \ {p}
        OBVIOUS
      <3>5. F((s \ {p}) \ {y}) \in Int
        BY <2>1, FS_Subset, SumInt
      <3>6. f[p] \in Int /\ f[y] \in Int
        BY <2>1
      <3>7. f[p] + (f[y] + F((s \ {p}) \ {y})) = f[y] + (f[p] + F((s \ {p}) \ {y}))
        <4> HIDE DEF F, p
        <4> QED
          BY <3>5, <3>6
      <3> HIDE DEF F, p
      <3> QED
        BY <2>2, <3>3, <3>4, <3>7, Zenon
    <2> QED
      BY <2>3, <2>4
  <1>2. SUBSET S \subseteq T
    <2> HIDE DEF T
    <2> QED
      BY <1>1, SubsetInduction
  <1> QED
    BY <1>2

\* One amount changes, and the sum by as much.
LEMMA SumChanges ==
  ASSUME NEW S, NEW f, NEW g, NEW x, IsFiniteSet(S), x \in S,
         \A y \in S : f[y] \in Int /\ g[y] \in Int,
         \A y \in S : y # x => f[y] = g[y]
  PROVE  SumFunctionOnSet(g, S) = SumFunctionOnSet(f, S) - f[x] + g[x]
  <1> DEFINE R == S \ {x}
  <1>1. IsFiniteSet(R)
    BY FS_Subset
  <1>2. SumFunctionOnSet(f, R) = SumFunctionOnSet(g, R) /\ SumFunctionOnSet(f, R) \in Int
    BY <1>1, SumOfSame, SumInt
  <1>3. /\ SumFunctionOnSet(f, S) = f[x] + SumFunctionOnSet(f, R)
        /\ SumFunctionOnSet(g, S) = g[x] + SumFunctionOnSet(g, R)
    BY SumWithout
  <1> QED
    BY <1>2, <1>3

\* A member joins.
LEMMA SumWith ==
  ASSUME NEW S, IsFiniteSet(S), NEW x, x \notin S, NEW f, \A y \in S \cup {x} : f[y] \in Int
  PROVE  SumFunctionOnSet(f, S \cup {x}) = SumFunctionOnSet(f, S) + f[x]
  <1>1. IsFiniteSet(S \cup {x}) /\ (S \cup {x}) \ {x} = S
    BY FS_AddElement
  <1>2. SumFunctionOnSet(f, S \cup {x}) = f[x] + SumFunctionOnSet(f, S)
    BY <1>1, SumWithout
  <1>3. SumFunctionOnSet(f, S) \in Int
    BY SumInt
  <1> QED
    BY <1>2, <1>3

\* No amount exceeds the sum of amounts that are not negative.
LEMMA SumIsAtLeast ==
  ASSUME NEW S, IsFiniteSet(S), NEW f, \A x \in S : f[x] \in Nat, NEW x \in S
  PROVE  f[x] <= SumFunctionOnSet(f, S)
  <1>1. SumFunctionOnSet(f, S) = f[x] + SumFunctionOnSet(f, S \ {x})
    BY SumWithout
  <1>2. SumFunctionOnSet(f, S \ {x}) \in Nat
    BY SumNat, FS_Subset
  <1> QED
    BY <1>1, <1>2

\* Smaller amounts have a smaller sum.
LEMMA SumAtMost ==
  ASSUME NEW S, IsFiniteSet(S), NEW f, NEW g,
         \A x \in S : f[x] \in Int /\ g[x] \in Int /\ f[x] <= g[x]
  PROVE  SumFunctionOnSet(f, S) <= SumFunctionOnSet(g, S)
  <1> DEFINE d == [x \in S |-> g[x] - f[x]]
  <1>1. \A x \in S : d[x] \in Nat /\ g[x] = f[x] + d[x]
    OBVIOUS
  <1>2. SumFunctionOnSet(d, S) \in Nat /\ SumFunctionOnSet(f, S) \in Int
    BY <1>1, SumNat, SumInt
  <1>3. SumFunctionOnSet(g, S) = SumFunctionOnSet(f, S) + SumFunctionOnSet(d, S)
    <2> HIDE DEF d
    <2> QED
      BY <1>1, SumOfBoth
  <1> QED
    BY <1>2, <1>3

\* The same for each of some members.
LEMMA SumOfSome ==
  ASSUME NEW S, IsFiniteSet(S), NEW W \in SUBSET S, NEW k \in Int
  PROVE  SumFunctionOnSet([x \in S |-> IF x \in W THEN k ELSE 0], S) = Cardinality(W) * k
  <1> DEFINE f(w) == [x \in S |-> IF x \in w THEN k ELSE 0]
             T == {w \in SUBSET S : SumFunctionOnSet(f(w), S) = Cardinality(w) * k}
  <1>1. {} \in T
    <2>1. \A x \in S : f({})[x] = 0
      OBVIOUS
    <2>2. SumFunctionOnSet(f({}), S) = 0
      <3> HIDE DEF f
      <3> QED
        BY <2>1, SumOfZeros
    <2> QED
      BY <2>2, FS_EmptySet
  <1>2. ASSUME NEW w \in SUBSET S, w # {}, w \ {Pick(w)} \in T
        PROVE  w \in T
    <2>1. PICK p \in w : p = Pick(w)
      BY <1>2, PickIsIn
    <2> DEFINE r == w \ {p}
    <2>2. IsFiniteSet(w) /\ Cardinality(w) \in Nat /\ Cardinality(r) = Cardinality(w) - 1
      BY FS_Subset, FS_CardinalityType, FS_RemoveElement
    <2>3. /\ \A x \in S : f(r)[x] \in Int /\ f(w)[x] \in Int
          /\ \A x \in S : x # p => f(r)[x] = f(w)[x]
          /\ p \in S /\ f(r)[p] = 0 /\ f(w)[p] = k
      OBVIOUS
    <2>4. SumFunctionOnSet(f(w), S) = SumFunctionOnSet(f(r), S) - f(r)[p] + f(w)[p]
      <3>1. PICK g, h : g = f(r) /\ h = f(w)
        OBVIOUS
      <3> HIDE DEF f, r
      <3>2. SumFunctionOnSet(h, S) = SumFunctionOnSet(g, S) - g[p] + h[p]
        BY <2>3, <3>1, SumChanges
      <3> QED
        BY <3>1, <3>2
    <2>5. SumFunctionOnSet(f(r), S) = Cardinality(r) * k
      BY <1>2, <2>1
    <2>6. (Cardinality(w) - 1) * k - 0 + k = Cardinality(w) * k
      BY <2>2
    <2> QED
      <3> HIDE DEF f, r
      <3> QED
        BY <2>2, <2>3, <2>4, <2>5, <2>6
  <1>3. SUBSET S \subseteq T
    <2> HIDE DEF T
    <2> QED
      BY <1>1, <1>2, PickInduction
  <1> QED
    BY <1>3

\* A common factor.
LEMMA SumTimes ==
  ASSUME NEW S, NEW f, NEW g, NEW k, IsFiniteSet(S), k \in Int,
         \A x \in S : f[x] \in Int /\ g[x] = f[x] * k
  PROVE  SumFunctionOnSet(g, S) = SumFunctionOnSet(f, S) * k
  <1> DEFINE F(s) == SumFunctionOnSet(f, s)
             G(s) == SumFunctionOnSet(g, s)
             T == {s \in SUBSET S : F(s) \in Int /\ G(s) = F(s) * k}
  <1>1. {} \in T
    <2>1. F({}) = 0 /\ G({}) = 0
      BY SumOfNone
    <2> HIDE DEF F, G
    <2> QED
      BY <2>1
  <1>2. ASSUME NEW s \in SUBSET S, s # {}, s \ {Pick(s)} \in T
        PROVE  s \in T
    <2>1. IsFiniteSet(s) /\ Pick(s) \in s
      BY <1>2, FS_Subset, PickIsIn
    <2>2. PICK a \in Int, b \in Int : /\ f[Pick(s)] = a /\ g[Pick(s)] = a * k
                                      /\ F(s \ {Pick(s)}) = b /\ G(s \ {Pick(s)}) = b * k
      BY <1>2, <2>1
    <2>3. F(s) = a + b /\ G(s) = a * k + b * k
      BY <1>2, <2>1, <2>2, SumUnfolds
    <2>4. a * k + b * k = (a + b) * k
      OBVIOUS
    <2> HIDE DEF F, G
    <2> QED
      BY <2>3, <2>4
  <1>3. SUBSET S \subseteq T
    <2> HIDE DEF T
    <2> QED
      BY <1>1, <1>2, PickInduction
  <1> QED
    BY <1>3

-----------------------------------------------------------------------------
(* Division rounded down.                                                  *)

\* A quotient leaves less than the divisor.
LEMMA DivFits ==
  ASSUME NEW x \in Nat, NEW p \in Nat \ {0}
  PROVE  /\ x \div p \in Nat
         /\ (x \div p) * p <= x
         /\ x <= (x \div p) * p + (p - 1)
  OBVIOUS

\* A larger number has no smaller quotient.
LEMMA DivGrows ==
  ASSUME NEW x \in Nat, NEW y \in Nat, x <= y, NEW p \in Nat \ {0}
  PROVE  x \div p <= y \div p
  <1>1. PICK a \in Nat, b \in Nat : /\ a = x \div p /\ b = y \div p
                                   /\ a * p <= x /\ y <= b * p + (p - 1)
    BY DivFits
  <1>2. ASSUME b < a PROVE FALSE
    <2>1. (b + 1) * p <= a * p
      BY <1>2
    <2>2. (b + 1) * p = b * p + p /\ b * p \in Nat
      OBVIOUS
    <2> QED
      BY <1>1, <2>1, <2>2
  <1> QED
    BY <1>1, <1>2
=============================================================================
