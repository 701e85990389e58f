------------------------------ MODULE SumTheorems ------------------------------
(***************************************************************************)
(* What the ledgers' proofs need to know of a sum over a finite set, for   *)
(* every function and every set: SumFunctionOnSet of the Functions module  *)
(* does not depend on the order in which the terms are added, it is        *)
(* natural when the terms are, and one term can be taken out or changed.   *)
(* A sum is a function defined by recursion on a set, so each fact is      *)
(* proved by induction on that set: SubsetInduction, with the set of the   *)
(* subsets for which the fact holds in the place of a predicate.           *)
(***************************************************************************)
EXTENDS Functions, FiniteSetTheorems, TLAPS

\* Induction on the subsets of a finite set: a set `good` of subsets that contains every
\* subset whose strict subsets it contains, contains them all.
LEMMA SubsetInduction ==
  ASSUME NEW S, IsFiniteSet(S), NEW good,
         \A T \in SUBSET S : (\A U \in SUBSET T : U # T => U \in good) => T \in good
  PROVE  SUBSET S \subseteq good
<1> DEFINE bad == {T \in SUBSET S : T \notin good}
<1>1. SUFFICES ASSUME bad # {} PROVE FALSE
  OBVIOUS
<1>2. IsWellFoundedOn(StrictSubsetOrdering(S), SUBSET S)
  BY FS_StrictSubsetOrderingWellFounded, FS_FiniteSubsetsOfFinite
<1>3. PICK T \in bad : \A U \in bad : ~(<<U, T>> \in StrictSubsetOrdering(S))
  <2> HIDE DEF bad
  <2>1. bad \subseteq SUBSET S
    BY DEF bad
  <2> QED  BY <1>1, <1>2, <2>1, WFMin
<1>4. ASSUME NEW U \in SUBSET T, U # T PROVE U \in good
  <2>1. U \in SUBSET S /\ T \in SUBSET S
    OBVIOUS
  <2>2. <<U, T>> \in StrictSubsetOrdering(S)
    BY <1>4, <2>1 DEF StrictSubsetOrdering
  <2>3. U \notin bad
    BY <1>3, <2>2
  <2> QED  BY <2>1, <2>3
<1>5. T \in good
  BY <1>4
<1> QED  BY <1>5

-----------------------------------------------------------------------------

\* The element a sum takes out of a set first.
First(T) == CHOOSE x \in T : TRUE

\* g[T] is the sum of f over T, for every T \subseteq S: the recursion Folds unfolds.
Sums(f, S, g) ==
  g = [T \in SUBSET S |-> IF T = {} THEN 0 ELSE f[First(T)] + g[T \ {First(T)}]]

LEMMA FirstIn == ASSUME NEW T, T # {} PROVE First(T) \in T
BY DEF First

\* Two such functions agree on the sets both are defined on.
LEMMA SumsAgree ==
  ASSUME NEW f, NEW S, IsFiniteSet(S), NEW R, NEW g, NEW h,
         Sums(f, S, g), Sums(f, R, h), S \subseteq R
  PROVE  \A T \in SUBSET S : g[T] = h[T]
<1> DEFINE good == {T \in SUBSET S : g[T] = h[T]}
<1>1. ASSUME NEW T \in SUBSET S, \A U \in SUBSET T : U # T => U \in good
      PROVE  T \in good
  <2>1. CASE T = {}
    BY <2>1 DEF Sums
  <2>2. CASE T # {}
    <3>1. T \ {First(T)} \in good
      BY <1>1, <2>2, FirstIn
    <3>2. T \in SUBSET R
      OBVIOUS
    <3>3. g[T] = f[First(T)] + g[T \ {First(T)}]
      BY <2>2 DEF Sums
    <3>4. h[T] = f[First(T)] + h[T \ {First(T)}]
      BY <2>2, <3>2 DEF Sums
    <3> QED  BY <3>1, <3>3, <3>4
  <2> QED  BY <2>1, <2>2
<1> HIDE DEF good
<1>2. SUBSET S \subseteq good
  BY <1>1, SubsetInduction
<1> QED  BY <1>2 DEF good

LEMMA SumsExist ==
  ASSUME NEW f, NEW S, IsFiniteSet(S)
  PROVE  \E g : Sums(f, S, g)
<1> DEFINE good == {T \in SUBSET S : \E g : Sums(f, T, g)}
           of(T) == CHOOSE g : Sums(f, T, g)
<1>1. ASSUME NEW T \in SUBSET S, \A U \in SUBSET T : U # T => U \in good
      PROVE  T \in good
  <2> DEFINE sum(U) == IF U = {} THEN 0 ELSE f[First(U)] + of(U \ {First(U)})[U \ {First(U)}]
             g == [U \in SUBSET T |-> sum(U)]
  <2>1. ASSUME NEW U \in SUBSET T, U # T PROVE Sums(f, U, of(U))
    BY <1>1, <2>1
  <2>2. ASSUME NEW U \in SUBSET T, U # T PROVE of(U)[U] = sum(U)
    <3>1. CASE U = {}
      <4>1. Sums(f, U, of(U)) /\ U \in SUBSET U
        BY <2>1, <2>2
      <4> HIDE DEF of
      <4> QED  BY <3>1, <4>1 DEF Sums
    <3>2. CASE U # {}
      <4> DEFINE V == U \ {First(U)}
      <4>1. V \in SUBSET T /\ V # T /\ V \subseteq U
        BY <2>2, <3>2, FirstIn
      <4>2. IsFiniteSet(V)
        BY FS_Subset
      <4>3. Sums(f, V, of(V)) /\ Sums(f, U, of(U))
        BY <2>1, <2>2, <4>1
      <4>4. of(V)[V] = of(U)[V]
        <5> HIDE DEF of, V
        <5> QED  BY <4>1, <4>2, <4>3, SumsAgree
      <4>5. of(U)[U] = f[First(U)] + of(U)[V]
        <5> HIDE DEF of
        <5> QED  BY <3>2, <4>3 DEF Sums
      <4> QED  BY <3>2, <4>4, <4>5
    <3> QED  BY <3>1, <3>2
  <2>3. Sums(f, T, g)
    <3>1. ASSUME NEW U \in SUBSET T
          PROVE  g[U] = IF U = {} THEN 0 ELSE f[First(U)] + g[U \ {First(U)}]
      <4>1. CASE U = {}
        BY <4>1
      <4>2. CASE U # {}
        <5> DEFINE V == U \ {First(U)}
        <5>1. V \in SUBSET T /\ V # T
          BY <4>2, FirstIn
        <5>2. g[V] = of(V)[V]
          <6> HIDE DEF of, sum
          <6> QED  BY <2>2, <5>1
        <5> QED  BY <4>2, <5>2
      <4> QED  BY <4>1, <4>2
    <3> HIDE DEF sum
    <3>2. g = [U \in SUBSET T |-> g[U]]
      OBVIOUS
    <3> HIDE DEF g
    <3>3. [U \in SUBSET T |-> g[U]]
            = [U \in SUBSET T |-> IF U = {} THEN 0 ELSE f[First(U)] + g[U \ {First(U)}]]
      BY <3>1
    <3> QED  BY <3>2, <3>3 DEF Sums
  <2> QED  BY <2>3
<1>2. SUBSET S \subseteq good
  <2> HIDE DEF good
  <2> QED  BY <1>1, SubsetInduction
<1> QED  BY <1>2

\* The sum is the value of such a function.
LEMMA SumValue ==
  ASSUME NEW f, NEW S, IsFiniteSet(S)
  PROVE  \E g : Sums(f, S, g) /\ SumFunctionOnSet(f, S) = g[S]
<1> DEFINE sums == CHOOSE g : Sums(f, S, g)
<1>1. SumFunctionOnSet(f, S) = sums[S]
  BY DEF SumFunctionOnSet, FoldFunctionOnSet, MapThenFoldSet, Sums, First
<1>2. Sums(f, S, sums)
  BY SumsExist
<1> QED  BY <1>1, <1>2

-----------------------------------------------------------------------------

LEMMA SumEmpty == ASSUME NEW f PROVE SumFunctionOnSet(f, {}) = 0
<1>1. PICK g : Sums(f, {}, g) /\ SumFunctionOnSet(f, {}) = g[{}]
  BY SumValue, FS_EmptySet
<1> QED  BY <1>1 DEF Sums

LEMMA SumFirst ==
  ASSUME NEW f, NEW S, IsFiniteSet(S), S # {}
  PROVE  SumFunctionOnSet(f, S) = f[First(S)] + SumFunctionOnSet(f, S \ {First(S)})
<1> DEFINE R == S \ {First(S)}
<1>1. PICK g : Sums(f, S, g) /\ SumFunctionOnSet(f, S) = g[S]
  BY SumValue
<1>2. IsFiniteSet(R)
  BY FS_Subset
<1>3. PICK h : Sums(f, R, h) /\ SumFunctionOnSet(f, R) = h[R]
  BY <1>2, SumValue
<1>4. h[R] = g[R]
  <2> HIDE DEF R
  <2>1. R \subseteq S
    BY DEF R
  <2> QED  BY <1>1, <1>2, <1>3, <2>1, SumsAgree
<1>5. g[S] = f[First(S)] + g[R]
  BY <1>1 DEF Sums
<1> QED  BY <1>1, <1>3, <1>4, <1>5

\* A sum of integers is an integer.
LEMMA SumInt ==
  ASSUME NEW f, NEW S, IsFiniteSet(S), \A x \in S : f[x] \in Int
  PROVE  \A T \in SUBSET S : SumFunctionOnSet(f, T) \in Int
<1> DEFINE good == {T \in SUBSET S : SumFunctionOnSet(f, T) \in Int}
<1>1. ASSUME NEW T \in SUBSET S, \A U \in SUBSET T : U # T => U \in good
      PROVE  T \in good
  <2>1. CASE T = {}
    BY <2>1, SumEmpty
  <2>2. CASE T # {}
    <3>1. SumFunctionOnSet(f, T) = f[First(T)] + SumFunctionOnSet(f, T \ {First(T)})
      BY <2>2, SumFirst, FS_Subset
    <3>2. T \ {First(T)} \in good /\ First(T) \in S
      BY <1>1, <2>2, FirstIn
    <3> QED  BY <3>1, <3>2
  <2> QED  BY <2>1, <2>2
<1> HIDE DEF good
<1>2. SUBSET S \subseteq good
  BY <1>1, SubsetInduction
<1> QED  BY <1>2 DEF good

\* A sum of natural numbers is a natural number.
LEMMA SumNat ==
  ASSUME NEW f, NEW S, IsFiniteSet(S), \A x \in S : f[x] \in Nat
  PROVE  \A T \in SUBSET S : SumFunctionOnSet(f, T) \in Nat
<1> DEFINE good == {T \in SUBSET S : SumFunctionOnSet(f, T) \in Nat}
<1>1. ASSUME NEW T \in SUBSET S, \A U \in SUBSET T : U # T => U \in good
      PROVE  T \in good
  <2>1. CASE T = {}
    BY <2>1, SumEmpty
  <2>2. CASE T # {}
    <3>1. SumFunctionOnSet(f, T) = f[First(T)] + SumFunctionOnSet(f, T \ {First(T)})
      BY <2>2, SumFirst, FS_Subset
    <3>2. T \ {First(T)} \in good /\ First(T) \in S
      BY <1>1, <2>2, FirstIn
    <3> QED  BY <3>1, <3>2
  <2> QED  BY <2>1, <2>2
<1> HIDE DEF good
<1>2. SUBSET S \subseteq good
  BY <1>1, SubsetInduction
<1> QED  BY <1>2 DEF good

\* Any term can be taken out of a sum first.
LEMMA SumRemove ==
  ASSUME NEW f, NEW S, IsFiniteSet(S), \A x \in S : f[x] \in Int, NEW y \in S
  PROVE  SumFunctionOnSet(f, S) = f[y] + SumFunctionOnSet(f, S \ {y})
<1> DEFINE splits(T) == \A x \in T : SumFunctionOnSet(f, T) = f[x] + SumFunctionOnSet(f, T \ {x})
           good == {T \in SUBSET S : splits(T)}
<1>1. ASSUME NEW T \in SUBSET S, \A U \in SUBSET T : U # T => U \in good
      PROVE  T \in good
  <2>1. ASSUME NEW x \in T
        PROVE  SumFunctionOnSet(f, T) = f[x] + SumFunctionOnSet(f, T \ {x})
    <3> DEFINE a == First(T)
               rest == T \ {a, x}
    <3>1. a \in T /\ IsFiniteSet(T)
      BY FirstIn, FS_Subset
    <3>2. SumFunctionOnSet(f, T) = f[a] + SumFunctionOnSet(f, T \ {a})
      BY <3>1, SumFirst
    <3>3. CASE x = a
      BY <3>2, <3>3
    <3>4. CASE x # a
      <4>1. (T \ {a}) \ {x} = rest /\ (T \ {x}) \ {a} = rest
        OBVIOUS
      <4>2. SumFunctionOnSet(f, T \ {a}) = f[x] + SumFunctionOnSet(f, rest)
        <5>1. T \ {a} \in good /\ x \in T \ {a}
          BY <1>1, <3>1, <3>4
        <5> QED  BY <4>1, <5>1
      <4>3. SumFunctionOnSet(f, T \ {x}) = f[a] + SumFunctionOnSet(f, rest)
        <5>1. T \ {x} \in good /\ a \in T \ {x}
          BY <1>1, <3>1, <3>4
        <5> QED  BY <4>1, <5>1
      <4>4. f[a] \in Int /\ f[x] \in Int /\ SumFunctionOnSet(f, rest) \in Int
        BY <3>1, SumInt
      <4> HIDE DEF a, rest
      <4> QED  BY <3>2, <4>2, <4>3, <4>4
    <3> QED  BY <3>3, <3>4
  <2> QED  BY <2>1
<1>2. SUBSET S \subseteq good
  <2> HIDE DEF good
  <2> QED  BY <1>1, SubsetInduction
<1> QED  BY <1>2

\* Functions that agree on a set have the same sum over it.
LEMMA SumSame ==
  ASSUME NEW f, NEW g, NEW S, IsFiniteSet(S), \A x \in S : f[x] = g[x]
  PROVE  SumFunctionOnSet(f, S) = SumFunctionOnSet(g, S)
<1> DEFINE good == {T \in SUBSET S : SumFunctionOnSet(f, T) = SumFunctionOnSet(g, T)}
<1>1. ASSUME NEW T \in SUBSET S, \A U \in SUBSET T : U # T => U \in good
      PROVE  T \in good
  <2>1. CASE T = {}
    BY <2>1, SumEmpty
  <2>2. CASE T # {}
    <3>1. /\ SumFunctionOnSet(f, T) = f[First(T)] + SumFunctionOnSet(f, T \ {First(T)})
          /\ SumFunctionOnSet(g, T) = g[First(T)] + SumFunctionOnSet(g, T \ {First(T)})
      BY <2>2, SumFirst, FS_Subset
    <3>2. T \ {First(T)} \in good /\ First(T) \in S
      BY <1>1, <2>2, FirstIn
    <3> QED  BY <3>1, <3>2
  <2> QED  BY <2>1, <2>2
<1> HIDE DEF good
<1>2. SUBSET S \subseteq good
  BY <1>1, SubsetInduction
<1> QED  BY <1>2 DEF good

\* A sum of zeros is zero.
LEMMA SumZero ==
  ASSUME NEW f, NEW S, IsFiniteSet(S), \A x \in S : f[x] = 0
  PROVE  SumFunctionOnSet(f, S) = 0
<1> DEFINE good == {T \in SUBSET S : SumFunctionOnSet(f, T) = 0}
<1>1. ASSUME NEW T \in SUBSET S, \A U \in SUBSET T : U # T => U \in good
      PROVE  T \in good
  <2>1. CASE T = {}
    BY <2>1, SumEmpty
  <2>2. CASE T # {}
    <3>1. SumFunctionOnSet(f, T) = f[First(T)] + SumFunctionOnSet(f, T \ {First(T)})
      BY <2>2, SumFirst, FS_Subset
    <3>2. T \ {First(T)} \in good /\ First(T) \in S
      BY <1>1, <2>2, FirstIn
    <3> QED  BY <3>1, <3>2
  <2> QED  BY <2>1, <2>2
<1> HIDE DEF good
<1>2. SUBSET S \subseteq good
  BY <1>1, SubsetInduction
<1> QED  BY <1>2 DEF good

\* One term changed: the sum changes by as much.
THEOREM SumChange ==
  ASSUME NEW f, NEW g, NEW S, IsFiniteSet(S), NEW y \in S,
         \A x \in S : f[x] \in Int /\ g[x] \in Int,
         \A x \in S \ {y} : f[x] = g[x]
  PROVE  SumFunctionOnSet(g, S) = SumFunctionOnSet(f, S) - f[y] + g[y]
<1>1. /\ SumFunctionOnSet(f, S) = f[y] + SumFunctionOnSet(f, S \ {y})
      /\ SumFunctionOnSet(g, S) = g[y] + SumFunctionOnSet(g, S \ {y})
  BY SumRemove
<1>2. SumFunctionOnSet(f, S \ {y}) = SumFunctionOnSet(g, S \ {y})
  BY SumSame, FS_Subset
<1>3. SumFunctionOnSet(f, S \ {y}) \in Int
  BY SumInt
<1> QED  BY <1>1, <1>2, <1>3

\* No term of a sum of natural numbers exceeds the sum.
THEOREM TermAtMostSum ==
  ASSUME NEW f, NEW S, IsFiniteSet(S), \A x \in S : f[x] \in Nat, NEW y \in S
  PROVE  f[y] <= SumFunctionOnSet(f, S)
<1>1. SumFunctionOnSet(f, S) = f[y] + SumFunctionOnSet(f, S \ {y})
  BY SumRemove
<1>2. SumFunctionOnSet(f, S \ {y}) \in Nat
  BY SumNat
<1> QED  BY <1>1, <1>2

\* Of two sums of natural numbers, the one with the smaller terms is the smaller.
LEMMA SumMonotone ==
  ASSUME NEW f, NEW g, NEW S, IsFiniteSet(S),
         \A x \in S : f[x] \in Nat /\ g[x] \in Nat /\ f[x] <= g[x]
  PROVE  SumFunctionOnSet(f, S) <= SumFunctionOnSet(g, S)
<1> DEFINE good == {T \in SUBSET S : SumFunctionOnSet(f, T) <= SumFunctionOnSet(g, T)}
<1>1. ASSUME NEW T \in SUBSET S, \A U \in SUBSET T : U # T => U \in good
      PROVE  T \in good
  <2>1. CASE T = {}
    BY <2>1, SumEmpty
  <2>2. CASE T # {}
    <3>1. /\ SumFunctionOnSet(f, T) = f[First(T)] + SumFunctionOnSet(f, T \ {First(T)})
          /\ SumFunctionOnSet(g, T) = g[First(T)] + SumFunctionOnSet(g, T \ {First(T)})
      BY <2>2, SumFirst, FS_Subset
    <3>2. T \ {First(T)} \in good /\ First(T) \in S
      BY <1>1, <2>2, FirstIn
    <3>3. /\ SumFunctionOnSet(f, T \ {First(T)}) \in Nat
          /\ SumFunctionOnSet(g, T \ {First(T)}) \in Nat
      BY SumNat
    <3> QED  BY <3>1, <3>2, <3>3
  <2> QED  BY <2>1, <2>2
<1> HIDE DEF good
<1>2. SUBSET S \subseteq good
  BY <1>1, SubsetInduction
<1> QED  BY <1>2 DEF good
================================================================================
