----------------------------- MODULE SumLemmas -----------------------------
(***************************************************************************)
(* The sum of a function over a finite set, as SumFunctionOnSet defines it *)
(* by recursion on the set: what it is, and how it moves when one value of *)
(* the function does.  The ledgers of the models are such sums.            *)
(***************************************************************************)
EXTENDS Integers, FiniteSets, Functions, FiniteSetTheorems, WellFoundedInduction, TLAPS

-----------------------------------------------------------------------------
(***************************************************************************)
(* Induction, as facts about sets: a set that holds what starts an         *)
(* induction and is closed under its step holds everything.                *)
(***************************************************************************)

\* A set with 0 and the successor of each of its numbers holds all of them.
LEMMA NatSetInduction ==
  ASSUME NEW X, 0 \in X, \A n \in Nat : n \in X => n + 1 \in X
  PROVE  Nat \subseteq X
<1> DEFINE R == OpToRel(<, Nat)
           T == Nat \ X
<1> SUFFICES ASSUME T # {} PROVE FALSE
  OBVIOUS
<1>1. IsWellFoundedOn(R, Nat) /\ T \subseteq Nat
  BY NatLessThanWellFounded
<1>2. PICK n \in T : \A m \in T : ~ (<<m, n>> \in R)
  <2> HIDE DEF R, T
  <2> QED
    BY <1>1, WFMin
<1>3. \A m \in Nat : m < n => m \in X
  BY <1>2 DEF OpToRel
<1>4. n \in Nat /\ n \notin X
  BY <1>2
<1>5. n # 0 /\ n - 1 \in Nat
  BY <1>4
<1>6. n - 1 \in X
  BY <1>3, <1>5
<1> QED
  BY <1>4, <1>5, <1>6

\* A set with the empty set, closed under adding an element of S to a subset of
\* S, holds every subset of S.
LEMMA SubsetInduction ==
  ASSUME NEW S, IsFiniteSet(S), NEW X, {} \in X,
         \A T \in SUBSET S : \A x \in S \ T : T \in X => T \cup {x} \in X
  PROVE  SUBSET S \subseteq X
<1> DEFINE N == {n \in Nat : \A T \in SUBSET S : Cardinality(T) = n => T \in X}
<1>1. \A T \in SUBSET S : IsFiniteSet(T) /\ Cardinality(T) \in Nat
  BY FS_Subset, FS_CardinalityType
<1>2. 0 \in N
  BY <1>1, FS_EmptySet
<1>3. \A n \in Nat : n \in N => n + 1 \in N
  <2> SUFFICES ASSUME NEW n \in Nat, n \in N, NEW T \in SUBSET S, Cardinality(T) = n + 1
               PROVE  T \in X
    OBVIOUS
  <2>1. PICK x \in T : TRUE
    BY <1>1, FS_EmptySet
  <2>2. T \ {x} \in X
    BY <1>1, FS_RemoveElement
  <2>3. (T \ {x}) \cup {x} \in X
    BY <2>2
  <2> QED
    BY <2>1, <2>3
<1>4. Nat \subseteq N
  <2> HIDE DEF N
  <2> QED
    BY <1>2, <1>3, NatSetInduction
<1> QED
  BY <1>4, <1>1

-----------------------------------------------------------------------------
(***************************************************************************)
(* The recursion of a sum has a solution.                                  *)
(***************************************************************************)

\* The element the recursion takes off a set.
Pick(T) == CHOOSE x \in T : TRUE

\* One unfolding of the recursion, from the sums h of smaller sets.
Unfold(f, S, h) ==
  [T \in SUBSET S |-> IF T = {} THEN 0 ELSE f[Pick(T)] + h[T \ {Pick(T)}]]

\* The sums of f over the subsets of S.
Sums(f, S) == CHOOSE h : h = Unfold(f, S, h)

\* SumFunctionOnSet is the last of them.
LEMMA SumIsLast == ASSUME NEW f, NEW S PROVE SumFunctionOnSet(f, S) = Sums(f, S)[S]
BY DEF SumFunctionOnSet, FoldFunctionOnSet, MapThenFoldSet, Sums, Unfold, Pick

\* What is left of a set without the element taken off it.
LEMMA PickShrinks ==
  ASSUME NEW S, IsFiniteSet(S), NEW T \in SUBSET S, T # {}
  PROVE  /\ Pick(T) \in T /\ T \ {Pick(T)} \in SUBSET S
         /\ Cardinality(T) \in Nat
         /\ Cardinality(T \ {Pick(T)}) = Cardinality(T) - 1
BY FS_Subset, FS_CardinalityType, FS_RemoveElement DEF Pick

\* The sums satisfy the recursion.  n unfoldings solve it on the sets of at most n
\* elements, so as many as S has solve it on all of its subsets.
LEMMA SumsExist ==
  ASSUME NEW S, IsFiniteSet(S), NEW f
  PROVE  Sums(f, S) = Unfold(f, S, Sums(f, S))
<1> DEFINE Upto(n, h) == \A T \in SUBSET S : Cardinality(T) <= n => h[T] = Unfold(f, S, h)[T]
           N == {n \in Nat : \E h : h = [T \in SUBSET S |-> h[T]] /\ Upto(n, h)}
<1>1. \A T \in SUBSET S : IsFiniteSet(T) /\ Cardinality(T) \in Nat
  BY FS_Subset, FS_CardinalityType
<1>2. 0 \in N
  <2> DEFINE h == [T \in SUBSET S |-> 0]
  <2>1. h = [T \in SUBSET S |-> h[T]]
    OBVIOUS
  <2>2. Upto(0, h)
    BY <1>1, FS_EmptySet DEF Unfold
  <2> QED
    BY <2>1, <2>2
<1>3. \A n \in Nat : n \in N => n + 1 \in N
  <2> SUFFICES ASSUME NEW n \in Nat, NEW h, h = [T \in SUBSET S |-> h[T]], Upto(n, h)
               PROVE  n + 1 \in N
    OBVIOUS
  <2> DEFINE k == Unfold(f, S, h)
  <2>1. k = [T \in SUBSET S |-> k[T]]
    BY DEF Unfold
  <2>2. Upto(n + 1, k)
    <3> SUFFICES ASSUME NEW T \in SUBSET S, Cardinality(T) <= n + 1
                 PROVE  k[T] = Unfold(f, S, k)[T]
      OBVIOUS
    <3>1. CASE T = {}
      BY <3>1 DEF Unfold
    <3>2. CASE T # {}
      <4>1. T \ {Pick(T)} \in SUBSET S /\ Cardinality(T \ {Pick(T)}) <= n
        BY <3>2, PickShrinks
      <4>2. h[T \ {Pick(T)}] = k[T \ {Pick(T)}]
        BY <4>1
      <4> QED
        BY <3>2, <4>1, <4>2 DEF Unfold
    <3> QED
      BY <3>1, <3>2
  <2> HIDE DEF k, Upto
  <2> SUFFICES \E g : g = [T \in SUBSET S |-> g[T]] /\ Upto(n + 1, g)
    OBVIOUS
  <2> WITNESS k
  <2> QED
    BY <2>1, <2>2
<1>4. Nat \subseteq N
  <2> HIDE DEF N
  <2> QED
    BY <1>2, <1>3, NatSetInduction
<1>5. PICK h : h = [T \in SUBSET S |-> h[T]] /\ Upto(Cardinality(S), h)
  BY <1>1, <1>4
<1>6. \A T \in SUBSET S : h[T] = Unfold(f, S, h)[T]
  BY <1>5, FS_Subset
<1>7. h = Unfold(f, S, h)
  BY <1>5, <1>6 DEF Unfold
<1> QED
  BY <1>7 DEF Sums

\* The recursion, set by set.
LEMMA SumsUnfold ==
  ASSUME NEW S, IsFiniteSet(S), NEW f
  PROVE  /\ Sums(f, S)[{}] = 0
         /\ \A T \in SUBSET S :
              T # {} => Sums(f, S)[T] = f[Pick(T)] + Sums(f, S)[T \ {Pick(T)}]
<1> DEFINE h == Sums(f, S)
<1>1. h = Unfold(f, S, h)
  BY SumsExist
<1> HIDE DEF h
<1>2. h[{}] = 0 /\ \A T \in SUBSET S : T # {} => h[T] = f[Pick(T)] + h[T \ {Pick(T)}]
  BY <1>1 DEF Unfold
<1> QED
  BY <1>2 DEF h

-----------------------------------------------------------------------------
(***************************************************************************)
(* The order in which the recursion takes the elements does not matter.    *)
(***************************************************************************)

\* Sums of integers are integers, and each is what any one of its elements adds
\* to the sum of the others.
LEMMA SumsAnyOrder ==
  ASSUME NEW S, IsFiniteSet(S), NEW f, \A x \in S : f[x] \in Int
  PROVE  \A T \in SUBSET S :
           /\ Sums(f, S)[T] \in Int
           /\ \A x \in T : Sums(f, S)[T] = f[x] + Sums(f, S)[T \ {x}]
<1> DEFINE h == Sums(f, S)
           Right(T) == h[T] \in Int /\ \A x \in T : h[T] = f[x] + h[T \ {x}]
           N == {n \in Nat : \A T \in SUBSET S : Cardinality(T) <= n => Right(T)}
<1>1. h[{}] = 0 /\ \A T \in SUBSET S : T # {} => h[T] = f[Pick(T)] + h[T \ {Pick(T)}]
  BY SumsUnfold
<1>2. \A T \in SUBSET S : IsFiniteSet(T) /\ Cardinality(T) \in Nat
  BY FS_Subset, FS_CardinalityType
<1> HIDE DEF h
<1>3. Right({})
  BY <1>1
<1>4. 0 \in N
  <2>1. \A T \in SUBSET S : Cardinality(T) <= 0 => T = {}
    BY <1>2, FS_EmptySet
  <2> HIDE DEF Right
  <2> QED
    BY <1>3, <2>1
<1>5. \A n \in Nat : n \in N => n + 1 \in N
  <2> SUFFICES ASSUME NEW n \in Nat, n \in N, NEW T \in SUBSET S, Cardinality(T) <= n + 1
               PROVE  Right(T)
    OBVIOUS
  <2> SUFFICES ASSUME T # {} PROVE Right(T)
    BY <1>3
  <2> DEFINE y == Pick(T)
             U == T \ {y}
  <2>1. y \in T /\ U \in SUBSET S /\ Cardinality(U) <= n
    BY PickShrinks
  <2>2. h[T] = f[y] + h[U] /\ Right(U)
    BY <1>1, <2>1
  <2>3. h[T] \in Int
    BY <2>1, <2>2
  <2>4. ASSUME NEW x \in T, x # y
        PROVE  h[T] = f[x] + h[T \ {x}]
    <3>1. T \ {x} \in SUBSET S /\ Cardinality(T \ {x}) <= n
      BY <1>2, FS_RemoveElement
    <3>2. Right(T \ {x})
      BY <3>1
    <3>3. h[T \ {x}] = f[y] + h[(T \ {x}) \ {y}]
      BY <2>1, <2>4, <3>2
    <3>4. h[U] = f[x] + h[U \ {x}]
      BY <2>2, <2>4
    <3>5. (T \ {x}) \ {y} = U \ {x}
      OBVIOUS
    <3>6. U \ {x} \in SUBSET S /\ Cardinality(U \ {x}) <= n
      <4>1. x \in U /\ IsFiniteSet(U) /\ Cardinality(U) \in Nat
        BY <1>2, <2>1, <2>4
      <4>2. Cardinality(U \ {x}) = Cardinality(U) - 1
        BY <4>1, FS_RemoveElement
      <4> QED
        BY <2>1, <4>1, <4>2
    <3>7. h[U \ {x}] \in Int
      BY <3>6
    <3>8. h[T] = f[y] + (f[x] + h[U \ {x}]) /\ h[T \ {x}] = f[y] + h[U \ {x}]
      BY <2>2, <3>3, <3>4, <3>5
    <3>9. f[x] \in Int /\ f[y] \in Int
      BY <2>1
    <3> HIDE DEF U, y
    <3> QED
      BY <3>7, <3>8, <3>9
  <2> HIDE DEF y
  <2> QED
    BY <2>2, <2>3, <2>4
<1>6. Nat \subseteq N
  <2> HIDE DEF N
  <2> QED
    BY <1>4, <1>5, NatSetInduction
<1>7. \A T \in SUBSET S : Right(T)
  BY <1>2, <1>6
<1> QED
  BY <1>7 DEF h

\* What a set contributes does not depend on the larger set it is taken from, nor
\* on the values of the function elsewhere.
LEMMA SumsAgree ==
  ASSUME NEW S, IsFiniteSet(S), NEW R \in SUBSET S,
         NEW f, \A x \in S : f[x] \in Int,
         NEW g, \A x \in R : g[x] = f[x]
  PROVE  \A T \in SUBSET R : Sums(g, R)[T] = Sums(f, S)[T]
<1> DEFINE h == Sums(f, S)
           k == Sums(g, R)
           X == {T \in SUBSET R : k[T] = h[T]}
<1>1. IsFiniteSet(R) /\ \A x \in R : g[x] \in Int
  BY FS_Subset
<1>2. h[{}] = 0 /\ k[{}] = 0
  BY <1>1, SumsUnfold
<1>3. \A T \in SUBSET S : h[T] \in Int /\ \A x \in T : h[T] = f[x] + h[T \ {x}]
  BY SumsAnyOrder
<1>4. \A T \in SUBSET R : k[T] \in Int /\ \A x \in T : k[T] = g[x] + k[T \ {x}]
  BY <1>1, SumsAnyOrder
<1> HIDE DEF h, k
<1>5. \A T \in SUBSET R : \A x \in R \ T : T \in X => T \cup {x} \in X
  <2> SUFFICES ASSUME NEW T \in SUBSET R, NEW x \in R \ T, k[T] = h[T]
               PROVE  k[T \cup {x}] = h[T \cup {x}]
    OBVIOUS
  <2>1. (T \cup {x}) \ {x} = T
    OBVIOUS
  <2>2. h[T \cup {x}] = f[x] + h[T]
    BY <1>3, <2>1
  <2>3. k[T \cup {x}] = g[x] + k[T]
    BY <1>4, <2>1
  <2> QED
    BY <2>2, <2>3
<1>6. {} \in X
  BY <1>2
<1>7. SUBSET R \subseteq X
  <2> HIDE DEF X
  <2> QED
    BY <1>1, <1>5, <1>6, SubsetInduction
<1> QED
  BY <1>7 DEF h, k

-----------------------------------------------------------------------------
(***************************************************************************)
(* What the models need to know of a sum.                                  *)
(***************************************************************************)

\* It is an integer.
LEMMA SumIsInt ==
  ASSUME NEW S, IsFiniteSet(S), NEW f, \A x \in S : f[x] \in Int
  PROVE  SumFunctionOnSet(f, S) \in Int
BY SumIsLast, SumsAnyOrder

\* Nothing sums up to zero.
LEMMA SumOfNone == ASSUME NEW f PROVE SumFunctionOnSet(f, {}) = 0
BY SumIsLast, SumsUnfold, FS_EmptySet

\* It depends on the values over the set alone.
LEMMA SumOfSame ==
  ASSUME NEW S, IsFiniteSet(S), NEW f, NEW g,
         \A x \in S : f[x] \in Int /\ g[x] = f[x]
  PROVE  SumFunctionOnSet(g, S) = SumFunctionOnSet(f, S)
<1>1. S \in SUBSET S /\ \A x \in S : f[x] \in Int
  OBVIOUS
<1>2. \A T \in SUBSET S : Sums(g, S)[T] = Sums(f, S)[T]
  BY <1>1, SumsAgree
<1> QED
  BY <1>1, <1>2, SumIsLast

\* One element can be counted apart from the rest.
LEMMA SumTakesOut ==
  ASSUME NEW S, IsFiniteSet(S), NEW f, \A x \in S : f[x] \in Int, NEW x \in S
  PROVE  SumFunctionOnSet(f, S) = f[x] + SumFunctionOnSet(f, S \ {x})
<1>1. Sums(f, S)[S] = f[x] + Sums(f, S)[S \ {x}]
  BY SumsAnyOrder
<1>2. Sums(f, S \ {x})[S \ {x}] = Sums(f, S)[S \ {x}]
  BY SumsAgree
<1> QED
  BY <1>1, <1>2, SumIsLast

\* When one value moves, the sum moves with it.
LEMMA SumMovesWithOne ==
  ASSUME NEW S, IsFiniteSet(S), NEW f, \A x \in S : f[x] \in Int, NEW x \in S,
         NEW g, g[x] \in Int, \A y \in S \ {x} : g[y] = f[y]
  PROVE  SumFunctionOnSet(g, S) = SumFunctionOnSet(f, S) + g[x] - f[x]
<1>1. IsFiniteSet(S \ {x})
  BY FS_RemoveElement
<1>2. SumFunctionOnSet(g, S \ {x}) = SumFunctionOnSet(f, S \ {x})
  BY <1>1, SumOfSame
<1>3. SumFunctionOnSet(f, S \ {x}) \in Int
  BY <1>1, SumIsInt
<1>4. SumFunctionOnSet(f, S) = f[x] + SumFunctionOnSet(f, S \ {x})
  BY SumTakesOut
<1>5. SumFunctionOnSet(g, S) = g[x] + SumFunctionOnSet(g, S \ {x})
  BY SumTakesOut
<1>6. f[x] \in Int
  OBVIOUS
<1> QED
  BY <1>2, <1>3, <1>4, <1>5, <1>6

\* A set that gains an element gains its value.
LEMMA SumGainsOne ==
  ASSUME NEW S, IsFiniteSet(S), NEW f, NEW x, x \notin S,
         \A y \in S \cup {x} : f[y] \in Int
  PROVE  SumFunctionOnSet(f, S \cup {x}) = SumFunctionOnSet(f, S) + f[x]
<1>1. IsFiniteSet(S \cup {x}) /\ (S \cup {x}) \ {x} = S
  BY FS_AddElement
<1>2. SumFunctionOnSet(f, S \cup {x}) = f[x] + SumFunctionOnSet(f, S)
  BY <1>1, SumTakesOut
<1> QED
  BY <1>2, SumIsInt

\* Zeros sum up to zero.
LEMMA SumOfZeros ==
  ASSUME NEW S, IsFiniteSet(S), NEW f, \A x \in S : f[x] = 0
  PROVE  SumFunctionOnSet(f, S) = 0
<1> DEFINE h == Sums(f, S)
           X == {T \in SUBSET S : h[T] = 0}
<1>1. \A T \in SUBSET S : h[T] \in Int /\ \A x \in T : h[T] = f[x] + h[T \ {x}]
  <2>1. \A x \in S : f[x] \in Int
    OBVIOUS
  <2> QED
    BY <2>1, SumsAnyOrder
<1>2. h[{}] = 0
  BY SumsUnfold
<1> HIDE DEF h
<1>3. \A T \in SUBSET S : \A x \in S \ T : T \in X => T \cup {x} \in X
  <2> SUFFICES ASSUME NEW T \in SUBSET S, NEW x \in S \ T, h[T] = 0
               PROVE  h[T \cup {x}] = 0
    OBVIOUS
  <2>1. (T \cup {x}) \ {x} = T
    OBVIOUS
  <2>2. h[T \cup {x}] = f[x] + h[T]
    BY <1>1, <2>1
  <2> QED
    BY <2>2
<1>4. {} \in X
  BY <1>2
<1>5. SUBSET S \subseteq X
  <2> HIDE DEF X
  <2> QED
    BY <1>3, <1>4, SubsetInduction
<1> QED
  BY <1>5, SumIsLast DEF h

\* A sum of natural numbers is one, and none of them exceeds it.
LEMMA SumOfNats ==
  ASSUME NEW S, IsFiniteSet(S), NEW f, \A x \in S : f[x] \in Nat
  PROVE  /\ SumFunctionOnSet(f, S) \in Nat
         /\ \A x \in S : f[x] <= SumFunctionOnSet(f, S)
<1> DEFINE h == Sums(f, S)
           X == {T \in SUBSET S : h[T] \in Nat}
<1>1. \A T \in SUBSET S : h[T] \in Int /\ \A x \in T : h[T] = f[x] + h[T \ {x}]
  <2>1. \A x \in S : f[x] \in Int
    OBVIOUS
  <2> QED
    BY <2>1, SumsAnyOrder
<1>2. h[{}] = 0
  BY SumsUnfold
<1> HIDE DEF h
<1>3. \A T \in SUBSET S : \A x \in S \ T : T \in X => T \cup {x} \in X
  <2> SUFFICES ASSUME NEW T \in SUBSET S, NEW x \in S \ T, h[T] \in Nat
               PROVE  h[T \cup {x}] \in Nat
    OBVIOUS
  <2>1. (T \cup {x}) \ {x} = T
    OBVIOUS
  <2>2. h[T \cup {x}] = f[x] + h[T]
    BY <1>1, <2>1
  <2> QED
    BY <2>2
<1>4. {} \in X
  BY <1>2
<1>5. SUBSET S \subseteq X
  <2> HIDE DEF X
  <2> QED
    BY <1>3, <1>4, SubsetInduction
<1>6. \A T \in SUBSET S : h[T] \in Nat
  BY <1>5
<1>7. ASSUME NEW x \in S
      PROVE  f[x] <= h[S]
  <2>1. h[S] = f[x] + h[S \ {x}] /\ S \ {x} \in SUBSET S
    BY <1>1
  <2>2. h[S \ {x}] \in Nat
    BY <1>6, <2>1
  <2> QED
    BY <2>1, <2>2
<1> QED
  BY <1>6, <1>7, SumIsLast DEF h
=============================================================================
