------------------------------ MODULE Induction ------------------------------
(***************************************************************************)
(* Induction in the form the proofs of this project use it: over a set of  *)
(* numbers, or of subsets of a finite set, instead of over a predicate,    *)
(* and the existence of a sequence of values that a step function makes.   *)
(* They rest on the well-foundedness theorems of the library.              *)
(***************************************************************************)
EXTENDS Integers, FiniteSets, FiniteSetTheorems, WellFoundedInduction, TLAPS

\* A set of natural numbers that is not empty has a smallest element.
LEMMA LeastElement ==
    ASSUME NEW S \in SUBSET Nat, S # {}
    PROVE  \E m \in S : \A n \in S : m <= n
<1> DEFINE R == OpToRel(<, Nat)
<1>1. IsWellFoundedOn(R, Nat)
  BY NatLessThanWellFounded
<1>2. \A m, n \in Nat : <<n, m>> \in R <=> n < m
  BY DEF OpToRel
<1> HIDE DEF R
<1>3. PICK m \in S : \A n \in S : ~(<<n, m>> \in R)
  BY <1>1, WFMin, Zenon
<1>4. \A n \in S : ~(n < m)
  BY <1>2, <1>3
<1>5. \A n \in S : m <= n
  BY <1>4
<1> QED
  BY <1>5

\* A set that holds 0 and, with n, also n + 1, holds every natural number.
LEMMA NumberInduction ==
    ASSUME NEW S, 0 \in S, \A n \in Nat : n \in S => n + 1 \in S
    PROVE  \A n \in Nat : n \in S
<1> DEFINE Rest == Nat \ S
<1>1. SUFFICES Rest = {}
  OBVIOUS
<1>2. SUFFICES ASSUME Rest # {} PROVE FALSE
  OBVIOUS
<1>3. PICK m \in Rest : \A n \in Rest : m <= n
  BY <1>2, LeastElement
<1>4. m \in Nat /\ m # 0 /\ m - 1 \in Nat
  BY <1>3
<1>5. m - 1 \notin Rest
  BY <1>3, <1>4
<1>6. (m - 1) + 1 \in S
  BY <1>4, <1>5
<1> QED
  BY <1>3, <1>4, <1>6

\* The same up to a bound.
LEMMA BoundedInduction ==
    ASSUME NEW N \in Nat, NEW S, 0 \in S, \A n \in 0 .. N - 1 : n \in S => n + 1 \in S
    PROVE  \A n \in 0 .. N : n \in S
<1> DEFINE T == S \cup {n \in Nat : n > N}
<1>1. 0 \in T /\ \A n \in Nat : n \in T => n + 1 \in T
  OBVIOUS
<1> HIDE DEF T
<1>2. \A n \in Nat : n \in T
  BY <1>1, NumberInduction
<1> QED
  BY <1>2 DEF T

\* A finite set of numbers that is not empty has a largest element.
LEMMA LargestElement ==
    ASSUME NEW N \in Nat, NEW S \in SUBSET (0 .. N), S # {}
    PROVE  \E m \in S : \A n \in S : n <= m
<1> DEFINE T == {k \in 0 .. N : N - k \in S}
<1>1. \A n \in S : N - n \in T
  OBVIOUS
<1>2. T \in SUBSET Nat
  OBVIOUS
<1>3. T # {}
  <2> HIDE DEF T
  <2> QED
    BY <1>1
<1>4. PICK t \in T : \A k \in T : t <= k
  BY <1>2, <1>3, LeastElement
<1>5. \A n \in S : n <= N - t
  BY <1>1, <1>4
<1> QED
  BY <1>4, <1>5

\* A family of subsets of a finite set that holds {} and, with T, also T with
\* one more element, holds every subset.
LEMMA SubsetInduction ==
    ASSUME NEW S, IsFiniteSet(S), NEW F, {} \in F,
           \A T \in SUBSET S : \A x \in S \ T : T \in F => T \cup {x} \in F
    PROVE  \A T \in SUBSET S : T \in F
<1> DEFINE Rest == (SUBSET S) \ F
<1>1. SUFFICES ASSUME Rest # {} PROVE FALSE
  OBVIOUS
<1>2. IsWellFoundedOn(StrictSubsetOrdering(S), SUBSET S)
  BY FS_StrictSubsetOrderingWellFounded, FS_FiniteSubsetsOfFinite
<1>3. PICK m \in Rest : \A n \in Rest : ~(<<n, m>> \in StrictSubsetOrdering(S))
  <2>1. Rest \subseteq SUBSET S
    OBVIOUS
  <2> HIDE DEF Rest
  <2> QED
    BY <1>1, <1>2, <2>1, WFMin, Zenon
<1>4. m \in SUBSET S /\ m \notin F /\ m # {}
  BY <1>3
<1>5. PICK x \in m : TRUE
  BY <1>4
<1> DEFINE n == m \ {x}
<1>6. n \in SUBSET S /\ x \in S \ n /\ n \cup {x} = m /\ n \subseteq m /\ n # m
  BY <1>4, <1>5
<1>7. n \notin F
  BY <1>6, <1>4
<1>8. n \notin F => n \in Rest
  BY <1>6
<1>9. <<n, m>> \in StrictSubsetOrdering(S)
  BY <1>4, <1>6 DEF StrictSubsetOrdering
<1> QED
  BY <1>3, <1>6, <1>7, <1>8, <1>9

\* Some members of a family of subsets of a finite set are minimal.
LEMMA MinimalSubset ==
    ASSUME NEW S, IsFiniteSet(S), NEW F \in SUBSET (SUBSET S), F # {}
    PROVE  \E m \in F : \A n \in F : n \subseteq m => n = m
<1>1. IsWellFoundedOn(StrictSubsetOrdering(S), SUBSET S)
  BY FS_StrictSubsetOrderingWellFounded, FS_FiniteSubsetsOfFinite
<1>2. F \subseteq SUBSET S
  OBVIOUS
<1>3. PICK m \in F : \A n \in F : ~(<<n, m>> \in StrictSubsetOrdering(S))
  BY <1>1, <1>2, WFMin, Zenon
<1>4. \A n \in F : n \subseteq m /\ n # m => <<n, m>> \in StrictSubsetOrdering(S)
  BY DEF StrictSubsetOrdering
<1>5. \A n \in F : n \subseteq m => n = m
  BY <1>3, <1>4, Zenon
<1> QED
  BY <1>5, Zenon

\* A family that holds a set when it holds all its proper subsets holds every
\* subset of a finite set.
LEMMA StrongSubsetInduction ==
    ASSUME NEW S, IsFiniteSet(S), NEW F,
           \A T \in SUBSET S : (\A U \in SUBSET T : U # T => U \in F) => T \in F
    PROVE  \A T \in SUBSET S : T \in F
<1> DEFINE Rest == (SUBSET S) \ F
<1>1. SUFFICES ASSUME Rest # {} PROVE FALSE
  OBVIOUS
<1>2. Rest \in SUBSET (SUBSET S)
  OBVIOUS
<1>3. PICK m \in Rest : \A n \in Rest : n \subseteq m => n = m
  <2> HIDE DEF Rest
  <2> QED
    BY <1>1, <1>2, MinimalSubset
<1>4. m \in SUBSET S /\ m \notin F
  BY <1>3
<1>5. PICK U \in SUBSET m : U # m /\ U \notin F
  BY <1>4
<1> QED
  BY <1>3, <1>4, <1>5

\* f lists a and what the steps make of it, one after the other.
Iterates(f, N, a, step) == f[0] = a /\ \A n \in 1 .. N : f[n] = step[n][f[n - 1]]

\* Such a list exists: what the recursive functions of the models need to
\* denote something.
LEMMA Recursion ==
    ASSUME NEW N \in Nat, NEW S, NEW a \in S, NEW step \in [1 .. N -> [S -> S]]
    PROVE  \E f \in [0 .. N -> S] : Iterates(f, N, a, step)
<1> DEFINE Good(m, f) == f \in [0 .. m -> S] /\ Iterates(f, m, a, step)
           M == {m \in 0 .. N : \E f : Good(m, f)}
<1>1. 0 \in M
  <2>1. Good(0, [n \in 0 .. 0 |-> a])
    BY DEF Iterates
  <2>2. \E f : Good(0, f)
    BY <2>1, Zenon
  <2> QED
    BY <2>2
<1>2. ASSUME NEW m \in 0 .. N - 1, m \in M PROVE m + 1 \in M
  <2>1. PICK f : Good(m, f)
    BY <1>2
  <2> DEFINE g == [n \in 0 .. m + 1 |-> IF n = m + 1 THEN step[m + 1][f[m]] ELSE f[n]]
  <2>2. f[m] \in S /\ m + 1 \in 1 .. N /\ step[m + 1][f[m]] \in S
    BY <2>1
  <2>3. g \in [0 .. m + 1 -> S] /\ g[0] = a
    BY <2>1, <2>2 DEF Iterates
  <2>4. ASSUME NEW n \in 1 .. m + 1 PROVE g[n] = step[n][g[n - 1]]
    <3>1. CASE n = m + 1
      <4>1. n - 1 = m /\ n - 1 \in 0 .. m + 1 /\ n - 1 # m + 1
        BY <3>1
      <4>2. g[n - 1] = f[m] /\ g[n] = step[m + 1][f[m]]
        BY <3>1, <4>1
      <4> QED
        BY <3>1, <4>2
    <3>2. CASE n # m + 1
      BY <2>1, <3>2 DEF Iterates
    <3> QED
      BY <3>1, <3>2
  <2>5. Good(m + 1, g)
    BY <2>3, <2>4 DEF Iterates
  <2>6. \E h : Good(m + 1, h)
    <3> HIDE DEF g
    <3> QED
      BY <2>5, Zenon
  <2> QED
    BY <2>6
<1> HIDE DEF M
<1>3. N \in M
  <2>1. \A m \in 0 .. N : m \in M
    BY <1>1, <1>2, BoundedInduction
  <2> QED
    BY <2>1
<1> QED
  BY <1>3 DEF M
=============================================================================
