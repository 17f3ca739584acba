-------------------------- MODULE StateStore_proofs --------------------------
(***************************************************************************)
(* What a frame does to the state, for every set of events: the sort of    *)
(* apply_committed_events exists and loses nothing, the shadow of pending  *)
(* writes is the state after them, and when no two events of a frame write *)
(* the same key, the order of the frame does not show.                     *)
(***************************************************************************)
EXTENDS StateStore, Induction

ChangesOver(V) == [key : Keys, old : V, new : V]
ResultsOver(V) == [ok : BOOLEAN, changes : Seq(ChangesOver(V))]
StoresOver(V) == [Keys -> V]

-----------------------------------------------------------------------------
(* The shadow.                                                             *)

\* The last of finitely many indices.
LEMMA LastIs ==
    ASSUME NEW n \in Nat, NEW J \in SUBSET (1 .. n), J # {}
    PROVE  Last(J) \in J /\ \A i \in J : i <= Last(J)
<1>1. \E j \in J : \A i \in J : i <= j
  <2>1. J \in SUBSET (0 .. n)
    OBVIOUS
  <2> QED
    BY <2>1, LargestElement
<1> QED
  BY <1>1, Zenon DEF Last

\* After one more change, its key holds its new value and the others are as
\* they were.
LEMMA ShadowStep ==
    ASSUME NEW store, NEW changes, NEW n \in Nat \ {0}, NEW k
    PROVE  Shadow(store, changes, n, k) =
             IF changes[n].key = k THEN changes[n].new ELSE Shadow(store, changes, n - 1, k)
<1>1. CASE changes[n].key = k
  <2>1. n \in WritesOf(changes, n, k) /\ WritesOf(changes, n, k) \in SUBSET (1 .. n)
    BY <1>1 DEF WritesOf
  <2>2. Last(WritesOf(changes, n, k)) \in 1 .. n /\ n <= Last(WritesOf(changes, n, k))
    BY <2>1, LastIs
  <2>3. Last(WritesOf(changes, n, k)) = n
    BY <2>2
  <2> QED
    BY <1>1, <2>1, <2>3 DEF Shadow
<1>2. CASE changes[n].key # k
  <2>1. WritesOf(changes, n, k) = WritesOf(changes, n - 1, k)
    <3>1. 1 .. n = (1 .. n - 1) \cup {n}
      OBVIOUS
    <3> QED
      BY <1>2, <3>1 DEF WritesOf
  <2> QED
    BY <1>2, <2>1 DEF Shadow
<1> QED
  BY <1>1, <1>2

\* Before any change the shadow is the store, and it always holds values.
LEMMA ShadowValues ==
    ASSUME NEW V, NEW store \in StoresOver(V), NEW changes \in Seq(ChangesOver(V)),
           NEW n \in 0 .. Len(changes), NEW k \in Keys
    PROVE  /\ Shadow(store, changes, 0, k) = store[k]
           /\ Shadow(store, changes, n, k) \in V
<1>1. WritesOf(changes, 0, k) = {}
  BY DEF WritesOf
<1>2. CASE WritesOf(changes, n, k) = {}
  BY <1>1, <1>2 DEF Shadow, StoresOver
<1>3. CASE WritesOf(changes, n, k) # {}
  <2>1. WritesOf(changes, n, k) \in SUBSET (1 .. n) /\ n \in Nat
    BY DEF WritesOf
  <2>2. Last(WritesOf(changes, n, k)) \in 1 .. n
    BY <1>3, <2>1, LastIs
  <2>3. changes[Last(WritesOf(changes, n, k))] \in ChangesOver(V)
    BY <2>1, <2>2
  <2> QED
    BY <1>1, <1>3, <2>3 DEF Shadow, ChangesOver
<1> QED
  BY <1>2, <1>3

\* The shadow depends on the store only at the key it is asked for.
LEMMA ShadowLocal ==
    ASSUME NEW store, NEW other, NEW changes, NEW n, NEW k, store[k] = other[k]
    PROVE  Shadow(store, changes, n, k) = Shadow(other, changes, n, k)
  BY DEF Shadow, WritesOf

-----------------------------------------------------------------------------
(* One event.                                                              *)

\* The verdict on an event depends on the store at the keys it writes.
LEMMA VerdictLocal ==
    ASSUME NEW V, NEW r \in ResultsOver(V), NEW store, NEW other,
           \A k \in WriteKeys(r) : store[k] = other[k]
    PROVE  Verdict(store, r) = Verdict(other, r)
<1>1. CASE ~r.ok
  BY <1>1 DEF Verdict
<1>2. CASE r.ok
  <2>1. ASSUME NEW i \in DOMAIN r.changes
        PROVE  Conflict(store, r.changes, i) <=> Conflict(other, r.changes, i)
    <3>1. store[r.changes[i].key] = other[r.changes[i].key]
      BY <1>2 DEF WriteKeys
    <3>2. i - 1 \in Nat
      BY DEF ResultsOver
    <3>3. Shadow(store, r.changes, i - 1, r.changes[i].key)
            = Shadow(other, r.changes, i - 1, r.changes[i].key)
      BY <3>1, <3>2, ShadowLocal
    <3> QED
      BY <3>1, <3>3 DEF Conflict
  <2>2. Stale(store, r.changes) <=> Stale(other, r.changes)
    BY <2>1 DEF Stale
  <2> QED
    BY <1>2, <2>2 DEF Verdict
<1> QED
  BY <1>1, <1>2

\* What applying an event leaves at a key: outside its own keys nothing
\* changes, and at its keys the outcome depends on the store at its keys.
LEMMA ApplyOneLocal ==
    ASSUME NEW V, NEW r \in ResultsOver(V), NEW store \in StoresOver(V)
    PROVE  /\ ApplyOne(store, r) \in StoresOver(V)
           /\ \A k \in Keys \ WriteKeys(r) : ApplyOne(store, r)[k] = store[k]
           /\ \A other \in StoresOver(V) :
                (\A k \in WriteKeys(r) : store[k] = other[k]) =>
                    \A k \in WriteKeys(r) \cap Keys : ApplyOne(store, r)[k] = ApplyOne(other, r)[k]
<1>0. r.changes \in Seq(ChangesOver(V)) /\ Len(r.changes) \in Nat
      /\ DOMAIN r.changes = 1 .. Len(r.changes) /\ Len(r.changes) \in 0 .. Len(r.changes)
  BY DEF ResultsOver
<1>1. ApplyOne(store, r) \in StoresOver(V)
  <2>1. \A k \in Keys : Shadow(store, r.changes, Len(r.changes), k) \in V
    BY <1>0, ShadowValues
  <2> QED
    BY <2>1 DEF ApplyOne, Written, StoresOver
<1>2. ASSUME NEW k \in Keys \ WriteKeys(r) PROVE ApplyOne(store, r)[k] = store[k]
  <2>1. CASE Verdict(store, r) = "applied"
    <3>1. r.ok
      BY <2>1 DEF Verdict, ResultsOver
    <3>2. \A i \in 1 .. Len(r.changes) : r.changes[i].key # k
      BY <1>0, <1>2, <3>1 DEF WriteKeys
    <3>3. Shadow(store, r.changes, Len(r.changes), k) = store[k]
      BY <3>2 DEF Shadow, WritesOf
    <3> QED
      BY <1>2, <2>1, <3>3 DEF ApplyOne, Written
  <2>2. CASE Verdict(store, r) # "applied"
    BY <2>2 DEF ApplyOne
  <2> QED
    BY <2>1, <2>2
<1>3. ASSUME NEW other \in StoresOver(V), \A k \in WriteKeys(r) : store[k] = other[k],
             NEW k \in WriteKeys(r) \cap Keys
      PROVE  ApplyOne(store, r)[k] = ApplyOne(other, r)[k]
  <2>1. Verdict(store, r) = Verdict(other, r)
    BY <1>3, VerdictLocal
  <2>2. Shadow(store, r.changes, Len(r.changes), k) = Shadow(other, r.changes, Len(r.changes), k)
    BY <1>0, <1>3, ShadowLocal
  <2> QED
    BY <1>3, <2>1, <2>2 DEF ApplyOne, Written
<1> QED
  BY <1>1, <1>2, <1>3

-----------------------------------------------------------------------------
(* The sort.                                                               *)

\* Logical time with the event id to break ties is a strict total order.
LEMMA BeforeIsTotal ==
    /\ \A s, t \in Txs : s # t => Before(s, t) \/ Before(t, s)
    /\ \A s \in Txs : ~Before(s, s)
    /\ \A s, t, u \in Txs : Before(s, t) /\ Before(t, u) => Before(s, u)
<1>1. \A t \in Txs : LogicalTime[t] \in Nat /\ Rank[t] \in Nat
  BY OrderAssumption
<1>2. \A s, t \in Txs : Rank[s] = Rank[t] => s = t
  BY OrderAssumption
<1> QED
  BY <1>1, <1>2 DEF Before

\* Some event of a set comes last.
LEMMA LastEvent ==
    ASSUME NEW E \in SUBSET Txs, E # {}
    PROVE  \E x \in E : \A t \in E \ {x} : Before(t, x)
<1> DEFINE HasLast(D) == D = {} \/ \E x \in D : \A t \in D \ {x} : Before(t, x)
           F == {D \in SUBSET Txs : HasLast(D)}
<1>1. {} \in F
  OBVIOUS
<1>2. ASSUME NEW T \in SUBSET Txs, NEW y \in Txs \ T, T \in F PROVE T \cup {y} \in F
  <2>1. CASE T = {}
    BY <2>1
  <2>2. CASE T # {}
    <3>1. PICK x \in T : \A t \in T \ {x} : Before(t, x)
      BY <1>2, <2>2
    <3>2. CASE Before(x, y)
      <4>1. \A t \in T : Before(t, y)
        BY <3>1, <3>2, BeforeIsTotal
      <4> QED
        BY <4>1
    <3>3. CASE Before(y, x)
      BY <3>1, <3>3
    <3> QED
      BY <3>2, <3>3, BeforeIsTotal
  <2> QED
    BY <2>1, <2>2
<1>3. IsFiniteSet(Txs)
  BY OrderAssumption
<1> HIDE DEF F
<1>4. \A T \in SUBSET Txs : T \in F
  BY <1>1, <1>2, <1>3, SubsetInduction
<1> QED
  BY <1>4 DEF F

Ordered(s) == \A i, j \in DOMAIN s : i < j => s[i] # s[j] /\ Before(s[i], s[j])

\* Every set of events can be put in order.
LEMMA OrderExists ==
    ASSUME NEW E \in SUBSET Txs
    PROVE  \E s \in [1 .. Cardinality(E) -> E] : Ordered(s)
<1> DEFINE M == {n \in Nat : \A D \in SUBSET Txs :
                    Cardinality(D) = n => \E s \in [1 .. n -> D] : Ordered(s)}
<1>0. ASSUME NEW D \in SUBSET Txs PROVE IsFiniteSet(D) /\ Cardinality(D) \in Nat
  BY OrderAssumption, FS_Subset, FS_CardinalityType
<1>1. 0 \in M
  <2>1. ASSUME NEW D \in SUBSET Txs PROVE \E s \in [1 .. 0 -> D] : Ordered(s)
    <3>1. [i \in 1 .. 0 |-> i] \in [1 .. 0 -> D] /\ Ordered([i \in 1 .. 0 |-> i])
      BY DEF Ordered
    <3> QED
      BY <3>1
  <2> QED
    BY <2>1
<1>2. ASSUME NEW n \in Nat, n \in M PROVE n + 1 \in M
  <2>1. ASSUME NEW D \in SUBSET Txs, Cardinality(D) = n + 1
        PROVE  \E s \in [1 .. n + 1 -> D] : Ordered(s)
    <3>1. D # {}
      BY <2>1, FS_EmptySet
    <3>2. PICK x \in D : \A t \in D \ {x} : Before(t, x)
      BY <3>1, LastEvent
    <3>3. Cardinality(D \ {x}) = n /\ D \ {x} \in SUBSET Txs
      BY <1>0, <2>1, <3>2, FS_RemoveElement
    <3>4. PICK s \in [1 .. n -> D \ {x}] : Ordered(s)
      BY <1>2, <3>3
    <3> DEFINE r == [i \in 1 .. n + 1 |-> IF i = n + 1 THEN x ELSE s[i]]
    <3>5. r \in [1 .. n + 1 -> D]
      BY <3>2, <3>4
    <3>6. ASSUME NEW i \in 1 .. n + 1, NEW j \in 1 .. n + 1, i < j
          PROVE  r[i] # r[j] /\ Before(r[i], r[j])
      <4>1. i \in 1 .. n /\ r[i] = s[i] /\ s[i] \in D \ {x}
        BY <3>4, <3>6
      <4>2. CASE j = n + 1
        <5>1. r[j] = x
          BY <4>2
        <5> QED
          BY <3>2, <4>1, <5>1
      <4>3. CASE j # n + 1
        <5>1. j \in 1 .. n /\ r[j] = s[j]
          BY <4>3
        <5> QED
          BY <3>4, <3>6, <4>1, <5>1 DEF Ordered
      <4> QED
        BY <4>2, <4>3
    <3>7. Ordered(r)
      <4>1. DOMAIN r = 1 .. n + 1
        OBVIOUS
      <4> HIDE DEF r
      <4> QED
        BY <3>6, <4>1 DEF Ordered
    <3> HIDE DEF r
    <3> QED
      BY <3>5, <3>7
  <2> QED
    BY <2>1
<1> HIDE DEF M
<1>3. \A n \in Nat : n \in M
  BY <1>1, <1>2, NumberInduction
<1>4. Cardinality(E) \in M
  BY <1>0, <1>3
<1> QED
  BY <1>4 DEF M

\* Sorted lists the events of a frame in order, each once and none left out.
LEMMA SortedIs ==
    ASSUME NEW E \in SUBSET Txs
    PROVE  /\ Cardinality(E) \in Nat
           /\ Sorted(E) \in [1 .. Cardinality(E) -> E]
           /\ Len(Sorted(E)) = Cardinality(E)
           /\ \A i, j \in 1 .. Cardinality(E) : Sorted(E)[i] = Sorted(E)[j] => i = j
           /\ \A t \in E : \E i \in 1 .. Cardinality(E) : Sorted(E)[i] = t
<1>0. IsFiniteSet(E) /\ Cardinality(E) \in Nat
  BY OrderAssumption, FS_Subset, FS_CardinalityType
<1> DEFINE s == Sorted(E)
           n == Cardinality(E)
<1>1. s \in [1 .. n -> E] /\ Ordered(s)
  <2>1. \E r \in [1 .. Cardinality(E) -> E] : Ordered(r)
    BY OrderExists
  <2>2. Sorted(E) = CHOOSE r \in [1 .. Cardinality(E) -> E] : Ordered(r)
    BY DEF Sorted, Ordered
  <2>3. Sorted(E) \in [1 .. Cardinality(E) -> E] /\ Ordered(Sorted(E))
    BY <2>1, <2>2, Zenon
  <2> QED
    BY <2>3
<1> HIDE DEF s, n
<1>2. n \in Nat /\ IsFiniteSet(E)
  BY <1>0 DEF n
<1>3. \A i, j \in 1 .. n : s[i] = s[j] => i = j
  BY <1>1, <1>2 DEF Ordered
<1>4. Len(s) = n
  BY <1>1, <1>2
<1>5. s \in Injection(1 .. n, E)
  BY <1>1, <1>3 DEF Injection, IsInjective
<1>6. Cardinality(1 .. n) = n
  BY <1>2, FS_Interval
<1>7. s \in Surjection(1 .. n, E)
  BY <1>2, <1>5, <1>6, FS_Injection DEF n
<1>8. \A t \in E : \E i \in 1 .. n : s[i] = t
  BY <1>7 DEF Surjection
<1> QED
  BY <1>1, <1>2, <1>3, <1>4, <1>8 DEF s, n

-----------------------------------------------------------------------------
(* A frame.                                                                *)

\* The stores between the events of a frame, each made from the one before.
LEMMA StoresChain ==
    ASSUME NEW V, NEW store \in StoresOver(V), NEW E \in SUBSET Txs, NEW result,
           \A t \in E : result[t] \in ResultsOver(V)
    PROVE  LET es == Sorted(E)
               at == StoresOf(store, es, result)
           IN  /\ at[0] = store
               /\ \A n \in 1 .. Cardinality(E) : at[n] = ApplyOne(at[n - 1], result[es[n]])
               /\ \A n \in 0 .. Cardinality(E) : at[n] \in StoresOver(V)
<1> DEFINE es == Sorted(E)
           N == Cardinality(E)
           S == StoresOver(V)
           step == [n \in 1 .. N |-> [x \in S |-> ApplyOne(x, result[es[n]])]]
           Body(f) == [n \in 0 .. Len(es) |-> IF n = 0 THEN store
                                              ELSE ApplyOne(f[n - 1], result[es[n]])]
           at == StoresOf(store, es, result)
<1>1. N \in Nat /\ es \in [1 .. N -> E] /\ Len(es) = N
  BY SortedIs
<1>2. \A n \in 1 .. N : result[es[n]] \in ResultsOver(V)
  BY <1>1
<1>3. step \in [1 .. N -> [S -> S]]
  <2>1. ASSUME NEW n \in 1 .. N, NEW x \in S PROVE ApplyOne(x, result[es[n]]) \in S
    BY <1>2, ApplyOneLocal
  <2> QED
    BY <2>1
<1>4. \A n \in 1 .. N, x \in S : step[n][x] = ApplyOne(x, result[es[n]])
  OBVIOUS
<1> HIDE DEF step
<1>5. PICK f \in [0 .. N -> S] : Iterates(f, N, store, step)
  <2>1. store \in S
    OBVIOUS
  <2> HIDE DEF es, N, S
  <2> QED
    BY <1>1, <1>3, <2>1, Recursion
<1>6. f = Body(f)
  <2>1. \A n \in 1 .. N : f[n - 1] \in S
    BY <1>1, <1>5
  <2>2. \A n \in 1 .. N : f[n] = ApplyOne(f[n - 1], result[es[n]])
    BY <1>4, <1>5, <2>1 DEF Iterates
  <2> HIDE DEF es, N, S
  <2>3. ASSUME NEW n \in 0 .. N
        PROVE  f[n] = IF n = 0 THEN store ELSE ApplyOne(f[n - 1], result[es[n]])
    <3>1. n # 0 => n \in 1 .. N
      BY <1>1
    <3> QED
      BY <1>5, <2>2, <3>1 DEF Iterates
  <2> QED
    BY <1>1, <1>5, <2>3
<1>7. at = Body(at)
  <2>1. at = CHOOSE g : g = Body(g)
    BY DEF StoresOf
  <2> HIDE DEF Body, at
  <2> QED
    BY <1>6, <2>1, Zenon
<1>8. at[0] = store /\ \A n \in 1 .. N : at[n] = ApplyOne(at[n - 1], result[es[n]])
  <2> HIDE DEF at, es, N
  <2>1. 0 \in 0 .. Len(es) /\ \A n \in 1 .. N : n \in 0 .. Len(es) /\ n # 0
    BY <1>1
  <2> QED
    BY <1>7, <2>1
<1>9. \A n \in 0 .. N : at[n] \in S
  <2> DEFINE G == {n \in 0 .. N : at[n] \in S}
  <2>1. 0 \in G
    BY <1>1, <1>8
  <2>2. ASSUME NEW n \in 0 .. N - 1, n \in G PROVE n + 1 \in G
    <3>1. n + 1 \in 1 .. N /\ (n + 1) - 1 = n /\ at[n] \in S
      BY <1>1, <2>2
    <3>2. at[n + 1] = ApplyOne(at[n], result[es[n + 1]])
      BY <1>8, <3>1
    <3>3. ApplyOne(at[n], result[es[n + 1]]) \in S
      BY <1>2, <3>1, ApplyOneLocal
    <3> QED
      BY <1>1, <3>1, <3>2, <3>3
  <2> HIDE DEF G
  <2>3. \A n \in 0 .. N : n \in G
    BY <1>1, <2>1, <2>2, BoundedInduction
  <2> QED
    BY <2>3 DEF G
<1> QED
  BY <1>8, <1>9

\* An event writes keys.
LEMMA WriteKeysAreKeys ==
    ASSUME NEW V, NEW r \in ResultsOver(V)
    PROVE  WriteKeys(r) \subseteq Keys
<1>1. \A i \in DOMAIN r.changes : r.changes[i] \in ChangesOver(V)
  BY DEF ResultsOver
<1>2. \A i \in DOMAIN r.changes : r.changes[i].key \in Keys
  BY <1>1 DEF ChangesOver
<1> QED
  BY <1>2 DEF WriteKeys

DisjointWrites(E, result) ==
    \A s, t \in E : s # t => WriteKeys(result[s]) \cap WriteKeys(result[t]) = {}

\* Each event of a frame is judged, and leaves its keys, as if it had been
\* alone in the frame; other keys do not change.
InParallel(V, store, E, result) ==
    /\ ApplyCommittedEvents(store, E, result) \in StoresOver(V)
    /\ Summary(store, E, result) = [t \in E |-> Verdict(store, result[t])]
    /\ \A t \in E : \A k \in WriteKeys(result[t]) :
         ApplyCommittedEvents(store, E, result)[k] = ApplyOne(store, result[t])[k]
    /\ \A k \in Keys : (\A t \in E : k \notin WriteKeys(result[t])) =>
         ApplyCommittedEvents(store, E, result)[k] = store[k]

\* That is so when no two of its events write the same key.
LEMMA FrameIsParallel ==
    ASSUME NEW V, NEW store \in StoresOver(V), NEW E \in SUBSET Txs, NEW result,
           \A t \in E : result[t] \in ResultsOver(V), DisjointWrites(E, result)
    PROVE  InParallel(V, store, E, result)
<1> DEFINE es == Sorted(E)
           N == Cardinality(E)
           at == StoresOf(store, es, result)
           K(n) == WriteKeys(result[es[n]])
           Same(n) == \A k \in Keys : (\A m \in 1 .. n : k \notin K(m)) => at[n][k] = store[k]
           Own(n) == \A m \in 1 .. n : \A k \in K(m) : at[n][k] = ApplyOne(store, result[es[m]])[k]
           G == {n \in 0 .. N : Same(n) /\ Own(n)}
<1>1. /\ N \in Nat /\ es \in [1 .. N -> E] /\ Len(es) = N
      /\ \A i, j \in 1 .. N : es[i] = es[j] => i = j
      /\ \A t \in E : \E i \in 1 .. N : es[i] = t
  BY SortedIs
<1>2. /\ at[0] = store
      /\ \A n \in 1 .. N : at[n] = ApplyOne(at[n - 1], result[es[n]])
      /\ \A n \in 0 .. N : at[n] \in StoresOver(V)
  BY StoresChain
<1> HIDE DEF at, es, N
<1>3. \A n \in 1 .. N : result[es[n]] \in ResultsOver(V) /\ K(n) \subseteq Keys
  BY <1>1, WriteKeysAreKeys
<1>4. \A m, n \in 1 .. N : m # n => K(m) \cap K(n) = {}
  BY <1>1 DEF DisjointWrites
<1>5. 0 \in G
  BY <1>1, <1>2
\* The store an event meets is the one before the frame, at the event's keys.
<1>6. ASSUME NEW n \in 0 .. N - 1, Same(n)
      PROVE  /\ n + 1 \in 1 .. N /\ n \in 0 .. N /\ (n + 1) - 1 = n
             /\ \A k \in K(n + 1) : at[n][k] = store[k]
  <2>1. n + 1 \in 1 .. N /\ n \in 0 .. N /\ (n + 1) - 1 = n
    BY <1>1
  <2>2. ASSUME NEW k \in K(n + 1), NEW m \in 1 .. n PROVE k \notin K(m)
    <3>1. m \in 1 .. N /\ m # n + 1
      BY <1>1
    <3> QED
      BY <1>4, <2>1, <2>2, <3>1
  <2>3. ASSUME NEW k \in K(n + 1) PROVE at[n][k] = store[k]
    <3>1. k \in Keys
      BY <1>3, <2>1
    <3> QED
      BY <1>6, <2>2, <3>1
  <2> QED
    BY <2>1, <2>3
<1>7. ASSUME NEW n \in 0 .. N - 1, n \in G PROVE n + 1 \in G
  <2> DEFINE r == result[es[n + 1]]
  <2>1. /\ n + 1 \in 1 .. N /\ n \in 0 .. N /\ (n + 1) - 1 = n /\ n + 1 \in 0 .. N
        /\ \A k \in WriteKeys(r) : at[n][k] = store[k]
        /\ Same(n) /\ Own(n)
    BY <1>6, <1>7
  <2>2. /\ at[n + 1] = ApplyOne(at[n], r) /\ at[n] \in StoresOver(V)
        /\ r \in ResultsOver(V) /\ WriteKeys(r) \subseteq Keys
    BY <1>2, <1>3, <2>1
  <2>3. \A k \in Keys \ WriteKeys(r) : at[n + 1][k] = at[n][k]
    BY <2>2, ApplyOneLocal
  <2>4. \A k \in WriteKeys(r) : at[n + 1][k] = ApplyOne(store, r)[k]
    BY <2>1, <2>2, ApplyOneLocal
  <2>5. Same(n + 1)
    <3>1. ASSUME NEW k \in Keys, \A m \in 1 .. n + 1 : k \notin K(m) PROVE at[n + 1][k] = store[k]
      <4>1. k \notin WriteKeys(r) /\ \A m \in 1 .. n : k \notin K(m)
        BY <3>1
      <4> QED
        BY <2>1, <2>3, <4>1
    <3> QED
      BY <3>1
  <2>6. Own(n + 1)
    <3>1. ASSUME NEW m \in 1 .. n + 1, NEW k \in K(m)
          PROVE  at[n + 1][k] = ApplyOne(store, result[es[m]])[k]
      <4>1. CASE m = n + 1
        BY <2>4, <4>1
      <4>2. CASE m # n + 1
        <5>1. m \in 1 .. n /\ m \in 1 .. N
          BY <1>1, <4>2
        <5>2. k \in Keys /\ k \notin WriteKeys(r)
          BY <1>3, <1>4, <2>1, <3>1, <4>2, <5>1
        <5> QED
          BY <2>1, <2>3, <5>1, <5>2
      <4> QED
        BY <4>1, <4>2
    <3> QED
      BY <3>1
  <2> QED
    BY <2>1, <2>5, <2>6
<1>8. \A n \in 0 .. N : Same(n) /\ Own(n)
  <2> HIDE DEF G
  <2>1. \A n \in 0 .. N : n \in G
    BY <1>1, <1>5, <1>7, BoundedInduction
  <2> QED
    BY <2>1 DEF G
<1>9. N \in 0 .. N /\ ApplyCommittedEvents(store, E, result) = at[N]
  BY <1>1 DEF ApplyCommittedEvents, at, N, es
<1>10. ASSUME NEW t \in E, NEW k \in WriteKeys(result[t])
       PROVE  at[N][k] = ApplyOne(store, result[t])[k]
  <2>1. PICK m \in 1 .. N : es[m] = t
    BY <1>1
  <2> QED
    BY <1>8, <1>9, <2>1
<1>11. ASSUME NEW k \in Keys, \A t \in E : k \notin WriteKeys(result[t]) PROVE at[N][k] = store[k]
  BY <1>1, <1>8, <1>9, <1>11
<1>12. ASSUME NEW t \in E
       PROVE  Verdict(at[(CHOOSE i \in DOMAIN es : es[i] = t) - 1], result[t]) = Verdict(store, result[t])
  <2> DEFINE n == CHOOSE i \in DOMAIN es : es[i] = t
  <2>1. n \in DOMAIN es /\ es[n] = t
    <3>1. \E i \in DOMAIN es : es[i] = t
      BY <1>1
    <3> QED
      BY <3>1, Zenon
  <2> HIDE DEF n
  <2>2. n \in 1 .. N /\ n - 1 \in 0 .. N - 1 /\ n - 1 \in 0 .. N /\ (n - 1) + 1 = n
    BY <1>1, <2>1
  <2>3. \A k \in K(n) : at[n - 1][k] = store[k]
    <3>1. Same(n - 1)
      BY <1>8, <2>2
    <3>2. \A k \in K((n - 1) + 1) : at[n - 1][k] = store[k]
      BY <1>6, <2>2, <3>1
    <3> QED
      BY <2>2, <3>2
  <2>4. Verdict(at[n - 1], result[t]) = Verdict(store, result[t])
    BY <2>1, <2>3, VerdictLocal
  <2> QED
    BY <2>4 DEF n
<1>13. Summary(store, E, result) = [t \in E |-> Verdict(store, result[t])]
  BY <1>12 DEF Summary, at, es
<1> QED
  BY <1>2, <1>9, <1>10, <1>11, <1>13 DEF InParallel

\* The strict same-key policy keeps events of the frame that write different
\* keys.
LEMMA FoldIsDisjoint ==
    ASSUME NEW E \in SUBSET Txs, NEW result, NEW max
    PROVE  Fold(E, result, max) \subseteq E /\ DisjointWrites(Fold(E, result, max), result)
<1> DEFINE es == Sorted(E)
           N == Cardinality(E)
           S == {D \in SUBSET E : DisjointWrites(D, result)}
           Claimed(D) == UNION {WriteKeys(result[t]) : t \in D}
           Keep(D, n) == IF WriteKeys(result[es[n]]) \cap Claimed(D) = {}
                         THEN D \cup {es[n]} ELSE D
           step == [n \in 1 .. N |-> [D \in S |-> Keep(D, n)]]
           Body(f) == [n \in 0 .. Len(es) |-> IF n = 0 THEN {} ELSE Keep(f[n - 1], n)]
           kept == CHOOSE f : f = Body(f)
<1>1. N \in Nat /\ es \in [1 .. N -> E] /\ Len(es) = N
  BY SortedIs
<1> HIDE DEF es, N
<1>2. {} \in S
  BY DEF DisjointWrites
<1>3. ASSUME NEW n \in 1 .. N, NEW D \in S PROVE Keep(D, n) \in S
  <2>1. CASE WriteKeys(result[es[n]]) \cap Claimed(D) = {}
    <3>1. \A t \in D : WriteKeys(result[es[n]]) \cap WriteKeys(result[t]) = {}
      BY <2>1
    <3>2. DisjointWrites(D \cup {es[n]}, result)
      BY <3>1 DEF DisjointWrites
    <3> QED
      BY <1>1, <2>1, <3>2
  <2> QED
    BY <2>1
<1> HIDE DEF Keep, S
<1>4. step \in [1 .. N -> [S -> S]]
  BY <1>3
<1>5. \A n \in 1 .. N, D \in S : step[n][D] = Keep(D, n)
  OBVIOUS
<1> HIDE DEF step
<1>6. PICK f \in [0 .. N -> S] : Iterates(f, N, {}, step)
  BY <1>1, <1>2, <1>4, Recursion
<1>7. f = Body(f)
  <2>1. \A n \in 1 .. N : f[n - 1] \in S
    BY <1>1, <1>6
  <2>2. \A n \in 1 .. N : f[n] = Keep(f[n - 1], n)
    BY <1>5, <1>6, <2>1 DEF Iterates
  <2>3. ASSUME NEW n \in 0 .. N PROVE f[n] = IF n = 0 THEN {} ELSE Keep(f[n - 1], n)
    <3>1. n # 0 => n \in 1 .. N
      BY <1>1
    <3> QED
      BY <1>6, <2>2, <3>1 DEF Iterates
  <2> QED
    BY <1>1, <1>6, <2>3
<1>8. kept = Body(kept)
  <2> HIDE DEF Body
  <2> QED
    BY <1>7, Zenon
<1> HIDE DEF kept
<1>9. kept[0] = {} /\ \A n \in 1 .. N : kept[n] = Keep(kept[n - 1], n)
  <2>1. 0 \in 0 .. Len(es) /\ \A n \in 1 .. N : n \in 0 .. Len(es) /\ n # 0
    BY <1>1
  <2> QED
    BY <1>8, <2>1
<1>10. kept[N] \in S
  <2> DEFINE G == {n \in 0 .. N : kept[n] \in S}
  <2>1. 0 \in G
    <3>1. kept[0] \in S
      BY <1>2, <1>9, Zenon
    <3>2. 0 \in 0 .. N
      BY <1>1
    <3> QED
      BY <3>1, <3>2
  <2>2. ASSUME NEW n \in 0 .. N - 1, n \in G PROVE n + 1 \in G
    <3>1. n + 1 \in 1 .. N /\ (n + 1) - 1 = n /\ kept[n] \in S
      BY <1>1, <2>2
    <3>2. kept[n + 1] = Keep(kept[n], n + 1)
      BY <1>9, <3>1
    <3> QED
      BY <1>1, <1>3, <3>1, <3>2
  <2> HIDE DEF G
  <2>3. \A n \in 0 .. N : n \in G
    BY <1>1, <2>1, <2>2, BoundedInduction
  <2> QED
    BY <1>1, <2>3 DEF G
<1>11. KeptOf(es, result) = kept[N]
  BY <1>1 DEF KeptOf, kept, Keep
<1>12. Fold(E, result, max) \subseteq kept[N]
  BY <1>11 DEF Fold, es
<1> QED
  BY <1>10, <1>12 DEF S, DisjointWrites
=============================================================================
