---------------------------- MODULE State_proofs ----------------------------
(***************************************************************************)
(* Proofs about State, for any number of requests, keys, events per frame  *)
(* and waiters: the counters and the wakeups of WatcherRegistry, the types *)
(* and the disjoint frames (SInv), the owner index, the refinement of      *)
(* SerialState, the root of a build, effects that happen once, and a       *)
(* request that reads its own writes.                                      *)
(***************************************************************************)
EXTENDS State, StateStore_proofs

\* One element more, one less, or none.
LEMMA CardinalityStep ==
    ASSUME NEW W, IsFiniteSet(W), NEW A \in SUBSET W, NEW B \in SUBSET W, NEW w \in W,
           A \ {w} = B \ {w}
    PROVE  /\ Cardinality(A) \in Nat /\ Cardinality(B) \in Nat
           /\ w \in B /\ w \notin A => Cardinality(B) = Cardinality(A) + 1
           /\ w \notin B /\ w \in A => Cardinality(B) = Cardinality(A) - 1
           /\ (w \in A <=> w \in B) => A = B
<1>1. IsFiniteSet(A) /\ IsFiniteSet(B)
  BY FS_Subset
<1>2. Cardinality(A) \in Nat /\ Cardinality(B) \in Nat
  BY <1>1, FS_CardinalityType
<1>3. ASSUME w \in B, w \notin A PROVE Cardinality(B) = Cardinality(A) + 1
  <2>1. B = A \cup {w}
    BY <1>3
  <2> QED
    BY <1>1, <1>3, <2>1, FS_AddElement
<1>4. ASSUME w \notin B, w \in A PROVE Cardinality(B) = Cardinality(A) - 1
  <2>1. B = A \ {w}
    BY <1>4
  <2> QED
    BY <1>1, <1>4, <2>1, FS_RemoveElement
<1> QED
  BY <1>2, <1>3, <1>4

-----------------------------------------------------------------------------
\* The requests that hold a share of the global cap, those it was granted to,
\* and the guards on a slot.
ReservedNow == {w \in Waiters : wpc[w] \in Reserved}
Granted == {w \in Waiters : wpc[w] \in Reserved \ {"refund"}}
GuardsOn(s) == {w \in Waiters : wpc[w] \in Counted /\ held[w] = s}

Counts ==
    /\ global = Cardinality(ReservedNow)
    /\ \A s \in Waiters : count[s] = Cardinality(GuardsOn(s))
    /\ Cardinality(Granted) <= GlobalCap

\* A request that counts itself has a slot.
HasSlot == \A w \in Waiters : wpc[w] \in Counted \cup {"held"} => held[w] \in Waiters

WInv == WatcherTypeOK /\ HasSlot /\ Counts

\* What State assumes of the waiters.
LEMMA CapsAssumption == IsFiniteSet(Waiters) /\ NoSlot \notin Waiters /\ GlobalCap \in Nat
  BY WatcherAssumption

\* One waiter moves: each counted set gains it, loses it or stays.
LEMMA WaitersStep ==
    ASSUME NEW X \in SUBSET Waiters, NEW Y \in SUBSET Waiters,
           NEW w \in Waiters, X \ {w} = Y \ {w}
    PROVE  /\ Cardinality(X) \in Nat
           /\ w \in Y /\ w \notin X => Cardinality(Y) = Cardinality(X) + 1
           /\ w \notin Y /\ w \in X => Cardinality(Y) = Cardinality(X) - 1
           /\ (w \in X <=> w \in Y) => X = Y
<1>1. IsFiniteSet(Waiters)
  BY CapsAssumption
<1> QED
  BY <1>1, CardinalityStep

\* In the beginning nobody waits.
LEMMA InitWInv == Init => WInv
<1> SUFFICES ASSUME Init PROVE WInv
  OBVIOUS
<1> USE DEF Init, InitWatcher
<1>1. WatcherTypeOK
  BY DEF WatcherTypeOK
<1>2. ReservedNow = {} /\ Granted = {} /\ \A s \in Waiters : GuardsOn(s) = {}
  BY DEF ReservedNow, Granted, GuardsOn, Reserved, Counted
<1>3. HasSlot
  BY DEF HasSlot, Counted
<1>4. Counts
  <2>1. global = 0 /\ \A s \in Waiters : count[s] = 0
    OBVIOUS
  <2>2. Cardinality({}) = 0 /\ 0 <= GlobalCap
    BY FS_EmptySet, CapsAssumption
  <2> QED
    BY <1>2, <2>1, <2>2 DEF Counts
<1> QED
  BY <1>1, <1>3, <1>4 DEF WInv

\* What one request's step does to the sets that are counted.
LEMMA OneMoves ==
    ASSUME WInv, NEW w \in Waiters, NEW place, wpc' = [wpc EXCEPT ![w] = place],
           \A v \in Waiters \ {w} : held'[v] = held[v]
    PROVE  /\ wpc'[w] = place /\ \A v \in Waiters \ {w} : wpc'[v] = wpc[v]
           /\ Cardinality(ReservedNow) \in Nat /\ Cardinality(Granted) \in Nat
           /\ place \in Reserved /\ wpc[w] \notin Reserved =>
                Cardinality(ReservedNow') = Cardinality(ReservedNow) + 1
           /\ place \notin Reserved /\ wpc[w] \in Reserved =>
                Cardinality(ReservedNow') = Cardinality(ReservedNow) - 1
           /\ (place \in Reserved <=> wpc[w] \in Reserved) => ReservedNow' = ReservedNow
           /\ place \in Reserved \ {"refund"} /\ wpc[w] \notin Reserved \ {"refund"} =>
                Cardinality(Granted') = Cardinality(Granted) + 1
           /\ place \notin Reserved \ {"refund"} => Cardinality(Granted') <= Cardinality(Granted)
           /\ (place \in Reserved \ {"refund"} <=> wpc[w] \in Reserved \ {"refund"}) => Granted' = Granted
<1>1. wpc'[w] = place /\ \A v \in Waiters \ {w} : wpc'[v] = wpc[v]
  BY DEF WInv, WatcherTypeOK
<1>2. /\ ReservedNow \in SUBSET Waiters /\ ReservedNow' \in SUBSET Waiters
      /\ Granted \in SUBSET Waiters /\ Granted' \in SUBSET Waiters
      /\ ReservedNow \ {w} = ReservedNow' \ {w} /\ Granted \ {w} = Granted' \ {w}
  BY <1>1 DEF ReservedNow, Granted
<1>3. /\ w \in ReservedNow <=> wpc[w] \in Reserved
      /\ w \in ReservedNow' <=> place \in Reserved
      /\ w \in Granted <=> wpc[w] \in Reserved \ {"refund"}
      /\ w \in Granted' <=> place \in Reserved \ {"refund"}
  BY <1>1 DEF ReservedNow, Granted
<1>4. /\ Cardinality(ReservedNow) \in Nat
      /\ w \in ReservedNow' /\ w \notin ReservedNow => Cardinality(ReservedNow') = Cardinality(ReservedNow) + 1
      /\ w \notin ReservedNow' /\ w \in ReservedNow => Cardinality(ReservedNow') = Cardinality(ReservedNow) - 1
      /\ (w \in ReservedNow <=> w \in ReservedNow') => ReservedNow = ReservedNow'
  <2> DEFINE A == ReservedNow
             B == ReservedNow'
  <2>1. IsFiniteSet(Waiters) /\ A \in SUBSET Waiters /\ B \in SUBSET Waiters /\ A \ {w} = B \ {w}
    BY <1>2, CapsAssumption
  <2> HIDE DEF A, B
  <2>2. /\ Cardinality(A) \in Nat
        /\ w \in B /\ w \notin A => Cardinality(B) = Cardinality(A) + 1
        /\ w \notin B /\ w \in A => Cardinality(B) = Cardinality(A) - 1
        /\ (w \in A <=> w \in B) => A = B
    BY <2>1, CardinalityStep
  <2> QED
    BY <2>2 DEF A, B
<1>5. /\ Cardinality(Granted) \in Nat
      /\ w \in Granted' /\ w \notin Granted => Cardinality(Granted') = Cardinality(Granted) + 1
      /\ w \notin Granted' /\ w \in Granted => Cardinality(Granted') = Cardinality(Granted) - 1
      /\ (w \in Granted <=> w \in Granted') => Granted = Granted'
  <2> DEFINE A == Granted
             B == Granted'
  <2>1. IsFiniteSet(Waiters) /\ A \in SUBSET Waiters /\ B \in SUBSET Waiters /\ A \ {w} = B \ {w}
    BY <1>2, CapsAssumption
  <2> HIDE DEF A, B
  <2>2. /\ Cardinality(A) \in Nat
        /\ w \in B /\ w \notin A => Cardinality(B) = Cardinality(A) + 1
        /\ w \notin B /\ w \in A => Cardinality(B) = Cardinality(A) - 1
        /\ (w \in A <=> w \in B) => A = B
    BY <2>1, CardinalityStep
  <2> QED
    BY <2>2 DEF A, B
<1>6. place \notin Reserved \ {"refund"} => Cardinality(Granted') <= Cardinality(Granted)
  BY <1>3, <1>5
<1> QED
  BY <1>1, <1>3, <1>4, <1>5, <1>6

\* The guards on a slot change by the waiter that moves, and on no other slot.
LEMMA GuardsMove ==
    ASSUME WInv, NEW w \in Waiters, NEW place, wpc' = [wpc EXCEPT ![w] = place],
           \A v \in Waiters \ {w} : held'[v] = held[v], NEW s \in Waiters
    PROVE  /\ Cardinality(GuardsOn(s)) \in Nat
           /\ wpc[w] \notin Counted /\ place \in Counted /\ held'[w] = s =>
                Cardinality(GuardsOn(s)') = Cardinality(GuardsOn(s)) + 1
           /\ wpc[w] \in Counted /\ held[w] = s /\ place \notin Counted =>
                Cardinality(GuardsOn(s)') = Cardinality(GuardsOn(s)) - 1
           /\ (wpc[w] \in Counted /\ held[w] = s <=> place \in Counted /\ held'[w] = s) =>
                GuardsOn(s)' = GuardsOn(s)
<1>1. wpc'[w] = place /\ \A v \in Waiters \ {w} : wpc'[v] = wpc[v]
  BY DEF WInv, WatcherTypeOK
<1> DEFINE A == GuardsOn(s)
           B == GuardsOn(s)'
<1>2. /\ w \in A <=> wpc[w] \in Counted /\ held[w] = s
      /\ w \in B <=> place \in Counted /\ held'[w] = s
  BY <1>1 DEF GuardsOn
<1>4. IsFiniteSet(Waiters) /\ A \in SUBSET Waiters /\ B \in SUBSET Waiters /\ A \ {w} = B \ {w}
  BY <1>1, CapsAssumption DEF GuardsOn
<1> HIDE DEF A, B
<1>3. /\ Cardinality(A) \in Nat
      /\ w \in B /\ w \notin A => Cardinality(B) = Cardinality(A) + 1
      /\ w \notin B /\ w \in A => Cardinality(B) = Cardinality(A) - 1
      /\ (w \in A <=> w \in B) => A = B
  <2>1. A \in SUBSET Waiters /\ B \in SUBSET Waiters /\ A \ {w} = B \ {w}
    BY <1>4
  <2> QED
    BY <2>1, WaitersStep
<1> QED
  BY <1>2, <1>3 DEF A, B

\* A step of a request that counts nothing.
LEMMA NothingCounted ==
    ASSUME WInv, NEW w \in Waiters, NEW place, wpc' = [wpc EXCEPT ![w] = place],
           \A v \in Waiters \ {w} : held'[v] = held[v],
           UNCHANGED <<count, global>>,
           place \in Reserved <=> wpc[w] \in Reserved,
           place \in Reserved \ {"refund"} <=> wpc[w] \in Reserved \ {"refund"},
           place \in Counted <=> wpc[w] \in Counted,
           wpc[w] \in Counted => held'[w] = held[w]
    PROVE  Counts'
<1>1. ReservedNow' = ReservedNow /\ Granted' = Granted
  BY OneMoves
<1>2. \A s \in Waiters : GuardsOn(s)' = GuardsOn(s)
  BY GuardsMove
<1> QED
  BY <1>1, <1>2 DEF WInv, Counts

\* A step of a request on one of the counters.
LEMMA GuardsKept ==
    ASSUME WInv, NEW w \in Waiters, NEW place, wpc' = [wpc EXCEPT ![w] = place],
           held' = held, place \in Counted <=> wpc[w] \in Counted, count' = count
    PROVE  \A s \in Waiters : count'[s] = Cardinality(GuardsOn(s)')
<1>1. \A s \in Waiters : GuardsOn(s)' = GuardsOn(s)
  BY GuardsMove
<1> QED
  BY <1>1 DEF WInv, Counts

Names == Reserved \cup {"start", "sweep", "remove", "gone"}

\* Every step of a waiter keeps the counters exact.
LEMMA WatcherStepWInv ==
    ASSUME WInv, NEW w \in Waiters,
           WatcherStep(w) \/ \E resolved, unpublished \in BOOLEAN : Check(w, resolved, unpublished)
    PROVE  WInv'
<1>0. /\ wpc \in [Waiters -> Names] /\ held \in [Waiters -> Waiters \cup {NoSlot}]
      /\ notified \in [Waiters -> BOOLEAN] /\ slot \in Waiters \cup {NoSlot}
      /\ count \in [Waiters -> Int] /\ global \in Int /\ raced \in SUBSET Waiters
  BY DEF WInv, WatcherTypeOK, Names
<1>1. ASSUME NEW place \in Names, wpc' = [wpc EXCEPT ![w] = place],
             held' \in [Waiters -> Waiters \cup {NoSlot}], notified' \in [Waiters -> BOOLEAN],
             slot' \in Waiters \cup {NoSlot}, count' \in [Waiters -> Int], global' \in Int,
             raced' \in SUBSET Waiters,
             \A v \in Waiters \ {w} : held'[v] = held[v],
             place \in Counted \cup {"held"} => held'[w] \in Waiters,
             Counts'
      PROVE  WInv'
  <2>1. WatcherTypeOK'
    BY <1>0, <1>1 DEF WatcherTypeOK, Names
  <2>2. wpc'[w] = place /\ \A v \in Waiters \ {w} : wpc'[v] = wpc[v]
    BY <1>0, <1>1
  <2>3. HasSlot'
    BY <1>1, <2>2 DEF WInv, HasSlot
  <2> QED
    BY <1>1, <2>1, <2>3 DEF WInv
<1>2. wpc[w] \in Counted \cup {"held"} => held[w] \in Waiters
  BY DEF WInv, HasSlot
<1>3. global = Cardinality(ReservedNow) /\ Cardinality(Granted) <= GlobalCap
      /\ \A s \in Waiters : count[s] = Cardinality(GuardsOn(s))
  BY DEF WInv, Counts
<1>4. Cardinality(ReservedNow) \in Nat /\ Cardinality(Granted) \in Nat /\ Cardinality(Granted) <= Cardinality(ReservedNow)
  <2> DEFINE A == Granted
             B == ReservedNow
  <2>1. IsFiniteSet(B) /\ A \in SUBSET B
    <3>1. B \in SUBSET Waiters /\ A \in SUBSET B
      BY DEF Granted, ReservedNow
    <3> QED
      BY <3>1, CapsAssumption, FS_Subset
  <2> HIDE DEF A, B
  <2>2. IsFiniteSet(A) /\ Cardinality(A) <= Cardinality(B)
    BY <2>1, FS_Subset
  <2>3. Cardinality(A) \in Nat /\ Cardinality(B) \in Nat
    BY <2>1, <2>2, FS_CardinalityType
  <2> QED
    BY <2>2, <2>3 DEF A, B
<1>5. CASE Reserve(w)
  <2>1. /\ wpc[w] = "start" /\ global' = global + 1 /\ UNCHANGED <<held, notified, slot, count, raced>>
        /\ wpc' = [wpc EXCEPT ![w] = IF global >= GlobalCap THEN "refund" ELSE "reserved"]
    BY <1>5 DEF Reserve
  <2>4. global' \in Int
    BY <1>0, <2>1
  <2>2. CASE global >= GlobalCap
    <3>1. wpc' = [wpc EXCEPT ![w] = "refund"] /\ "refund" \in Names
      BY <2>1, <2>2 DEF Names, Reserved
    <3>2. "refund" \in Reserved /\ wpc[w] \notin Reserved /\ "refund" \notin Counted /\ wpc[w] \notin Counted
      BY <2>1 DEF Reserved, Counted
    <3>3. Cardinality(ReservedNow') = Cardinality(ReservedNow) + 1
      BY <2>1, <3>1, <3>2, OneMoves
    <3>5. Granted' = Granted
      <4>1. "refund" \in Reserved \ {"refund"} <=> wpc[w] \in Reserved \ {"refund"}
        BY <3>2
      <4> QED
        BY <2>1, <3>1, <4>1, OneMoves
    <3>6. \A s \in Waiters : count'[s] = Cardinality(GuardsOn(s)')
      BY <2>1, <3>1, <3>2, GuardsKept
    <3>7. Counts'
      BY <1>3, <2>1, <3>3, <3>5, <3>6 DEF Counts
    <3> QED
      BY <1>0, <1>1, <2>1, <2>4, <3>1, <3>2, <3>7
  <2>3. CASE ~(global >= GlobalCap)
    <3>1. wpc' = [wpc EXCEPT ![w] = "reserved"] /\ "reserved" \in Names
      BY <2>1, <2>3 DEF Names, Reserved
    <3>2. /\ "reserved" \in Reserved \ {"refund"} /\ wpc[w] \notin Reserved
          /\ "reserved" \notin Counted \cup {"held"} /\ wpc[w] \notin Counted
      BY <2>1 DEF Reserved, Counted
    <3>3. /\ Cardinality(ReservedNow') = Cardinality(ReservedNow) + 1
          /\ Cardinality(Granted') = Cardinality(Granted) + 1
      BY <2>1, <3>1, <3>2, OneMoves
    <3>4. Cardinality(Granted') <= GlobalCap
      BY <1>3, <1>4, <2>3, <3>3, CapsAssumption
    <3>5. \A s \in Waiters : count'[s] = Cardinality(GuardsOn(s)')
      BY <2>1, <3>1, <3>2, GuardsKept
    <3>6. Counts'
      BY <1>3, <2>1, <3>3, <3>4, <3>5 DEF Counts
    <3> QED
      BY <1>0, <1>1, <2>1, <2>4, <3>1, <3>2, <3>6
  <2> QED
    BY <2>2, <2>3
<1>6. CASE GetSlot(w)
  <2>1. /\ wpc[w] = "reserved" /\ wpc' = [wpc EXCEPT ![w] = "held"] /\ UNCHANGED <<notified, count, global, raced>>
        /\ slot' = IF slot = NoSlot THEN w ELSE slot
        /\ held' = [held EXCEPT ![w] = slot']
    BY <1>6 DEF GetSlot
  <2>2. /\ slot' \in Waiters /\ held' \in [Waiters -> Waiters \cup {NoSlot}] /\ held'[w] = slot'
        /\ \A v \in Waiters \ {w} : held'[v] = held[v]
    BY <1>0, <2>1
  <2>3. /\ "held" \in Reserved \ {"refund"} /\ wpc[w] \in Reserved \ {"refund"} /\ "held" \in Names
        /\ "held" \notin Counted /\ wpc[w] \notin Counted
    BY <2>1 DEF Reserved, Counted, Names
  <2>4. Counts'
    BY <2>1, <2>2, <2>3, NothingCounted
  <2> QED
    BY <1>0, <1>1, <2>1, <2>2, <2>3, <2>4
\* The request enters or leaves the count of its slot.
<1>7. ASSUME NEW place \in Names, wpc' = [wpc EXCEPT ![w] = place], held' = held, held[w] \in Waiters,
             UNCHANGED <<notified, slot, global, raced>>,
             wpc[w] \in Reserved \ {"refund"}, place \in Reserved,
             \/ /\ wpc[w] \notin Counted /\ place \in Counted
                /\ count' = [count EXCEPT ![held[w]] = @ + 1]
             \/ /\ wpc[w] \in Counted /\ place \notin Counted \cup {"held"}
                /\ count' = [count EXCEPT ![held[w]] = @ - 1]
      PROVE  WInv'
  <2>1. ReservedNow' = ReservedNow
    BY <1>7, OneMoves
  <2>2. Cardinality(Granted') <= Cardinality(Granted)
    <3>1. CASE place = "refund"
      BY <1>7, <3>1, OneMoves
    <3>2. CASE place # "refund"
      <4>1. Granted' = Granted
        BY <1>7, <3>2, OneMoves
      <4> QED
        BY <1>4, <4>1
    <3> QED
      BY <3>1, <3>2
  <2>3. Cardinality(Granted') <= GlobalCap
    <3>1. Cardinality(Granted') \in Nat
      <4> DEFINE A == Granted'
      <4>1. A \in SUBSET Waiters
        BY DEF Granted
      <4> HIDE DEF A
      <4>2. Cardinality(A) \in Nat
        BY <4>1, CapsAssumption, FS_Subset, FS_CardinalityType
      <4> QED
        BY <4>2 DEF A
    <3> QED
      BY <1>3, <1>4, <2>2, <3>1, CapsAssumption
  <2>4. ASSUME NEW s \in Waiters PROVE count'[s] = Cardinality(GuardsOn(s)')
    <3>1. CASE s = held[w]
      <4>1. /\ wpc[w] \notin Counted /\ place \in Counted => Cardinality(GuardsOn(s)') = Cardinality(GuardsOn(s)) + 1
            /\ wpc[w] \in Counted /\ place \notin Counted => Cardinality(GuardsOn(s)') = Cardinality(GuardsOn(s)) - 1
        BY <1>7, <3>1, GuardsMove
      <4>2. count'[s] = count[s] + 1 \/ count'[s] = count[s] - 1
        BY <1>0, <1>7, <3>1
      <4>3. /\ wpc[w] \notin Counted => count'[s] = count[s] + 1
            /\ wpc[w] \in Counted => count'[s] = count[s] - 1
        BY <1>0, <1>7, <3>1
      <4> QED
        BY <1>3, <1>7, <4>1, <4>3
    <3>2. CASE s # held[w]
      <4>1. GuardsOn(s)' = GuardsOn(s)
        BY <1>7, <3>2, GuardsMove
      <4>2. count'[s] = count[s]
        BY <1>0, <1>7, <3>2
      <4> QED
        BY <1>3, <4>1, <4>2
    <3> QED
      BY <3>1, <3>2
  <2>5. Counts'
    BY <1>3, <1>7, <2>1, <2>3, <2>4 DEF Counts
  <2>6. count' \in [Waiters -> Int]
    BY <1>0, <1>7
  <2> QED
    BY <1>0, <1>1, <1>7, <2>5, <2>6
<1>8. CASE Count(w)
  <2>1. wpc[w] = "held" /\ held[w] \in Waiters
    BY <1>2, <1>8 DEF Count
  <2>2. /\ wpc[w] \in Reserved \ {"refund"} /\ wpc[w] \notin Counted
        /\ {"uncount", "waiting"} \subseteq Counted \cap Reserved \cap Names
    BY <2>1 DEF Reserved, Counted, Names
  <2>3. \E place \in {"uncount", "waiting"} : wpc' = [wpc EXCEPT ![w] = place]
    BY <1>8 DEF Count
  <2>4. PICK place \in {"uncount", "waiting"} : wpc' = [wpc EXCEPT ![w] = place]
    BY <2>3
  <2> QED
    BY <1>7, <1>8, <2>1, <2>2, <2>4 DEF Count
<1>9. CASE Uncount(w) \/ Leave(w)
  <2>1. /\ wpc[w] \in {"uncount", "leaving"}
        /\ count' = [count EXCEPT ![held[w]] = @ - 1]
        /\ \E place \in {"refund", "left"} : wpc' = [wpc EXCEPT ![w] = place]
        /\ UNCHANGED <<held, notified, slot, global, raced>>
    BY <1>9 DEF Uncount, Leave
  <2>2. /\ wpc[w] \in Reserved \ {"refund"} /\ wpc[w] \in Counted /\ held[w] \in Waiters
        /\ {"refund", "left"} \subseteq Reserved \cap Names /\ "refund" \notin Counted \cup {"held"}
        /\ "left" \notin Counted \cup {"held"}
    BY <1>2, <2>1 DEF Reserved, Counted, Names
  <2>3. PICK place \in {"refund", "left"} : wpc' = [wpc EXCEPT ![w] = place]
    BY <2>1
  <2> QED
    BY <1>7, <2>1, <2>2, <2>3
\* The request gives back its share of the global cap.
<1>10. CASE Refund(w) \/ LeaveGlobal(w)
  <2>1. /\ wpc[w] \in {"refund", "left"} /\ global' = global - 1
        /\ \E place \in {"gone", "sweep"} : wpc' = [wpc EXCEPT ![w] = place]
        /\ UNCHANGED <<held, notified, slot, count, raced>>
    BY <1>10 DEF Refund, LeaveGlobal
  <2>2. PICK place \in {"gone", "sweep"} : wpc' = [wpc EXCEPT ![w] = place]
    BY <2>1
  <2>3. /\ wpc[w] \in Reserved /\ place \notin Reserved /\ place \in Names
        /\ wpc[w] \notin Counted /\ place \notin Counted \cup {"held"}
    BY <2>1 DEF Reserved, Counted, Names
  <2>4. Cardinality(ReservedNow') = Cardinality(ReservedNow) - 1 /\ Cardinality(Granted') <= Cardinality(Granted)
    BY <2>1, <2>2, <2>3, OneMoves
  <2>5. Cardinality(Granted') \in Nat
    <3> DEFINE A == Granted'
    <3>1. A \in SUBSET Waiters
      BY DEF Granted
    <3> HIDE DEF A
    <3>2. Cardinality(A) \in Nat
      BY <3>1, CapsAssumption, FS_Subset, FS_CardinalityType
    <3> QED
      BY <3>2 DEF A
  <2>6. Cardinality(Granted') <= GlobalCap
    BY <1>3, <1>4, <2>4, <2>5, CapsAssumption
  <2>7. \A s \in Waiters : count'[s] = Cardinality(GuardsOn(s)')
    BY <2>1, <2>2, <2>3, GuardsKept
  <2>8. Counts'
    BY <1>3, <2>1, <2>4, <2>6, <2>7 DEF Counts
  <2> QED
    <3>1. global' \in Int
      BY <1>0, <2>1
    <3> QED
      BY <1>0, <1>1, <2>1, <2>2, <2>3, <2>8, <3>1
<1>11. CASE Arm(w) \/ Wake(w) \/ TimeOut(w) \/ \E resolved, unpublished \in BOOLEAN : Check(w, resolved, unpublished)
  <2>1. /\ wpc[w] \in {"waiting", "armed", "parked"}
        /\ \E place \in {"waiting", "armed", "parked", "leaving"} : wpc' = [wpc EXCEPT ![w] = place]
        /\ notified' = notified \/ notified' = [notified EXCEPT ![w] = FALSE]
        /\ raced' \in {raced, raced \cup {w}, raced \ {w}}
        /\ UNCHANGED <<held, slot, count, global>>
    BY <1>11 DEF Arm, Wake, TimeOut, Check
  <2>2. PICK place \in {"waiting", "armed", "parked", "leaving"} : wpc' = [wpc EXCEPT ![w] = place]
    BY <2>1
  <2>3. /\ wpc[w] \in Reserved \ {"refund"} /\ place \in Reserved \ {"refund"} /\ place \in Names
        /\ wpc[w] \in Counted /\ place \in Counted /\ held[w] \in Waiters
    BY <1>2, <2>1 DEF Reserved, Counted, Names
  <2>4. Counts'
    BY <2>1, <2>2, <2>3, NothingCounted
  <2>5. notified' \in [Waiters -> BOOLEAN] /\ raced' \in SUBSET Waiters
    BY <1>0, <2>1
  <2> QED
    BY <1>0, <1>1, <2>1, <2>2, <2>3, <2>4, <2>5
<1>12. CASE SeeEmpty(w) \/ Sweep(w)
  <2>1. /\ wpc[w] \in {"sweep", "remove"} /\ \E place \in {"remove", "gone"} : wpc' = [wpc EXCEPT ![w] = place]
        /\ UNCHANGED <<held, notified, count, global, raced>> /\ slot' \in {NoSlot, slot}
    BY <1>12 DEF SeeEmpty, Sweep
  <2>2. PICK place \in {"remove", "gone"} : wpc' = [wpc EXCEPT ![w] = place]
    BY <2>1
  <2>3. /\ wpc[w] \notin Reserved /\ place \notin Reserved /\ place \in Names
        /\ wpc[w] \notin Counted /\ place \notin Counted \cup {"held"}
    BY <2>1 DEF Reserved, Counted, Names
  <2>4. Counts'
    BY <2>1, <2>2, <2>3, NothingCounted
  <2> QED
    BY <1>0, <1>1, <2>1, <2>2, <2>3, <2>4
<1> QED
  BY <1>5, <1>6, <1>8, <1>9, <1>10, <1>11, <1>12 DEF WatcherStep

-----------------------------------------------------------------------------
\* Every step of the system does.
LEMMA NextWInv == WInv /\ [Next]_vars => WInv'
<1> SUFFICES ASSUME WInv, [Next]_vars PROVE WInv'
  OBVIOUS
<1>1. ASSUME NEW w \in Waiters, WaiterStep(w) PROVE WInv'
  <2>1. /\ (w \in FinalReaders /\ writer.pc = "applied") \in BOOLEAN /\ Resolved(w) \in BOOLEAN
    BY DEF Resolved
  <2>2. WatcherStep(w) \/ Check(w, Resolved(w), w \in FinalReaders /\ writer.pc = "applied")
    BY <1>1 DEF WaiterStep
  <2>3. WatcherStep(w) \/ \E resolved, unpublished \in BOOLEAN : Check(w, resolved, unpublished)
    BY <2>1, <2>2
  <2> QED
    BY <2>3, WatcherStepWInv
\* Frames wake waiters and count nothing.
<1>2. ASSUME UNCHANGED <<wpc, held, slot, count, global, raced>>, NotifySlot \/ UNCHANGED notified
      PROVE  WInv'
  <2>1. WatcherTypeOK'
    BY <1>2 DEF WInv, WatcherTypeOK, NotifySlot
  <2>2. ReservedNow' = ReservedNow /\ Granted' = Granted /\ \A s : GuardsOn(s)' = GuardsOn(s)
    BY <1>2 DEF ReservedNow, Granted, GuardsOn
  <2>3. Counts'
    BY <1>2, <2>2 DEF WInv, Counts
  <2>4. HasSlot'
    BY <1>2 DEF WInv, HasSlot
  <2> QED
    BY <2>1, <2>3, <2>4 DEF WInv
<1>3. ASSUME NEW E, Apply(E) PROVE WInv'
  BY <1>2, <1>3 DEF Apply
<1>4. ASSUME NEW E, Discard(E) PROVE WInv'
  BY <1>2, <1>4 DEF Discard, watcherVars
<1>5. CASE CommitBuild
  BY <1>3, <1>4, <1>5 DEF CommitBuild
<1>6. ASSUME NEW E \in SUBSET Txs, NEW match \in BOOLEAN, FollowCf(E, match) PROVE WInv'
  BY <1>3, <1>4, <1>6 DEF FollowCf
<1>7. ASSUME NEW t \in Txs, \/ LoadView(t) \/ Submit(t) \/ Stage(t) \/ Redeliver(t)
                            \/ \E ok \in BOOLEAN : Execute(t, ok)
      PROVE  WInv'
  BY <1>2, <1>7 DEF LoadView, Submit, Stage, Redeliver, Execute, watcherVars
<1>8. CASE \/ \E F \in SUBSET Txs : PrepareBuild(F) \/ DropBuild
           \/ CommitFails \/ PublishSnapshot \/ IngestOutcomes \/ Finish \/ UNCHANGED vars
  <2>1. UNCHANGED watcherVars
    BY <1>8 DEF PrepareBuild, DropBuild, CommitFails, PublishSnapshot, IngestOutcomes, Finish, vars
  <2> QED
    BY <1>2, <2>1 DEF watcherVars
<1> QED
  BY <1>1, <1>5, <1>6, <1>7, <1>8 DEF Next

\* The global count is the number of requests between their fetch_add and
\* fetch_sub, the count of a slot the number of guards on it, and no more
\* requests wait than the global cap allows: for any number of requests, any
\* caps, any interleaving of register, Drop and the writer.
THEOREM CountersExactHolds == Spec => []CountersExact
<1>1. Init => WInv
  BY InitWInv
<1>2. WInv /\ [Next]_vars => WInv'
  BY NextWInv
<1>3. WInv => CountersExact
  <2> SUFFICES ASSUME WInv PROVE CountersExact
    OBVIOUS
  <2> DEFINE A == {w \in Waiters : wpc[w] \in {"waiting", "armed", "parked"}}
             B == Granted
  <2>1. IsFiniteSet(B) /\ A \in SUBSET B
    <3>1. B \in SUBSET Waiters /\ A \in SUBSET B
      BY DEF Granted, Reserved
    <3> QED
      BY <3>1, CapsAssumption, FS_Subset
  <2> HIDE DEF A, B
  <2>2. IsFiniteSet(A) /\ Cardinality(A) <= Cardinality(B)
    BY <2>1, FS_Subset
  <2>3. Cardinality(A) \in Nat /\ Cardinality(B) \in Nat
    BY <2>1, <2>2, FS_CardinalityType
  <2>4. Cardinality(A) <= GlobalCap
    BY <2>2, <2>3, CapsAssumption DEF WInv, Counts, B
  <2> QED
    BY <2>4 DEF WInv, Counts, CountersExact, A, ReservedNow, GuardsOn
<1> QED
  BY <1>1, <1>2, <1>3, PTL DEF Spec

-----------------------------------------------------------------------------
(* The owner index.                                                        *)

Vals == Values \cup {None}

\* The index of the live objects of a store under their owners.
IndexFor(store) == {<<OwnerOf[store[k]], k>> : k \in {j \in Keys : store[j] # None}}

\* The types of this module are those of the lemmas about StateStore.
LEMMA OverVals == Stores = StoresOver(Vals) /\ Results = ResultsOver(Vals) /\ Changes = ChangesOver(Vals)
  BY DEF Stores, StoresOver, Results, ResultsOver, Changes, ChangesOver, Vals

\* One change at key k takes the pair of its old value out of the index and
\* puts the pair of the new one in.
LEMMA IndexStep ==
    ASSUME NEW old \in Stores, NEW new \in Stores, NEW k \in Keys,
           \A j \in Keys \ {k} : new[j] = old[j]
    PROVE  LET less == IF old[k] = None THEN IndexFor(old)
                       ELSE IndexFor(old) \ {<<OwnerOf[old[k]], k>>}
           IN  IndexFor(new) = IF new[k] = None THEN less ELSE less \cup {<<OwnerOf[new[k]], k>>}
  BY DEF IndexFor

\* Maintaining the index change by change gives the index of the new store: an
\* applied event states each old value truly.
LEMMA IndexAfterExact ==
    ASSUME NEW store \in Stores, NEW r \in Results
    PROVE  IndexAfter(IndexFor(store), store, r) = IndexFor(ApplyOne(store, r))
<1>1. CASE Verdict(store, r) # "applied"
  BY <1>1 DEF IndexAfter, ApplyOne
<1>2. CASE Verdict(store, r) = "applied"
  <2> DEFINE N == Len(r.changes)
             sh(n) == [k \in Keys |-> Shadow(store, r.changes, n, k)]
             old(n) == IF r.changes[n].old = None /\ r.changes[n].new = None
                       THEN Shadow(store, r.changes, n - 1, r.changes[n].key) ELSE r.changes[n].old
             less(x, n) == IF old(n) = None THEN x ELSE x \ {<<OwnerOf[old(n)], r.changes[n].key>>}
             turn(x, n) == IF r.changes[n].new = None THEN less(x, n)
                           ELSE less(x, n) \cup {<<OwnerOf[r.changes[n].new], r.changes[n].key>>}
             Body(f) == [n \in 0 .. N |-> IF n = 0 THEN IndexFor(store) ELSE turn(f[n - 1], n)]
             at == CHOOSE f : f = Body(f)
  <2>1. /\ N \in Nat /\ DOMAIN r.changes = 1 .. N /\ r.changes \in Seq(Changes)
        /\ \A n \in 1 .. N : r.changes[n] \in Changes
    BY DEF Results
  <2>2. \A n \in 1 .. N : ~Conflict(store, r.changes, n)
    BY <1>2, <2>1 DEF Verdict, Stale, Results
  <2>3. \A n \in 0 .. N : sh(n) \in Stores
    <3>1. ASSUME NEW n \in 0 .. N, NEW k \in Keys PROVE Shadow(store, r.changes, n, k) \in Vals
      BY <2>1, ShadowValues, OverVals
    <3> QED
      BY <3>1 DEF Stores, Vals
  <2>4. sh(0) = store
    <3>1. \A k \in Keys : Shadow(store, r.changes, 0, k) = store[k]
      BY <2>1, ShadowValues, OverVals
    <3> QED
      BY <3>1 DEF Stores
  <2>5. ASSUME NEW n \in 1 .. N PROVE turn(IndexFor(sh(n - 1)), n) = IndexFor(sh(n))
    <3> DEFINE c == r.changes[n]
    <3>1. n \in Nat \ {0} /\ n - 1 \in 0 .. N /\ n \in 0 .. N /\ c \in Changes /\ c.key \in Keys
      BY <2>1 DEF Changes
    <3>2. \A k \in Keys : sh(n)[k] = IF c.key = k THEN c.new ELSE sh(n - 1)[k]
      BY <3>1, ShadowStep
    <3>3. old(n) = sh(n - 1)[c.key]
      BY <2>2, <3>1 DEF Conflict
    <3>4. sh(n) \in Stores /\ sh(n - 1) \in Stores
      BY <2>3, <3>1
    <3> HIDE DEF sh, old
    <3> QED
      BY <3>1, <3>2, <3>3, <3>4, IndexStep
  <2> HIDE DEF turn, sh
  <2>6. at = Body(at)
    <3> DEFINE f == [n \in 0 .. N |-> IndexFor(sh(n))]
    <3>1. ASSUME NEW n \in 0 .. N PROVE f[n] = IF n = 0 THEN IndexFor(store) ELSE turn(f[n - 1], n)
      <4>1. CASE n = 0
        BY <2>4, <4>1
      <4>2. CASE n # 0
        <5>1. n \in 1 .. N /\ n - 1 \in 0 .. N
          BY <2>1, <4>2
        <5> QED
          BY <2>5, <4>2, <5>1
      <4> QED
        BY <4>1, <4>2
    <3>2. f = Body(f)
      BY <3>1
    <3> HIDE DEF f, Body
    <3> QED
      BY <3>2, Zenon
  <2> HIDE DEF at, N
  <2>7. at[0] = IndexFor(store) /\ \A n \in 1 .. N : at[n] = turn(at[n - 1], n)
    <3>1. 0 \in 0 .. N /\ \A n \in 1 .. N : n \in 0 .. N /\ n # 0
      BY <2>1
    <3> QED
      BY <2>6, <3>1
  <2>8. at[N] = IndexFor(sh(N))
    <3> DEFINE G == {n \in 0 .. N : at[n] = IndexFor(sh(n))}
    <3>1. 0 \in G
      BY <2>1, <2>4, <2>7
    <3>2. ASSUME NEW n \in 0 .. N - 1, n \in G PROVE n + 1 \in G
      <4>1. n + 1 \in 1 .. N /\ n + 1 \in 0 .. N /\ (n + 1) - 1 = n
        BY <2>1
      <4> QED
        BY <2>5, <2>7, <3>2, <4>1
    <3> HIDE DEF G
    <3>3. \A n \in 0 .. N : n \in G
      BY <2>1, <3>1, <3>2, BoundedInduction
    <3> QED
      BY <2>1, <3>3 DEF G
  <2>9. IndexAfter(IndexFor(store), store, r) = at[N]
    BY <1>2 DEF IndexAfter, at, turn, N
  <2>10. ApplyOne(store, r) = sh(N)
    BY <1>2 DEF ApplyOne, Written, sh, N
  <2> QED
    BY <2>8, <2>9, <2>10
<1> QED
  BY <1>1, <1>2

\* The same for a frame.
LEMMA IndexOfExact ==
    ASSUME NEW store \in Stores, NEW E \in SUBSET Txs, \A t \in E : result[t] \in Results
    PROVE  IndexOf(IndexFor(store), store, E) = IndexFor(ApplyCommittedEvents(store, E, result))
<1> DEFINE es == Sorted(E)
           N == Cardinality(E)
           stores == StoresOf(store, es, result)
           turn(x, n) == IndexAfter(x, stores[n - 1], result[es[n]])
           Body(f) == [n \in 0 .. Len(es) |-> IF n = 0 THEN IndexFor(store) ELSE turn(f[n - 1], n)]
           at == CHOOSE f : f = Body(f)
<1>1. N \in Nat /\ es \in [1 .. N -> E] /\ Len(es) = N
  BY SortedIs
<1>2. /\ stores[0] = store
      /\ \A n \in 1 .. N : stores[n] = ApplyOne(stores[n - 1], result[es[n]])
      /\ \A n \in 0 .. N : stores[n] \in Stores
  BY StoresChain, OverVals
<1> HIDE DEF stores, es, N
<1>3. ASSUME NEW n \in 1 .. N PROVE turn(IndexFor(stores[n - 1]), n) = IndexFor(stores[n])
  <2>1. n - 1 \in 0 .. N /\ result[es[n]] \in Results
    BY <1>1
  <2> QED
    BY <1>2, <2>1, IndexAfterExact
<1> HIDE DEF turn
<1>4. at = Body(at)
  <2> DEFINE f == [n \in 0 .. N |-> IndexFor(stores[n])]
  <2>1. ASSUME NEW n \in 0 .. N PROVE f[n] = IF n = 0 THEN IndexFor(store) ELSE turn(f[n - 1], n)
    <3>1. CASE n = 0
      BY <1>2, <3>1
    <3>2. CASE n # 0
      <4>1. n \in 1 .. N /\ n - 1 \in 0 .. N
        BY <1>1, <3>2
      <4> QED
        BY <1>3, <3>2, <4>1
    <3> QED
      BY <3>1, <3>2
  <2>2. f = Body(f)
    BY <1>1, <2>1
  <2> HIDE DEF f, Body
  <2> QED
    BY <2>2, Zenon
<1> HIDE DEF at
<1>5. at[0] = IndexFor(store) /\ \A n \in 1 .. N : at[n] = turn(at[n - 1], n)
  <2>1. 0 \in 0 .. Len(es) /\ \A n \in 1 .. N : n \in 0 .. Len(es) /\ n # 0
    BY <1>1
  <2> QED
    BY <1>4, <2>1
<1>6. at[N] = IndexFor(stores[N])
  <2> DEFINE G == {n \in 0 .. N : at[n] = IndexFor(stores[n])}
  <2>1. 0 \in G
    BY <1>1, <1>2, <1>5
  <2>2. ASSUME NEW n \in 0 .. N - 1, n \in G PROVE n + 1 \in G
    <3>1. n + 1 \in 1 .. N /\ n + 1 \in 0 .. N /\ (n + 1) - 1 = n
      BY <1>1
    <3> QED
      BY <1>3, <1>5, <2>2, <3>1
  <2> HIDE DEF G
  <2>3. \A n \in 0 .. N : n \in G
    BY <1>1, <2>1, <2>2, BoundedInduction
  <2> QED
    BY <1>1, <2>3 DEF G
<1>7. IndexOf(IndexFor(store), store, E) = at[N]
  BY <1>1 DEF IndexOf, at, turn, stores, es
<1>8. ApplyCommittedEvents(store, E, result) = stores[N]
  BY DEF ApplyCommittedEvents, stores, es, N
<1> QED
  BY <1>6, <1>7, <1>8

-----------------------------------------------------------------------------
(* Clearing the overlay.                                                   *)

\* One entry more.
LEMMA AppendIs ==
    ASSUME NEW X, NEW p \in Seq(X), NEW e \in X
    PROVE  /\ Append(p, e) \in Seq(X) /\ Len(p) \in Nat
           /\ Len(Append(p, e)) = Len(p) + 1 /\ Append(p, e)[Len(p) + 1] = e
           /\ \A j \in 1 .. Len(p) : Append(p, e)[j] = p[j]
  OBVIOUS

\* part is what is left of the first n entries of whole without those of E; idx
\* says where each entry came from.
Kept(part, whole, n, E, idx) ==
    /\ idx \in [1 .. Len(part) -> 1 .. n]
    /\ \A i, j \in 1 .. Len(part) : i < j => idx[i] < idx[j]
    /\ \A j \in 1 .. Len(part) : part[j] = whole[idx[j]] /\ whole[idx[j]].tx \notin E
    /\ \A i \in 1 .. n : whole[i].tx \notin E => \E j \in 1 .. Len(part) : idx[j] = i

\* Clearing leaves the entries of the other events in their order.
LEMMA ClearedIs ==
    ASSUME NEW X, overlay \in Seq(X), NEW E
    PROVE  /\ Cleared(E) \in Seq(X)
           /\ \E idx : Kept(Cleared(E), overlay, Len(overlay), E, idx)
<1> DEFINE N == Len(overlay)
           turn(x, n) == IF overlay[n].tx \in E THEN x ELSE Append(x, overlay[n])
           step == [n \in 1 .. N |-> [x \in Seq(X) |-> turn(x, n)]]
           Body(f) == [n \in 0 .. N |-> IF n = 0 THEN << >> ELSE turn(f[n - 1], n)]
           kept == CHOOSE f : f = Body(f)
<1>1. N \in Nat /\ \A n \in 1 .. N : overlay[n] \in X
  OBVIOUS
<1>2. << >> \in Seq(X)
  OBVIOUS
<1>3. ASSUME NEW n \in 1 .. N, NEW x \in Seq(X) PROVE turn(x, n) \in Seq(X)
  BY <1>1
<1> HIDE DEF turn
<1>4. step \in [1 .. N -> [Seq(X) -> Seq(X)]] /\ \A n \in 1 .. N, x \in Seq(X) : step[n][x] = turn(x, n)
  BY <1>3
<1> HIDE DEF step, N
<1>5. PICK f \in [0 .. N -> Seq(X)] : Iterates(f, N, << >>, step)
  BY <1>1, <1>2, <1>4, Recursion
<1>6. f = Body(f)
  <2>1. \A n \in 1 .. N : f[n - 1] \in Seq(X)
    BY <1>1, <1>5
  <2>2. \A n \in 1 .. N : f[n] = turn(f[n - 1], n)
    BY <1>4, <1>5, <2>1 DEF Iterates
  <2>3. ASSUME NEW n \in 0 .. N PROVE f[n] = IF n = 0 THEN << >> ELSE turn(f[n - 1], n)
    <3>1. n # 0 => n \in 1 .. N
      BY <1>1
    <3> QED
      BY <1>5, <2>2, <3>1 DEF Iterates
  <2> QED
    BY <1>5, <2>3
<1>7. kept = Body(kept)
  <2> HIDE DEF Body
  <2> QED
    BY <1>6, Zenon
<1> HIDE DEF kept
<1>8. kept[0] = << >> /\ \A n \in 1 .. N : kept[n] = turn(kept[n - 1], n)
  <2>1. 0 \in 0 .. N /\ \A n \in 1 .. N : n \in 0 .. N /\ n # 0
    BY <1>1
  <2> QED
    BY <1>7, <2>1
<1> DEFINE Good(n) == kept[n] \in Seq(X) /\ \E idx : Kept(kept[n], overlay, n, E, idx)
           G == {n \in 0 .. N : Good(n)}
<1>9. 0 \in G
  <2>1. Kept(<< >>, overlay, 0, E, << >>)
    BY DEF Kept
  <2>2. Good(0)
    BY <1>2, <1>8, <2>1
  <2> QED
    BY <1>1, <2>2
<1>10. ASSUME NEW n \in 0 .. N - 1, n \in G PROVE n + 1 \in G
  <2>1. n + 1 \in 1 .. N /\ n + 1 \in 0 .. N /\ (n + 1) - 1 = n /\ n \in Nat
    BY <1>1
  <2>2. kept[n + 1] = turn(kept[n], n + 1) /\ kept[n] \in Seq(X)
    BY <1>8, <1>10, <2>1
  <2>3. PICK idx : Kept(kept[n], overlay, n, E, idx)
    BY <1>10
  <2> DEFINE p == kept[n]
             L == Len(p)
  <2>4. L \in Nat
    BY <2>2
  <2>5. CASE overlay[n + 1].tx \in E
    <3>1. kept[n + 1] = p
      BY <2>2, <2>5 DEF turn
    <3>2. Kept(p, overlay, n + 1, E, idx)
      BY <2>1, <2>3, <2>4, <2>5 DEF Kept
    <3> QED
      BY <2>1, <2>2, <3>1, <3>2
  <2>6. CASE overlay[n + 1].tx \notin E
    <3> DEFINE q == kept[n + 1]
               new == [j \in 1 .. L + 1 |-> IF j = L + 1 THEN n + 1 ELSE idx[j]]
    <3>1. q = Append(p, overlay[n + 1]) /\ overlay[n + 1] \in X
      BY <1>1, <2>1, <2>2, <2>6 DEF turn
    <3>2. /\ q \in Seq(X) /\ Len(q) = L + 1 /\ q[L + 1] = overlay[n + 1]
          /\ \A j \in 1 .. L : q[j] = p[j]
      <4> HIDE DEF q, p
      <4> QED
        BY <2>2, <3>1, AppendIs DEF p
    <3> HIDE DEF q, p, L
    <3>3. /\ idx \in [1 .. L -> 1 .. n]
          /\ \A i, j \in 1 .. L : i < j => idx[i] < idx[j]
          /\ \A j \in 1 .. L : p[j] = overlay[idx[j]] /\ overlay[idx[j]].tx \notin E
          /\ \A i \in 1 .. n : overlay[i].tx \notin E => \E j \in 1 .. L : idx[j] = i
      BY <2>3 DEF Kept, p, L
    <3>4. new \in [1 .. L + 1 -> 1 .. n + 1]
      BY <2>1, <2>4, <3>3
    <3>5. \A i, j \in 1 .. L + 1 : i < j => new[i] < new[j]
      BY <2>1, <2>4, <3>3
    <3>6. \A j \in 1 .. L + 1 : q[j] = overlay[new[j]] /\ overlay[new[j]].tx \notin E
      BY <2>4, <2>6, <3>2, <3>3
    <3>7. ASSUME NEW i \in 1 .. n + 1, overlay[i].tx \notin E PROVE \E j \in 1 .. L + 1 : new[j] = i
      <4>1. CASE i = n + 1
        BY <2>4, <4>1
      <4>2. CASE i # n + 1
        <5>1. PICK j \in 1 .. L : idx[j] = i
          BY <2>1, <3>3, <3>7, <4>2
        <5> QED
          BY <2>4, <5>1
      <4> QED
        BY <4>1, <4>2
    <3> HIDE DEF new
    <3>8. Kept(q, overlay, n + 1, E, new)
      BY <3>2, <3>4, <3>5, <3>6, <3>7 DEF Kept
    <3>9. Good(n + 1)
      BY <3>2, <3>8 DEF q
    <3> QED
      BY <2>1, <3>9
  <2> QED
    BY <2>5, <2>6
<1>11. Good(N)
  <2> HIDE DEF G
  <2>1. \A n \in 0 .. N : n \in G
    BY <1>1, <1>9, <1>10, BoundedInduction
  <2> QED
    BY <1>1, <2>1 DEF G
<1>12. Cleared(E) = kept[N]
  BY DEF Cleared, kept, turn, N
<1> QED
  BY <1>11, <1>12 DEF N

-----------------------------------------------------------------------------
(* The inductive invariant of the state manager.                           *)

Places == {"start", "viewed", "executed", "refused", "submitted", "done"}
Launched == {t \in Txs : pc[t] \in {"submitted", "done"}}

\* How far a request is tells what it knows.
RequestAt(t) ==
    /\ pc[t] = "viewed" => seen[t] \in Stores
    /\ pc[t] \in {"start", "viewed", "refused"} => result[t] = None
    /\ pc[t] \in {"executed", "submitted", "done"} =>
         /\ result[t] \in Results
         /\ \E view \in Stores : result[t] = ResultFrom(view, t, result[t].ok) /\ Runs(view, t)
         /\ t \in Staging => result[t].ok
    /\ pc[t] = "submitted" => t \in Staging

RequestsOK ==
    /\ pc \in [Txs -> Places]
    /\ seen \in [Txs -> Stores \cup {None}]
    /\ result \in [Txs -> Results \cup {None}]
    /\ \A t \in Txs : RequestAt(t)

OverlayEntries == [tx : Staging, key : Keys, value : Vals]

StoresOK ==
    /\ smt \in Stores /\ snapshot \in Stores /\ index = IndexFor(smt)
    /\ overlay \in Seq(OverlayEntries)
    /\ depth \in Nat /\ discarded \in SUBSET Txs /\ effects \in [Txs -> Nat]
    /\ faults \in [discard : 0 .. MaxDiscards, commit : 0 .. MaxCommitFailures,
                   redeliver : 0 .. MaxRedeliveries]

\* The events of a frame are known, and no two of them write the same key.
Framed(E) == E # {} /\ E \subseteq Launched /\ DisjointWrites(E, result)

BuildOK ==
    \/ build = None
    \/ build \in [events : SUBSET Txs, depth : Nat, root : Stores] /\ Framed(build.events)

Writing(p, E, vs) == [pc |-> p, events |-> E, verdicts |-> vs]

WriterOK ==
    \/ writer = Idle
    \/ \E p \in {"applied", "published", "recorded"}, E \in SUBSET Launched :
         \E vs \in [E -> Verdicts] : writer = Writing(p, E, vs) /\ E # {}

FramesOK ==
    /\ pending \subseteq Launched
    /\ outcome \in [Txs -> Verdicts \cup {None}] /\ \A t \in Txs : outcome[t] # None => t \in Launched
    /\ BuildOK /\ WriterOK
    /\ writer.pc \in {"published", "recorded"} => snapshot = smt

SInv == RequestsOK /\ StoresOK /\ FramesOK

\* The rest of the type invariant follows.
LEMMA SInvTypes == SInv /\ WInv => TypeOK
<1> SUFFICES ASSUME SInv, WInv PROVE TypeOK
  OBVIOUS
<1>1. /\ writer.pc \in {"idle", "applied", "published", "recorded"}
      /\ writer # Idle => /\ writer.events \in SUBSET Txs
                          /\ writer.verdicts \in [writer.events -> Verdicts]
  BY DEF SInv, FramesOK, WriterOK, Idle, Writing, Launched
<1>2. pending \in SUBSET Txs /\ build \in [events : SUBSET Txs, depth : Nat, root : Stores] \cup {None}
  BY DEF SInv, FramesOK, BuildOK, Launched
<1>3. index \in SUBSET (Owners \X Keys)
  <2>1. \A k \in Keys : smt[k] # None => smt[k] \in Values
    BY DEF SInv, StoresOK, Stores
  <2>2. \A v \in Values : OwnerOf[v] \in Owners
    BY StateAssumption
  <2> QED
    BY <2>1, <2>2 DEF SInv, StoresOK, IndexFor
<1> QED
  BY <1>1, <1>2, <1>3 DEF SInv, RequestsOK, StoresOK, FramesOK, TypeOK, WInv, Places,
                          OverlayEntries, Vals

\* The bounds on the faults are numbers.
LEMMA BoundsAssumption == MaxDiscards \in Nat /\ MaxCommitFailures \in Nat /\ MaxRedeliveries \in Nat
  BY StateAssumption

\* In the beginning the stores are typed and no frame is under way.
LEMMA InitSInv == Init => SInv
<1> SUFFICES ASSUME Init PROVE SInv
  OBVIOUS
<1>0. GenesisStore \in Stores
  BY StateAssumption DEF GenesisStore, Stores, Values
<1>1. RequestsOK
  BY DEF Init, RequestsOK, RequestAt, Places
<1>2. index = IndexFor(smt)
  <2>1. None # Genesis /\ GenesisKeys \subseteq Keys
    BY StateAssumption DEF Values
  <2>2. {j \in Keys : GenesisStore[j] # None} = GenesisKeys /\ \A k \in GenesisKeys : GenesisStore[k] = Genesis
    BY <2>1 DEF GenesisStore
  <2> QED
    BY <2>2 DEF Init, IndexFor
<1>3. StoresOK
  BY <1>0, <1>2, StateAssumption DEF Init, StoresOK
<1>4. FramesOK
  BY DEF Init, FramesOK, BuildOK, WriterOK, Launched, Idle
<1> QED
  BY <1>1, <1>3, <1>4 DEF SInv

\* A step of the requests: what is launched stays so, with its result.
LEMMA FramesKept ==
    ASSUME SInv, Launched \subseteq Launched', \A t \in Launched : result'[t] = result[t],
           UNCHANGED <<build, writer, outcome, snapshot, smt>>, pending' \subseteq Launched'
    PROVE  FramesOK'
<1>1. BuildOK'
  BY DEF SInv, FramesOK, BuildOK, Framed, DisjointWrites
<1>2. WriterOK'
  BY DEF SInv, FramesOK, WriterOK
<1> QED
  BY <1>1, <1>2 DEF SInv, FramesOK

\* An event is a sequence of operations on keys.
LEMMA OpsAre ==
    ASSUME NEW t \in Txs
    PROVE  /\ Len(Ops[t]) \in Nat /\ DOMAIN Ops[t] = 1 .. Len(Ops[t])
           /\ \A i \in DOMAIN Ops[t] :
                /\ Ops[t][i].key \in Keys
                /\ Ops[t][i].kind \in {"update", "create", "delete", "blindDelete"}
                /\ Ops[t][i] = [key |-> Ops[t][i].key, kind |-> Ops[t][i].kind]
<1> DEFINE X == [key : Keys, kind : {"update", "create", "delete", "blindDelete"}]
<1>1. Ops[t] \in Seq(X)
  BY StateAssumption
<1>2. \A x \in X : /\ x.key \in Keys /\ x.kind \in {"update", "create", "delete", "blindDelete"}
                   /\ x = [key |-> x.key, kind |-> x.kind]
  OBVIOUS
<1> HIDE DEF X
<1>3. PICK s \in Seq(X) : s = Ops[t]
  BY <1>1
<1>4. Len(s) \in Nat /\ DOMAIN s = 1 .. Len(s) /\ \A i \in DOMAIN s : s[i] \in X
  OBVIOUS
<1> QED
  BY <1>2, <1>3, <1>4

\* What an execution reports is a result.
LEMMA ResultIs ==
    ASSUME NEW view \in Stores, NEW t \in Txs, NEW ok \in BOOLEAN
    PROVE  /\ ResultFrom(view, t, ok) \in Results /\ ResultFrom(view, t, ok) # None
           /\ ResultFrom(view, t, ok).ok = ok
           /\ DOMAIN ResultFrom(view, t, ok).changes = DOMAIN Ops[t]
           /\ \A i \in DOMAIN Ops[t] : ResultFrom(view, t, ok).changes[i] = ChangeFrom(view, t, i)
<1>1. /\ Ops[t] \in Seq([key : Keys, kind : {"update", "create", "delete", "blindDelete"}])
      /\ None \notin Results
  BY StateAssumption
<1>2. Len(Ops[t]) \in Nat /\ DOMAIN Ops[t] = 1 .. Len(Ops[t])
      /\ \A i \in DOMAIN Ops[t] : Ops[t][i].key \in Keys
  BY OpsAre
<1>3. \A i \in DOMAIN Ops[t] : <<t, i>> \in Values
  BY DEF Values
<1>4. ASSUME NEW i \in DOMAIN Ops[t] PROVE ChangeFrom(view, t, i) \in Changes
  <2> DEFINE J == {j \in 1 .. i - 1 : Ops[t][j].key = Ops[t][i].key}
             now == IF J = {} THEN view[Ops[t][i].key]
                    ELSE IF Ops[t][Last(J)].kind \in {"delete", "blindDelete"} THEN None
                    ELSE <<t, Last(J)>>
  <2>1. J # {} => Last(J) \in DOMAIN Ops[t]
    <3>1. J \in SUBSET (1 .. i - 1) /\ i - 1 \in Nat
      BY <1>2
    <3>2. J # {} => Last(J) \in J
      BY <3>1, LastIs
    <3> QED
      BY <1>2, <3>1, <3>2
  <2>2. view[Ops[t][i].key] \in Vals
    BY <1>2 DEF Stores, Vals
  <2>3. now \in Vals
    BY <1>3, <2>1, <2>2 DEF Vals
  <2>4. <<t, i>> \in Vals /\ None \in Vals
    BY <1>3 DEF Vals
  <2> HIDE DEF now
  <2>5. ChangeFrom(view, t, i) =
          [key |-> Ops[t][i].key,
           old |-> IF Ops[t][i].kind \in {"create", "blindDelete"} THEN None ELSE now,
           new |-> IF Ops[t][i].kind \in {"delete", "blindDelete"} THEN None ELSE <<t, i>>]
    BY DEF ChangeFrom, now
  <2> QED
    BY <1>2, <2>3, <2>4, <2>5 DEF Changes, Vals
<1>5. [i \in DOMAIN Ops[t] |-> ChangeFrom(view, t, i)] \in Seq(Changes)
  <2> DEFINE f == [i \in 1 .. Len(Ops[t]) |-> ChangeFrom(view, t, i)]
  <2>1. f \in [1 .. Len(Ops[t]) -> Changes]
    BY <1>2, <1>4
  <2> HIDE DEF f
  <2>2. f \in Seq(Changes)
    BY <1>2, <2>1
  <2> QED
    BY <1>2, <2>2 DEF f
<1>6. ResultFrom(view, t, ok) \in Results
  BY <1>5 DEF ResultFrom, Results
<1> QED
  BY <1>1, <1>6 DEF ResultFrom

\* The entries an event stages.
LEMMA EntriesAre ==
    ASSUME SInv, NEW t \in Staging, t \in Txs, result[t] \in Results
    PROVE  Entries(t) \in Seq(OverlayEntries) /\ Len(Entries(t)) = Len(result[t].changes)
<1>1. result[t].changes \in Seq(Changes)
  BY DEF Results
<1> DEFINE n == Len(result[t].changes)
<1>2. n \in Nat /\ DOMAIN result[t].changes = 1 .. n
      /\ \A i \in 1 .. n : result[t].changes[i] \in Changes
  BY <1>1
<1>3. \A i \in 1 .. n : result[t].changes[i].key \in Keys /\ result[t].changes[i].new \in Vals
  BY <1>2 DEF Changes, Vals
<1> DEFINE f == [i \in 1 .. n |-> [tx |-> t, key |-> result[t].changes[i].key,
                                   value |-> result[t].changes[i].new]]
<1>4. f \in [1 .. n -> OverlayEntries]
  BY <1>3 DEF OverlayEntries
<1>5. Entries(t) = f
  BY <1>2 DEF Entries
<1> HIDE DEF f, n
<1>6. f \in Seq(OverlayEntries) /\ Len(f) = n
  BY <1>2, <1>4
<1> QED
  BY <1>5, <1>6 DEF n

\* What an OverlayView shows is a value.
LEMMA ViewIs ==
    ASSUME overlay \in Seq(OverlayEntries), NEW store \in Stores, NEW k \in Keys
    PROVE  ViewOf(store, k) \in Vals
<1> DEFINE S == {i \in DOMAIN overlay : overlay[i].key = k}
<1>1. DOMAIN overlay = 1 .. Len(overlay) /\ Len(overlay) \in Nat
      /\ \A i \in 1 .. Len(overlay) : overlay[i] \in OverlayEntries
  OBVIOUS
<1>2. S # {} => Last(S) \in 1 .. Len(overlay)
  <2>1. S \in SUBSET (1 .. Len(overlay))
    BY <1>1
  <2> HIDE DEF S
  <2> QED
    BY <1>1, <2>1, LastIs
<1>3. S # {} => overlay[Last(S)].value \in Vals
  BY <1>1, <1>2 DEF OverlayEntries
<1> QED
  BY <1>3 DEF ViewOf, Stores, Vals

\* The steps of a request.
LEMMA RequestSteps ==
    ASSUME SInv, NEW t \in Txs,
           \/ LoadView(t) \/ Submit(t) \/ Stage(t) \/ Redeliver(t)
           \/ \E ok \in BOOLEAN : Execute(t, ok)
    PROVE  SInv'
<1>0. /\ pc \in [Txs -> Places] /\ seen \in [Txs -> Stores \cup {None}]
      /\ result \in [Txs -> Results \cup {None}]
      /\ \A s \in Txs : RequestAt(s)
      /\ pending \subseteq Launched
  BY DEF SInv, RequestsOK, FramesOK
<1>a. Staging \subseteq Txs /\ MaxRedeliveries \in Nat
  BY StateAssumption
<1>1. CASE LoadView(t)
  <2>1. /\ pc[t] = "start" /\ pc' = [pc EXCEPT ![t] = "viewed"]
        /\ seen' = [seen EXCEPT ![t] = snapshot]
        /\ UNCHANGED <<result, writeVars, readVars, writer>>
    BY <1>1 DEF LoadView
  <2>2. Launched' = Launched
    BY <1>0, <2>1 DEF Launched
  <2>3. FramesOK'
    BY <1>0, <2>1, <2>2, FramesKept DEF writeVars, readVars
  <2>4. StoresOK'
    BY <2>1 DEF SInv, StoresOK, writeVars, readVars
  <2>5. snapshot \in Stores
    BY DEF SInv, StoresOK
  <2>6. ASSUME NEW s \in Txs PROVE RequestAt(s)'
    <3>1. CASE s = t
      <4>1. pc'[s] = "viewed" /\ seen'[s] = snapshot /\ result'[s] = None
        BY <1>0, <2>1, <3>1 DEF RequestAt
      <4> QED
        BY <2>5, <4>1 DEF RequestAt
    <3>2. CASE s # t
      <4>1. pc'[s] = pc[s] /\ seen'[s] = seen[s] /\ result'[s] = result[s] /\ RequestAt(s)
        BY <1>0, <2>1, <3>2
      <4> QED
        BY <4>1 DEF RequestAt
    <3> QED
      BY <3>1, <3>2
  <2>7. RequestsOK'
    BY <1>0, <2>1, <2>5, <2>6 DEF RequestsOK, Places
  <2> QED
    BY <2>3, <2>4, <2>7 DEF SInv
<1>2. ASSUME NEW ok \in BOOLEAN, Execute(t, ok) PROVE SInv'
  <2> DEFINE view == [k \in Keys |-> IF t \in OverlayReaders THEN ViewOf(seen[t], k) ELSE seen[t][k]]
  <2>1. /\ pc[t] = "viewed" /\ UNCHANGED <<seen, writeVars, readVars, writer>>
        /\ \/ /\ Runs(view, t) /\ (ok \/ t \notin Staging)
              /\ result' = [result EXCEPT ![t] = ResultFrom(view, t, ok)]
              /\ pc' = [pc EXCEPT ![t] = "executed"]
           \/ pc' = [pc EXCEPT ![t] = "refused"] /\ result' = result
    BY <1>2 DEF Execute
  <2>2. view \in Stores
    <3>1. seen[t] \in Stores
      BY <1>0, <2>1 DEF RequestAt
    <3>2. \A k \in Keys : seen[t][k] \in Vals
      BY <3>1 DEF Stores, Vals
    <3>3. \A k \in Keys : ViewOf(seen[t], k) \in Vals
      BY <3>1, ViewIs DEF SInv, StoresOK
    <3> QED
      BY <3>2, <3>3 DEF Stores, Vals
  <2> HIDE DEF view
  <2>3. Launched' = Launched /\ \A s \in Launched : result'[s] = result[s]
    BY <1>0, <2>1 DEF Launched
  <2>4. FramesOK'
    BY <1>0, <2>1, <2>3, FramesKept DEF writeVars, readVars
  <2>5. StoresOK'
    BY <2>1 DEF SInv, StoresOK, writeVars, readVars
  <2>6. /\ ResultFrom(view, t, ok) \in Results /\ ResultFrom(view, t, ok).ok = ok
    BY <2>2, ResultIs
  <2>7. ASSUME NEW s \in Txs PROVE RequestAt(s)'
    <3>1. CASE s = t /\ pc' = [pc EXCEPT ![t] = "executed"]
      <4>1. /\ pc'[s] = "executed" /\ result'[s] = ResultFrom(view, t, ok) /\ Runs(view, t)
            /\ (ok \/ t \notin Staging)
        BY <1>0, <2>1, <3>1
      <4>2. \E x \in Stores : result'[s] = ResultFrom(x, s, result'[s].ok) /\ Runs(x, s)
        BY <2>2, <2>6, <3>1, <4>1
      <4> QED
        BY <2>6, <3>1, <4>1, <4>2 DEF RequestAt
    <3>2. CASE s = t /\ ~(pc' = [pc EXCEPT ![t] = "executed"])
      <4>1. pc'[s] = "refused" /\ result'[s] = result[s] /\ result[s] = None
        BY <1>0, <2>1, <3>2 DEF RequestAt
      <4> QED
        BY <4>1 DEF RequestAt
    <3>3. CASE s # t
      <4>1. pc'[s] = pc[s] /\ seen'[s] = seen[s] /\ result'[s] = result[s] /\ RequestAt(s)
        BY <1>0, <2>1, <3>3
      <4> QED
        BY <4>1 DEF RequestAt
    <3> QED
      BY <3>1, <3>2, <3>3
  <2>8. RequestsOK'
    BY <1>0, <2>1, <2>6, <2>7 DEF RequestsOK, Places
  <2> QED
    BY <2>4, <2>5, <2>8 DEF SInv
<1>3. CASE Submit(t) \/ Stage(t)
  <2>1. /\ pc[t] \in {"executed", "submitted"} /\ UNCHANGED <<seen, result, writer>>
        /\ UNCHANGED <<build, smt, index, depth, discarded, effects, faults, snapshot, outcome>>
        /\ \/ pc' = [pc EXCEPT ![t] = "submitted"] /\ t \in Staging
           \/ pc' = [pc EXCEPT ![t] = "done"]
        /\ pending' \subseteq pending \cup {t}
    BY <1>3 DEF Submit, Stage, readVars, writeVars
  <2>2. Launched' = Launched \cup {t}
    BY <1>0, <2>1 DEF Launched
  <2>3. FramesOK'
    <3>1. /\ Launched \subseteq Launched' /\ \A s \in Launched : result'[s] = result[s]
          /\ pending' \subseteq Launched'
      BY <1>0, <2>1, <2>2
    <3> QED
      BY <2>1, <3>1, FramesKept
  <2>4. overlay' \in Seq(OverlayEntries)
    <3>1. overlay \in Seq(OverlayEntries)
      BY DEF SInv, StoresOK
    <3>2. CASE Submit(t)
      BY <3>1, <3>2 DEF Submit, readVars
    <3>3. CASE Stage(t)
      <4>1. overlay' = overlay \o Entries(t) /\ t \in Staging /\ result[t] \in Results
        BY <1>0, <3>3 DEF Stage, RequestAt
      <4>2. Entries(t) \in Seq(OverlayEntries)
        BY <4>1, EntriesAre
      <4> QED
        BY <3>1, <4>1, <4>2
    <3> QED
      BY <1>3, <3>2, <3>3
  <2>5. StoresOK'
    BY <2>1, <2>4 DEF SInv, StoresOK
  <2>6. ASSUME NEW s \in Txs PROVE RequestAt(s)'
    <3>1. /\ RequestAt(s) /\ seen'[s] = seen[s] /\ result'[s] = result[s]
          /\ s # t => pc'[s] = pc[s]
          /\ s = t => pc'[s] = "done" \/ (pc'[s] = "submitted" /\ s \in Staging)
      BY <1>0, <2>1
    <3> QED
      BY <2>1, <3>1 DEF RequestAt
  <2>7. RequestsOK'
    BY <1>0, <2>1, <2>6 DEF RequestsOK, Places
  <2> QED
    BY <2>3, <2>5, <2>7 DEF SInv
<1>4. CASE Redeliver(t)
  <2>1. /\ outcome[t] # None /\ pending' = pending \cup {t}
        /\ faults.redeliver < MaxRedeliveries
        /\ faults' = [faults EXCEPT !.redeliver = @ + 1]
        /\ UNCHANGED <<requestVars, build, smt, index, depth, discarded, effects, readVars, writer>>
    BY <1>4 DEF Redeliver
  <2>2. t \in Launched /\ Launched' = Launched
    BY <2>1 DEF SInv, FramesOK, Launched, requestVars
  <2>3. FramesOK'
    BY <1>0, <2>1, <2>2, FramesKept DEF requestVars, readVars
  <2>4. faults' \in [discard : 0 .. MaxDiscards, commit : 0 .. MaxCommitFailures, redeliver : 0 .. MaxRedeliveries]
    BY <1>a, <2>1 DEF SInv, StoresOK
  <2>5. StoresOK'
    BY <2>1, <2>4 DEF SInv, StoresOK, readVars
  <2>6. RequestsOK'
    BY <2>1 DEF SInv, RequestsOK, RequestAt, requestVars
  <2> QED
    BY <2>3, <2>5, <2>6 DEF SInv
<1> QED
  BY <1>1, <1>2, <1>3, <1>4

-----------------------------------------------------------------------------
(* The steps of the writer.                                                *)

\* There are three verdicts.
LEMMA VerdictIs == \A store, r : Verdict(store, r) \in Verdicts
<1> TAKE store, r
<1>1. CASE ~r.ok
  BY <1>1 DEF Verdict, Verdicts
<1>2. CASE r.ok /\ Stale(store, r.changes)
  BY <1>2 DEF Verdict, Verdicts
<1>3. CASE r.ok /\ ~Stale(store, r.changes)
  BY <1>3 DEF Verdict, Verdicts
<1> QED
  BY <1>1, <1>2, <1>3

\* Applying a frame: each of its events is judged, and leaves its keys, as if
\* it were alone; the index follows the store.
LEMMA ApplyIs ==
    ASSUME SInv, NEW E, Framed(E), Apply(E)
    PROVE  /\ E \in SUBSET Txs /\ \A t \in E : result[t] \in Results
           /\ smt' = ApplyCommittedEvents(smt, E, result) /\ smt' \in Stores
           /\ index' = IndexFor(smt')
           /\ effects' = [t \in Txs |-> IF t \in E /\ Verdict(smt, result[t]) = "applied"
                                        THEN effects[t] + 1 ELSE effects[t]]
           /\ effects' \in [Txs -> Nat]
           /\ [t \in E |-> Verdict(smt, result[t])] \in [E -> Verdicts]
           /\ writer' = Writing("applied", E, [t \in E |-> Verdict(smt, result[t])])
           /\ \A t \in E : \A k \in WriteKeys(result[t]) : smt'[k] = ApplyOne(smt, result[t])[k]
           /\ \A k \in Keys : (\A t \in E : k \notin WriteKeys(result[t])) => smt'[k] = smt[k]
<1>1. E \in SUBSET Txs /\ E \subseteq Launched
  BY DEF Framed, Launched
<1>2. \A t \in E : result[t] \in Results
  BY <1>1 DEF SInv, RequestsOK, RequestAt, Launched
<1>3. smt \in Stores /\ index = IndexFor(smt) /\ effects \in [Txs -> Nat]
  BY DEF SInv, StoresOK
<1>4. DisjointWrites(E, result)
  BY DEF Framed
<1>5. /\ ApplyCommittedEvents(smt, E, result) \in Stores
      /\ Summary(smt, E, result) = [t \in E |-> Verdict(smt, result[t])]
      /\ \A t \in E : \A k \in WriteKeys(result[t]) :
           ApplyCommittedEvents(smt, E, result)[k] = ApplyOne(smt, result[t])[k]
      /\ \A k \in Keys : (\A t \in E : k \notin WriteKeys(result[t])) =>
           ApplyCommittedEvents(smt, E, result)[k] = smt[k]
  <2>1. smt \in StoresOver(Vals) /\ \A t \in E : result[t] \in ResultsOver(Vals)
    BY <1>2, <1>3, OverVals
  <2>2. InParallel(Vals, smt, E, result)
    BY <1>1, <1>4, <2>1, FrameIsParallel
  <2> QED
    BY <2>2, OverVals DEF InParallel
<1>6. /\ smt' = ApplyCommittedEvents(smt, E, result)
      /\ index' = IndexOf(index, smt, E)
      /\ effects' = [t \in Txs |-> IF t \in E /\ Summary(smt, E, result)[t] = "applied"
                                   THEN effects[t] + 1 ELSE effects[t]]
      /\ writer' = [pc |-> "applied", events |-> E, verdicts |-> Summary(smt, E, result)]
  BY DEF Apply
<1>7. index' = IndexFor(smt')
  BY <1>1, <1>2, <1>3, <1>6, IndexOfExact
<1>8. effects' = [t \in Txs |-> IF t \in E /\ Verdict(smt, result[t]) = "applied"
                                THEN effects[t] + 1 ELSE effects[t]]
  BY <1>5, <1>6
<1>9. \A t \in E : Verdict(smt, result[t]) \in Verdicts
  BY VerdictIs
<1>10. writer' = Writing("applied", E, [t \in E |-> Verdict(smt, result[t])])
  BY <1>5, <1>6 DEF Writing
<1> QED
  BY <1>1, <1>2, <1>3, <1>5, <1>6, <1>7, <1>8, <1>9, <1>10

\* What every step of the writer leaves alone.
LEMMA WriterFrame ==
    ASSUME SInv, UNCHANGED requestVars
    PROVE  RequestsOK' /\ Launched' = Launched /\ \A E : Framed(E)' <=> Framed(E)
<1>1. pc' = pc /\ seen' = seen /\ result' = result
  BY DEF requestVars
<1>2. RequestsOK'
  BY <1>1 DEF SInv, RequestsOK, RequestAt
<1>3. Launched' = Launched
  BY <1>1 DEF Launched
<1> QED
  BY <1>1, <1>2, <1>3 DEF Framed, DisjointWrites

\* The writer while it holds a frame.
LEMMA WriterHolds ==
    ASSUME SInv, writer.pc # "idle"
    PROVE  /\ writer # Idle /\ writer.pc \in {"applied", "published", "recorded"}
           /\ writer.events \in SUBSET Launched /\ writer.events # {}
           /\ writer.events \in SUBSET Txs
           /\ writer.verdicts \in [writer.events -> Verdicts]
           /\ writer = Writing(writer.pc, writer.events, writer.verdicts)
<1>1. writer # Idle
  BY DEF Idle
<1>2. PICK p \in {"applied", "published", "recorded"}, E \in SUBSET Launched :
         \E vs \in [E -> Verdicts] : writer = Writing(p, E, vs) /\ E # {}
  BY <1>1 DEF SInv, FramesOK, WriterOK
<1>3. PICK vs \in [E -> Verdicts] : writer = Writing(p, E, vs) /\ E # {}
  BY <1>2
<1>4. writer.pc = p /\ writer.events = E /\ writer.verdicts = vs
  BY <1>3 DEF Writing
<1> QED
  BY <1>1, <1>3, <1>4 DEF Launched

\* A frame is applied; the overlay may be cleared on the way.
LEMMA ApplyStep ==
    ASSUME SInv, NEW E, Framed(E), Apply(E), UNCHANGED <<requestVars, pending, depth, snapshot, outcome>>,
           overlay' \in Seq(OverlayEntries), discarded' \in SUBSET Txs, faults' = faults,
           build' \in {build, None}
    PROVE  SInv'
<1>1. RequestsOK' /\ Launched' = Launched /\ \A D : Framed(D)' <=> Framed(D)
  BY WriterFrame
<1>2. /\ smt' \in Stores /\ index' = IndexFor(smt') /\ effects' \in [Txs -> Nat]
      /\ [t \in E |-> Verdict(smt, result[t])] \in [E -> Verdicts]
      /\ writer' = Writing("applied", E, [t \in E |-> Verdict(smt, result[t])])
  BY ApplyIs
<1>3. StoresOK'
  BY <1>2 DEF SInv, StoresOK
<1>4. E \in SUBSET Launched /\ E # {}
  BY DEF Framed
<1>5. WriterOK'
  BY <1>1, <1>2, <1>4 DEF WriterOK
<1>6. BuildOK'
  BY <1>1 DEF SInv, FramesOK, BuildOK
<1>7. writer'.pc = "applied"
  BY <1>2 DEF Writing
<1>8. FramesOK'
  BY <1>1, <1>5, <1>6, <1>7 DEF SInv, FramesOK
<1> QED
  BY <1>1, <1>3, <1>8 DEF SInv

\* The error paths: the overlay of the frame's events is cleared.
LEMMA DiscardStep ==
    ASSUME SInv, NEW E \in SUBSET Txs, Discard(E),
           UNCHANGED <<requestVars, pending, depth, snapshot, outcome>>, build' \in {build, None}
    PROVE  SInv'
<1>1. RequestsOK' /\ Launched' = Launched /\ \A D : Framed(D)' <=> Framed(D)
  BY WriterFrame
<1>2. /\ faults.discard < MaxDiscards /\ faults' = [faults EXCEPT !.discard = @ + 1]
      /\ discarded' = discarded \cup E /\ overlay' = Cleared(E)
      /\ UNCHANGED <<smt, index, effects, writer>>
  BY DEF Discard
<1>3. Cleared(E) \in Seq(OverlayEntries)
  BY ClearedIs DEF SInv, StoresOK
<1>4. faults' \in [discard : 0 .. MaxDiscards, commit : 0 .. MaxCommitFailures,
                   redeliver : 0 .. MaxRedeliveries]
  BY <1>2, BoundsAssumption DEF SInv, StoresOK
<1>5. StoresOK'
  BY <1>2, <1>3, <1>4 DEF SInv, StoresOK
<1>6. BuildOK' /\ WriterOK'
  BY <1>1, <1>2 DEF SInv, FramesOK, BuildOK, WriterOK
<1>7. FramesOK'
  BY <1>1, <1>2, <1>6 DEF SInv, FramesOK
<1> QED
  BY <1>1, <1>5, <1>7 DEF SInv

\* The leader's build.
LEMMA BuildSteps ==
    ASSUME SInv, DropBuild \/ CommitBuild \/ \E F \in SUBSET Txs : PrepareBuild(F)
    PROVE  SInv'
<1>1. CASE DropBuild
  <2>1. /\ build' = None /\ faults.discard < MaxDiscards
        /\ faults' = [faults EXCEPT !.discard = @ + 1]
        /\ UNCHANGED <<requestVars, pending, smt, index, depth, discarded, effects, readVars, writer>>
    BY <1>1 DEF DropBuild
  <2>2. RequestsOK' /\ Launched' = Launched
    BY <2>1, WriterFrame
  <2>3. faults' \in [discard : 0 .. MaxDiscards, commit : 0 .. MaxCommitFailures,
                     redeliver : 0 .. MaxRedeliveries]
    BY <2>1, BoundsAssumption DEF SInv, StoresOK
  <2>4. StoresOK'
    BY <2>1, <2>3 DEF SInv, StoresOK, readVars
  <2>5. FramesOK'
    BY <2>1, <2>2 DEF SInv, FramesOK, BuildOK, WriterOK, readVars
  <2> QED
    BY <2>2, <2>4, <2>5 DEF SInv
<1>2. CASE CommitBuild
  <2>1. build # None /\ build' = None /\ UNCHANGED <<requestVars, pending, depth, snapshot, outcome>>
    BY <1>2 DEF CommitBuild
  <2> DEFINE E == build.events
  <2>2. Framed(E) /\ E \in SUBSET Txs
    BY <2>1 DEF SInv, FramesOK, BuildOK
  <2>3. overlay \in Seq(OverlayEntries) /\ discarded \in SUBSET Txs
    BY DEF SInv, StoresOK
  <2>4. Cleared(E) \in Seq(OverlayEntries)
    BY <2>3, ClearedIs
  <2>5. \/ Apply(E) /\ UNCHANGED <<overlay, discarded, faults>>
        \/ Apply(E) /\ overlay' = Cleared(E) /\ discarded' = discarded \cup E /\ UNCHANGED faults
        \/ Discard(E)
    BY <1>2 DEF CommitBuild
  <2>6. CASE Apply(E) /\ UNCHANGED <<overlay, discarded, faults>>
    BY <2>1, <2>2, <2>3, <2>6, ApplyStep
  <2>7. CASE Apply(E) /\ overlay' = Cleared(E) /\ discarded' = discarded \cup E /\ UNCHANGED faults
    BY <2>1, <2>2, <2>3, <2>4, <2>7, ApplyStep
  <2>8. CASE Discard(E)
    BY <2>1, <2>2, <2>8, DiscardStep
  <2> QED
    BY <2>5, <2>6, <2>7, <2>8
<1>3. ASSUME NEW F \in SUBSET Txs, PrepareBuild(F) PROVE SInv'
  <2> DEFINE E == Fold(pending \ F, result, MaxEventsPerCf)
  <2>1. /\ E # {}
        /\ build' = [events |-> E, depth |-> depth, root |-> ApplyCommittedEvents(smt, E, result)]
        /\ UNCHANGED <<requestVars, pending, smt, index, depth, discarded, effects, faults, readVars, writer>>
    BY <1>3 DEF PrepareBuild
  <2>2. pending \in SUBSET Launched /\ Launched \in SUBSET Txs
    BY DEF SInv, FramesOK, Launched
  <2>3. E \subseteq pending \ F /\ DisjointWrites(E, result)
    <3>1. pending \ F \in SUBSET Txs
      BY <2>2
    <3> QED
      BY <3>1, FoldIsDisjoint
  <2> HIDE DEF E
  <2>4. Framed(E)
    BY <2>1, <2>2, <2>3 DEF Framed
  <2>5. ApplyCommittedEvents(smt, E, result) \in Stores
    <3>1. E \in SUBSET Txs /\ \A t \in E : result[t] \in Results
      BY <2>2, <2>3 DEF SInv, RequestsOK, RequestAt, Launched
    <3>2. smt \in StoresOver(Vals) /\ \A t \in E : result[t] \in ResultsOver(Vals)
      BY <3>1, OverVals DEF SInv, StoresOK
    <3>3. InParallel(Vals, smt, E, result)
      BY <2>3, <3>1, <3>2, FrameIsParallel
    <3> QED
      BY <3>3, OverVals DEF InParallel
  <2>6. RequestsOK' /\ Launched' = Launched /\ \A D : Framed(D)' <=> Framed(D)
    BY <2>1, WriterFrame
  <2>7. BuildOK'
    <3>1. depth \in Nat /\ E \in SUBSET Txs
      BY <2>2, <2>3 DEF SInv, StoresOK
    <3>2. build' \in [events : SUBSET Txs, depth : Nat, root : Stores] /\ build'.events = E
      BY <2>1, <2>5, <3>1
    <3> QED
      BY <2>4, <2>6, <3>2 DEF BuildOK
  <2>8. StoresOK'
    BY <2>1 DEF SInv, StoresOK, readVars
  <2>9. FramesOK'
    BY <2>1, <2>6, <2>7 DEF SInv, FramesOK, WriterOK, readVars
  <2> QED
    BY <2>6, <2>8, <2>9 DEF SInv
<1> QED
  BY <1>1, <1>2, <1>3

\* A frame from another validator.
LEMMA FollowStep ==
    ASSUME SInv, NEW E \in SUBSET Txs, NEW match \in BOOLEAN, FollowCf(E, match)
    PROVE  SInv' /\ Framed(E)
<1>1. /\ E # {} /\ E \subseteq pending /\ Disjoint(E)
      /\ UNCHANGED <<requestVars, pending, build, depth, snapshot, outcome>>
      /\ \/ Apply(E) /\ UNCHANGED <<overlay, discarded, faults>>
         \/ Discard(E)
  BY DEF FollowCf
<1>2. Framed(E)
  BY <1>1 DEF SInv, FramesOK, Framed, Disjoint, DisjointWrites
<1>3. overlay \in Seq(OverlayEntries) /\ discarded \in SUBSET Txs
  BY DEF SInv, StoresOK
<1>4. CASE Apply(E) /\ UNCHANGED <<overlay, discarded, faults>>
  BY <1>1, <1>2, <1>3, <1>4, ApplyStep
<1>5. CASE Discard(E)
  BY <1>1, <1>2, <1>5, DiscardStep
<1> QED
  BY <1>1, <1>2, <1>4, <1>5

\* The way of a frame after it was applied.
LEMMA FrameSteps ==
    ASSUME SInv, CommitFails \/ PublishSnapshot \/ IngestOutcomes \/ Finish
    PROVE  SInv'
<1>0. writer.pc # "idle" /\ UNCHANGED <<requestVars, build>>
  BY DEF CommitFails, PublishSnapshot, IngestOutcomes, Finish, writeVars
<1> DEFINE E == writer.events
           vs == writer.verdicts
<1>1. /\ E \in SUBSET Launched /\ E # {} /\ E \in SUBSET Txs /\ vs \in [E -> Verdicts]
      /\ writer = Writing(writer.pc, E, vs)
  BY <1>0, WriterHolds
<1>2. RequestsOK' /\ Launched' = Launched /\ \A D : Framed(D)' <=> Framed(D)
  BY <1>0, WriterFrame
<1>3. BuildOK'
  BY <1>0, <1>2 DEF SInv, FramesOK, BuildOK
<1>4. overlay \in Seq(OverlayEntries) /\ Cleared(E) \in Seq(OverlayEntries)
  BY ClearedIs DEF SInv, StoresOK
<1>5. ASSUME NEW p \in {"published", "recorded"}, writer' = [writer EXCEPT !.pc = p]
      PROVE  WriterOK' /\ writer'.pc = p
  <2>1. writer' = Writing(p, E, vs)
    BY <1>1, <1>5 DEF Writing
  <2> HIDE DEF E, vs
  <2> QED
    BY <1>1, <1>2, <2>1 DEF WriterOK, Writing
<1>6. CASE CommitFails
  <2>1. /\ faults.commit < MaxCommitFailures /\ faults' = [faults EXCEPT !.commit = @ + 1]
        /\ discarded' = discarded \cup E /\ overlay' = Cleared(E) /\ writer' = Idle
        /\ UNCHANGED <<pending, smt, index, depth, effects, snapshot, outcome>>
    BY <1>6 DEF CommitFails
  <2>2. faults' \in [discard : 0 .. MaxDiscards, commit : 0 .. MaxCommitFailures,
                     redeliver : 0 .. MaxRedeliveries]
    <3>1. faults \in [discard : 0 .. MaxDiscards, commit : 0 .. MaxCommitFailures,
                      redeliver : 0 .. MaxRedeliveries]
      BY DEF SInv, StoresOK
    <3>2. faults.commit + 1 \in 0 .. MaxCommitFailures
      BY <2>1, <3>1, BoundsAssumption
    <3> QED
      BY <2>1, <3>1, <3>2
  <2>3. StoresOK'
    BY <1>1, <1>4, <2>1, <2>2, SMTT(30) DEF SInv, StoresOK
  <2>4. FramesOK'
    BY <1>2, <1>3, <2>1 DEF SInv, FramesOK, WriterOK, Idle
  <2> QED
    BY <1>2, <2>3, <2>4 DEF SInv
<1>7. CASE PublishSnapshot
  <2>1. /\ writer' = [writer EXCEPT !.pc = "published"] /\ snapshot' = smt
        /\ UNCHANGED <<writeVars, overlay, outcome>>
    BY <1>7 DEF PublishSnapshot
  <2>2. StoresOK'
    BY <2>1 DEF SInv, StoresOK, writeVars
  <2>3. WriterOK'
    BY <1>5, <2>1
  <2>4. FramesOK'
    BY <1>2, <1>3, <2>1, <2>3 DEF SInv, FramesOK, writeVars
  <2> QED
    BY <1>2, <2>2, <2>4 DEF SInv
<1>8. CASE IngestOutcomes
  <2>1. /\ writer.pc = "published" /\ writer' = [writer EXCEPT !.pc = "recorded"]
        /\ outcome' = [t \in Txs |-> IF t \in E THEN vs[t] ELSE outcome[t]]
        /\ UNCHANGED <<writeVars, snapshot, overlay>>
    BY <1>8 DEF IngestOutcomes
  <2>2. StoresOK'
    BY <2>1 DEF SInv, StoresOK, writeVars
  <2>3. WriterOK'
    BY <1>5, <2>1
  <2>4. outcome' \in [Txs -> Verdicts \cup {None}] /\ \A t \in Txs : outcome'[t] # None => t \in Launched
    <3> HIDE DEF E, vs
    <3> QED
      BY <1>1, <2>1 DEF SInv, FramesOK
  <2>5. snapshot = smt
    BY <2>1 DEF SInv, FramesOK
  <2>6. FramesOK'
    BY <1>2, <1>3, <2>1, <2>3, <2>4, <2>5 DEF SInv, FramesOK, writeVars
  <2> QED
    BY <1>2, <2>2, <2>6 DEF SInv
<1>9. CASE Finish
  <2>1. /\ overlay' = Cleared(E) /\ depth' = depth + 1 /\ pending' = pending \ E /\ writer' = Idle
        /\ UNCHANGED <<smt, index, discarded, effects, faults, snapshot, outcome>>
    BY <1>9 DEF Finish
  <2>2. StoresOK'
    BY <1>4, <2>1 DEF SInv, StoresOK
  <2>3. FramesOK'
    BY <1>2, <1>3, <2>1 DEF SInv, FramesOK, WriterOK, Idle
  <2> QED
    BY <1>2, <2>2, <2>3 DEF SInv
<1> QED
  BY <1>6, <1>7, <1>8, <1>9

\* Every step keeps the requests, the stores and the frames in order.
LEMMA NextSInv == SInv /\ [Next]_vars => SInv'
<1> SUFFICES ASSUME SInv, [Next]_vars PROVE SInv'
  OBVIOUS
<1>1. ASSUME NEW t \in Txs, LoadView(t) \/ Submit(t) \/ Stage(t) \/ Redeliver(t) PROVE SInv'
  BY <1>1, RequestSteps
<1>2. ASSUME NEW t \in Txs, NEW ok \in BOOLEAN, Execute(t, ok) PROVE SInv'
  BY <1>2, RequestSteps
<1>3. ASSUME DropBuild \/ CommitBuild \/ \E F \in SUBSET Txs : PrepareBuild(F) PROVE SInv'
  BY <1>3, BuildSteps
<1>4. ASSUME NEW E \in SUBSET Txs, NEW match \in BOOLEAN, FollowCf(E, match) PROVE SInv'
  BY <1>4, FollowStep
<1>5. ASSUME CommitFails \/ PublishSnapshot \/ IngestOutcomes \/ Finish PROVE SInv'
  BY <1>5, FrameSteps
<1>6. ASSUME UNCHANGED <<requestVars, writeVars, readVars, writer>> PROVE SInv'
  <2>1. RequestsOK' /\ Launched' = Launched /\ \A D : Framed(D)' <=> Framed(D)
    BY <1>6, WriterFrame
  <2>2. StoresOK'
    BY <1>6 DEF SInv, StoresOK, writeVars, readVars
  <2>3. FramesOK'
    BY <1>6, <2>1 DEF SInv, FramesOK, BuildOK, WriterOK, writeVars, readVars
  <2> QED
    BY <2>1, <2>2, <2>3 DEF SInv
<1>7. ASSUME NEW w \in Waiters, WaiterStep(w) PROVE SInv'
  BY <1>6, <1>7 DEF WaiterStep
<1>8. CASE UNCHANGED vars
  BY <1>6, <1>8 DEF vars
<1> QED
  BY <1>1, <1>2, <1>3, <1>4, <1>5, <1>7, <1>8 DEF Next

\* What the state manager keeps while it runs, as one invariant.
LEMMA SInvHolds == Spec => [](SInv /\ WInv)
<1>1. Init => SInv /\ WInv
  BY InitSInv, InitWInv
<1>2. SInv /\ WInv /\ [Next]_vars => (SInv /\ WInv)'
  BY NextSInv, NextWInv
<1> QED
  BY <1>1, <1>2, PTL DEF Spec

\* The type invariant of the state manager, for any events and any bounds.
THEOREM StateTypeCorrect == Spec => []TypeOK
  BY SInvHolds, SInvTypes, PTL

\* owner_object_index lists exactly the live objects under their owners: it is
\* maintained change by change by apply_committed_events, never rebuilt, and
\* does not drift whatever the events of a frame do to a key.
THEOREM IndexExactHolds == Spec => []IndexExact
<1>1. SInv => IndexExact
  BY DEF SInv, StoresOK, IndexFor, IndexExact
<1> QED
  BY <1>1, SInvHolds, PTL

-----------------------------------------------------------------------------
(* The state manager implements the serial store.                          *)

Batch == IF writer.pc \in {"applied", "published"} THEN writer.verdicts ELSE << >>

\* The serial store judges an event as the stale-read check with its shadow map
\* does, and agrees on what an applied event leaves at a key.
LEMMA SameJudgement ==
    ASSUME NEW r \in Results, smt \in Stores
    PROVE  /\ Serial!Judge(r) = Verdict(smt, r)
           /\ \A k \in Keys : Serial!ChangesAt(r, k) # {} =>
                Serial!Final(r, k) = Written(smt, r.changes)[k]
<1> DEFINE cs == r.changes
           N == Len(cs)
<1>1. N \in Nat /\ DOMAIN cs = 1 .. N /\ \A i \in 1 .. N : cs[i].key \in Keys
  <2>1. cs \in Seq(Changes)
    BY DEF Results
  <2>2. N \in Nat /\ DOMAIN cs = 1 .. N /\ \A i \in 1 .. N : cs[i] \in Changes
    BY <2>1
  <2> QED
    BY <2>2 DEF Changes
<1> HIDE DEF cs, N
<1>2. \A k : Serial!ChangesAt(r, k) = WritesOf(cs, N, k)
  BY <1>1 DEF Serial!ChangesAt, WritesOf, cs
<1>3. ASSUME NEW k \in Keys, NEW i \in WritesOf(cs, N, k)
      PROVE  /\ i \in 1 .. N /\ cs[i].key = k
             /\ {j \in WritesOf(cs, N, k) : j < i} = WritesOf(cs, i - 1, k)
  BY <1>1 DEF WritesOf
<1>4. ASSUME NEW k \in Keys
      PROVE  Serial!Consistent(r, k) <=>
               \A i \in WritesOf(cs, N, k) :
                 /\ cs[i].old # None => Shadow(smt, cs, i - 1, k) = cs[i].old
                 /\ cs[i].old = None /\ cs[i].new # None =>
                      Shadow(smt, cs, i - 1, k) = None /\ smt[k] = None
  <2>1. Serial!Consistent(r, k) <=>
          \A i \in WritesOf(cs, N, k) :
            LET before == IF {j \in WritesOf(cs, N, k) : j < i} = {} THEN smt[k]
                          ELSE cs[Last({j \in WritesOf(cs, N, k) : j < i})].new
            IN  /\ cs[i].old # None => before = cs[i].old
                /\ cs[i].old = None /\ cs[i].new # None => before = None /\ smt[k] = None
    BY <1>2 DEF Serial!Consistent, Last, cs
  <2> QED
    BY <1>3, <2>1, ZenonT(60) DEF Shadow
<1>5. Stale(smt, cs) <=> \E k \in Keys : ~Serial!Consistent(r, k)
  <2>1. \A i \in 1 .. N : cs[i].key \in Keys /\ i \in WritesOf(cs, N, cs[i].key)
    BY <1>1 DEF WritesOf
  <2>2. ASSUME NEW i \in 1 .. N
        PROVE  ~Conflict(smt, cs, i) <=>
                 /\ cs[i].old # None => Shadow(smt, cs, i - 1, cs[i].key) = cs[i].old
                 /\ cs[i].old = None /\ cs[i].new # None =>
                      Shadow(smt, cs, i - 1, cs[i].key) = None /\ smt[cs[i].key] = None
    BY DEF Conflict
  <2>3. ASSUME NEW i \in DOMAIN cs, Conflict(smt, cs, i) PROVE \E k \in Keys : ~Serial!Consistent(r, k)
    BY <1>1, <1>4, <2>1, <2>2, <2>3
  <2>4. ASSUME NEW k \in Keys, ~Serial!Consistent(r, k) PROVE Stale(smt, cs)
    BY <1>1, <1>3, <1>4, <2>2, <2>4 DEF Stale
  <2> QED
    BY <2>3, <2>4 DEF Stale
<1>6. Serial!Judge(r) = Verdict(smt, r)
  <2>1. CASE ~r.ok
    BY <2>1 DEF Serial!Judge, Verdict
  <2>2. CASE r.ok /\ Stale(smt, cs)
    BY <1>5, <2>2 DEF Serial!Judge, Verdict, cs
  <2>3. CASE r.ok /\ ~Stale(smt, cs)
    BY <1>5, <2>3 DEF Serial!Judge, Verdict, cs
  <2> QED
    BY <2>1, <2>2, <2>3
<1>7. ASSUME NEW k \in Keys, Serial!ChangesAt(r, k) # {}
      PROVE  Serial!Final(r, k) = Written(smt, r.changes)[k]
  <2>1. Serial!Final(r, k) = cs[Last(WritesOf(cs, N, k))].new
    <3>1. Serial!Final(r, k) = cs[Last(Serial!ChangesAt(r, k))].new
      BY Zenon DEF Serial!Final, Last, cs
    <3> QED
      BY <1>2, <3>1
  <2> QED
    BY <1>2, <1>7, <2>1 DEF Written, Shadow, cs, N
<1> QED
  BY <1>6, <1>7

\* Applying a frame decides it.
LEMMA ApplyDecides ==
    ASSUME SInv, NEW E, Framed(E), Apply(E), writer = Idle, UNCHANGED <<result, snapshot, outcome>>
    PROVE  E \in (SUBSET Txs) \ {{}} /\ Serial!Decide(E)
<1> DEFINE verdicts == [t \in E |-> Verdict(smt, result[t])]
           W(k) == {t \in E : Batch'[t] = "applied" /\ Serial!ChangesAt(result[t], k) # {}}
<1>1. /\ E \in SUBSET Txs /\ \A t \in E : result[t] \in Results
      /\ smt' \in Stores /\ writer' = Writing("applied", E, verdicts)
      /\ \A t \in E : \A k \in WriteKeys(result[t]) : smt'[k] = ApplyOne(smt, result[t])[k]
      /\ \A k \in Keys : (\A t \in E : k \notin WriteKeys(result[t])) => smt'[k] = smt[k]
  BY ApplyIs
<1>2. smt \in Stores /\ E # {} /\ \A s, t \in E : s # t => WriteKeys(result[s]) \cap WriteKeys(result[t]) = {}
  BY DEF SInv, StoresOK, Framed, DisjointWrites
<1>3. Batch = << >> /\ Batch' = verdicts
  BY <1>1 DEF Batch, Idle, Writing
<1> HIDE DEF Batch
<1>4. \A t \in E : result[t] # None
  BY <1>1, StateAssumption
<1>5. \A t \in E : Verdict(smt, result[t]) = Serial!Judge(result[t])
  BY <1>1, <1>2, SameJudgement
<1>6. Batch' = [t \in E |-> Serial!Judge(result[t])]
  BY <1>3, <1>5
<1>7. \A t \in E, k \in Keys : t \in W(k) <=> Verdict(smt, result[t]) = "applied" /\ k \in WriteKeys(result[t])
  <2>1. ASSUME NEW t \in E, Verdict(smt, result[t]) = "applied" PROVE result[t].ok
    BY <2>1 DEF Verdict
  <2>2. ASSUME NEW t \in E, NEW k, result[t].ok PROVE k \in WriteKeys(result[t]) <=> Serial!ChangesAt(result[t], k) # {}
    BY <2>2 DEF WriteKeys, Serial!ChangesAt
  <2> QED
    BY <1>3, <2>1, <2>2
<1> HIDE DEF W
<1>8. \A k \in Keys : W(k) \subseteq E /\ \A s, t \in W(k) : s = t
  <2>1. \A k \in Keys : W(k) \subseteq E
    BY DEF W
  <2> QED
    BY <1>2, <1>7, <2>1
<1>9. ASSUME NEW k \in Keys
      PROVE  smt'[k] = IF W(k) = {} THEN smt[k]
                       ELSE Serial!Final(result[CHOOSE t \in W(k) : TRUE], k)
  <2>1. CASE W(k) = {}
    <3>1. CASE \A t \in E : k \notin WriteKeys(result[t])
      BY <1>1, <2>1, <3>1
    <3>2. ASSUME NEW t \in E, k \in WriteKeys(result[t]) PROVE smt'[k] = smt[k]
      <4>1. Verdict(smt, result[t]) # "applied"
        BY <1>7, <2>1, <3>2
      <4> QED
        BY <1>1, <3>2, <4>1 DEF ApplyOne
    <3> QED
      BY <2>1, <3>1, <3>2
  <2>2. CASE W(k) # {}
    <3> DEFINE t == CHOOSE x \in W(k) : TRUE
    <3>1. t \in W(k)
      BY <2>2
    <3> HIDE DEF t
    <3>2. t \in E /\ Verdict(smt, result[t]) = "applied" /\ k \in WriteKeys(result[t])
      BY <1>7, <1>8, <3>1
    <3>3. Serial!ChangesAt(result[t], k) # {}
      BY <3>1 DEF W
    <3>4. smt'[k] = Written(smt, result[t].changes)[k]
      BY <1>1, <3>2 DEF ApplyOne
    <3>5. smt'[k] = Serial!Final(result[t], k)
      BY <1>1, <1>2, <3>2, <3>3, <3>4, SameJudgement
    <3> QED
      BY <2>2, <3>5 DEF t
  <2> QED
    BY <2>1, <2>2
<1>10. smt' = [k \in Keys |-> IF W(k) = {} THEN smt[k]
                              ELSE Serial!Final(result[CHOOSE t \in W(k) : TRUE], k)]
  BY <1>1, <1>9 DEF Stores
<1>11. Serial!Decide(E)
  BY <1>3, <1>4, <1>6, <1>8, <1>10, Zenon DEF Serial!Decide, W, Batch
<1> QED
  BY <1>1, <1>2, <1>11

\* Every step of the state manager is a step of the serial store, or none.
LEMMA StepSerial == SInv /\ [Next]_vars => [Serial!Next]_(Serial!serialVars)
<1> SUFFICES ASSUME SInv, [Next]_vars
             PROVE  Serial!Next \/ UNCHANGED <<result, smt, snapshot, Batch, outcome>>
  BY DEF Serial!serialVars, Batch
<1>0. ASSUME UNCHANGED <<result, smt, snapshot, writer, outcome>>
      PROVE  UNCHANGED <<result, smt, snapshot, Batch, outcome>>
  BY <1>0 DEF Batch
<1>1. ASSUME NEW t \in Txs, LoadView(t) \/ Submit(t) \/ Stage(t) \/ Redeliver(t)
      PROVE  UNCHANGED <<result, smt, snapshot, writer, outcome>>
  BY <1>1 DEF LoadView, Submit, Stage, Redeliver, requestVars, writeVars, readVars
<1>2. ASSUME NEW t \in Txs, NEW ok \in BOOLEAN, Execute(t, ok)
      PROVE  Serial!Next \/ UNCHANGED <<result, smt, snapshot, Batch, outcome>>
  <2> DEFINE view == [k \in Keys |-> IF t \in OverlayReaders THEN ViewOf(seen[t], k) ELSE seen[t][k]]
  <2>1. /\ pc[t] = "viewed" /\ UNCHANGED <<smt, snapshot, writer, outcome>>
        /\ \/ result' = [result EXCEPT ![t] = ResultFrom(view, t, ok)]
           \/ result' = result
    BY <1>2 DEF Execute, writeVars, readVars
  <2>2. CASE result' = result
    BY <1>0, <2>1, <2>2
  <2>3. CASE result' = [result EXCEPT ![t] = ResultFrom(view, t, ok)]
    <3>1. result[t] = None /\ result \in [Txs -> Results \cup {None}]
      BY <2>1 DEF SInv, RequestsOK, RequestAt
    <3>2. seen[t] \in Stores
      BY <2>1 DEF SInv, RequestsOK, RequestAt
    <3>3. view \in Stores
      <4>1. \A k \in Keys : seen[t][k] \in Vals
        BY <3>2 DEF Stores, Vals
      <4>2. \A k \in Keys : ViewOf(seen[t], k) \in Vals
        BY <3>2, ViewIs DEF SInv, StoresOK
      <4> QED
        BY <4>1, <4>2 DEF Stores, Vals
    <3> HIDE DEF view
    <3>4. ResultFrom(view, t, ok) # None
      BY <3>3, ResultIs
    <3>5. result'[t] # None /\ \A s \in Txs \ {t} : result'[s] = result[s]
      BY <2>3, <3>1, <3>4
    <3>6. Batch' = Batch
      BY <2>1 DEF Batch
    <3>7. Serial!Execute(t)
      BY <2>1, <3>1, <3>5, <3>6 DEF Serial!Execute, Batch
    <3> QED
      BY <3>7 DEF Serial!Next
  <2> QED
    BY <2>1, <2>2, <2>3
<1>3. ASSUME DropBuild \/ \E F \in SUBSET Txs : PrepareBuild(F)
      PROVE  UNCHANGED <<result, smt, snapshot, writer, outcome>>
  BY <1>3 DEF DropBuild, PrepareBuild, requestVars, readVars
<1>4. ASSUME NEW E, Discard(E), UNCHANGED <<requestVars, snapshot, outcome>>
      PROVE  UNCHANGED <<result, smt, snapshot, writer, outcome>>
  BY <1>4 DEF Discard, requestVars
<1>5. ASSUME NEW E, Framed(E), Apply(E), writer = Idle, UNCHANGED <<requestVars, snapshot, outcome>>
      PROVE  Serial!Next
  <2>1. UNCHANGED <<result, snapshot, outcome>>
    BY <1>5 DEF requestVars
  <2>2. E \in (SUBSET Txs) \ {{}} /\ Serial!Decide(E)
    BY <1>5, <2>1, ApplyDecides
  <2> QED
    BY <2>2 DEF Serial!Next
<1>6. ASSUME CommitBuild PROVE Serial!Next \/ UNCHANGED <<result, smt, snapshot, Batch, outcome>>
  <2>1. /\ build # None /\ writer = Idle /\ UNCHANGED <<requestVars, snapshot, outcome>>
        /\ Apply(build.events) \/ Discard(build.events)
    BY <1>6 DEF CommitBuild
  <2>2. Framed(build.events)
    BY <2>1 DEF SInv, FramesOK, BuildOK
  <2> QED
    BY <1>0, <1>4, <1>5, <2>1, <2>2
<1>7. ASSUME NEW E \in SUBSET Txs, NEW match \in BOOLEAN, FollowCf(E, match)
      PROVE  Serial!Next \/ UNCHANGED <<result, smt, snapshot, Batch, outcome>>
  <2>1. /\ writer = Idle /\ UNCHANGED <<requestVars, snapshot, outcome>>
        /\ Apply(E) \/ Discard(E)
    BY <1>7 DEF FollowCf
  <2>2. Framed(E)
    BY <1>7, FollowStep
  <2> QED
    BY <1>0, <1>4, <1>5, <2>1, <2>2
\* The frame on its way has at least one event, so its verdicts are a batch.
<1>8. ASSUME writer.pc \in {"applied", "published"}
      PROVE  /\ Batch = writer.verdicts /\ DOMAIN Batch = writer.events /\ Batch # << >>
             /\ writer = Writing(writer.pc, writer.events, writer.verdicts)
  <2>1. /\ writer.events # {} /\ writer.verdicts \in [writer.events -> Verdicts]
        /\ writer = Writing(writer.pc, writer.events, writer.verdicts)
    BY <1>8, WriterHolds
  <2>2. Batch = writer.verdicts
    BY <1>8 DEF Batch
  <2>3. DOMAIN << >> = {}
    OBVIOUS
  <2> QED
    BY <2>1, <2>2, <2>3
<1>9. ASSUME CommitFails PROVE Serial!Next
  <2>1. /\ writer.pc = "applied" /\ writer' = Idle /\ UNCHANGED <<result, smt, snapshot, outcome>>
    BY <1>9 DEF CommitFails, requestVars
  <2>2. Batch # << >> /\ Batch' = << >>
    BY <1>8, <2>1 DEF Batch, Idle
  <2>3. Serial!Forget
    BY <2>1, <2>2 DEF Serial!Forget, Batch
  <2> QED
    BY <2>3 DEF Serial!Next
<1>10. ASSUME PublishSnapshot PROVE Serial!Next
  <2>1. /\ writer.pc = "applied" /\ writer' = [writer EXCEPT !.pc = "published"] /\ snapshot' = smt
        /\ UNCHANGED <<result, smt, outcome>>
    BY <1>10 DEF PublishSnapshot, requestVars, writeVars
  <2>2. writer' = Writing("published", writer.events, writer.verdicts)
    BY <1>8, <2>1 DEF Writing
  <2>3. Batch # << >> /\ Batch' = Batch
    BY <1>8, <2>1, <2>2 DEF Batch, Writing
  <2>4. Serial!Publish
    BY <2>1, <2>3 DEF Serial!Publish, Batch
  <2> QED
    BY <2>4 DEF Serial!Next
<1>11. ASSUME IngestOutcomes PROVE Serial!Next
  <2>1. /\ writer.pc = "published" /\ writer' = [writer EXCEPT !.pc = "recorded"]
        /\ outcome' = [t \in Txs |-> IF t \in writer.events THEN writer.verdicts[t] ELSE outcome[t]]
        /\ UNCHANGED <<result, smt, snapshot>>
    BY <1>11 DEF IngestOutcomes, requestVars, writeVars
  <2>2. Batch # << >> /\ Batch = writer.verdicts /\ DOMAIN Batch = writer.events
        /\ writer = Writing(writer.pc, writer.events, writer.verdicts)
    BY <1>8, <2>1
  <2>3. Batch' = << >>
    <3>1. writer' = Writing("recorded", writer.events, writer.verdicts)
      BY <2>1, <2>2 DEF Writing
    <3> QED
      BY <3>1 DEF Batch, Writing
  <2>4. outcome' = [t \in Txs |-> IF t \in DOMAIN Batch THEN Batch[t] ELSE outcome[t]]
    BY <2>1, <2>2
  <2>5. snapshot = smt
    BY <2>1 DEF SInv, FramesOK
  <2>6. Serial!Report
    BY <2>1, <2>2, <2>3, <2>4, <2>5 DEF Serial!Report, Batch
  <2> QED
    BY <2>6 DEF Serial!Next
<1>12. ASSUME Finish PROVE UNCHANGED <<result, smt, snapshot, Batch, outcome>>
  <2>1. writer.pc = "recorded" /\ writer' = Idle /\ UNCHANGED <<result, smt, snapshot, outcome>>
    BY <1>12 DEF Finish, requestVars
  <2> QED
    BY <2>1 DEF Batch, Idle
<1>13. ASSUME NEW w \in Waiters, WaiterStep(w) PROVE UNCHANGED <<result, smt, snapshot, writer, outcome>>
  BY <1>13 DEF WaiterStep, requestVars, writeVars, readVars
<1>14. CASE UNCHANGED vars
  BY <1>0, <1>14 DEF vars, requestVars, writeVars, readVars
<1> QED
  BY <1>0, <1>1, <1>2, <1>3, <1>6, <1>7, <1>9, <1>10, <1>11, <1>12, <1>13, <1>14 DEF Next

\* The sorted fold with its shadow map, the two paths of classify_finalization,
\* publish_snapshot and the outcome tracker together implement the serial store
\* of SerialState: frames are atomic and disjoint, an event is judged against
\* the state before its frame, and a verdict is reported after its state.
THEOREM StateImplementsSerial == Spec => ImplementsSerial
<1>1. Init => Serial!Init
  <2> SUFFICES ASSUME Init PROVE Serial!Init
    OBVIOUS
  <2>1. Batch = << >>
    BY DEF Init, Batch, Idle
  <2> QED
    BY <2>1 DEF Init, Serial!Init, Batch
<1>2. SInv /\ [Next]_vars => [Serial!Next]_(Serial!serialVars)
  BY StepSerial
<1> QED
  BY <1>1, <1>2, SInvHolds, PTL DEF Spec, ImplementsSerial, Serial!Spec

-----------------------------------------------------------------------------
(* The leader's build.                                                     *)

\* A frame's outcome depends on the results of its own events only.
LEMMA SameResults ==
    ASSUME NEW store \in Stores, NEW E \in SUBSET Txs, NEW r1, NEW r2,
           \A t \in E : r1[t] \in Results /\ r2[t] = r1[t], DisjointWrites(E, r1)
    PROVE  ApplyCommittedEvents(store, E, r2) = ApplyCommittedEvents(store, E, r1)
<1>1. store \in StoresOver(Vals) /\ \A t \in E : r1[t] \in ResultsOver(Vals) /\ r2[t] \in ResultsOver(Vals)
  BY OverVals
<1>2. DisjointWrites(E, r2)
  BY DEF DisjointWrites
<1>3. InParallel(Vals, store, E, r1) /\ InParallel(Vals, store, E, r2)
  BY <1>1, <1>2, FrameIsParallel
<1> DEFINE x == ApplyCommittedEvents(store, E, r1)
           y == ApplyCommittedEvents(store, E, r2)
<1>4. /\ x \in StoresOver(Vals) /\ y \in StoresOver(Vals)
      /\ \A t \in E : \A k \in WriteKeys(r1[t]) : x[k] = ApplyOne(store, r1[t])[k]
      /\ \A t \in E : \A k \in WriteKeys(r2[t]) : y[k] = ApplyOne(store, r2[t])[k]
      /\ \A k \in Keys : (\A t \in E : k \notin WriteKeys(r1[t])) => x[k] = store[k]
      /\ \A k \in Keys : (\A t \in E : k \notin WriteKeys(r2[t])) => y[k] = store[k]
  BY <1>3 DEF InParallel
<1> HIDE DEF x, y
<1>5. ASSUME NEW k \in Keys PROVE x[k] = y[k]
  <2>1. CASE \A t \in E : k \notin WriteKeys(r1[t])
    BY <1>4, <2>1
  <2>2. ASSUME NEW t \in E, k \in WriteKeys(r1[t]) PROVE x[k] = y[k]
    BY <1>4, <2>2
  <2> QED
    BY <2>1, <2>2
<1>6. x = y
  BY <1>4, <1>5 DEF StoresOver
<1> QED
  BY <1>6 DEF x, y

\* Without a failed commit a build is never ahead of the chain, and while no
\* frame was committed since it was prepared its root is the one it declared.
BuildCurrent ==
    build # None /\ faults.commit = 0 =>
        /\ build.depth <= depth
        /\ writer = Idle /\ build.depth = depth =>
             ApplyCommittedEvents(smt, build.events, result) = build.root

\* Every step keeps a build that may be committed on the state it was made for.
LEMMA NextBuildCurrent == SInv /\ BuildCurrent /\ [Next]_vars => BuildCurrent'
<1> SUFFICES ASSUME SInv, BuildCurrent, [Next]_vars PROVE BuildCurrent'
  OBVIOUS
<1>0. /\ depth \in Nat /\ smt \in Stores /\ faults.commit \in Nat
      /\ build # None => build.depth \in Nat /\ Framed(build.events) /\ build.events \in SUBSET Txs
      /\ result \in [Txs -> Results \cup {None}]
  BY StateAssumption DEF SInv, StoresOK, FramesOK, BuildOK, RequestsOK
<1>1. ASSUME UNCHANGED <<build, smt, depth, writer>>, faults'.commit = faults.commit,
             \A t \in Launched : result'[t] = result[t]
      PROVE  BuildCurrent'
  <2>1. SUFFICES ASSUME build # None
                 PROVE  ApplyCommittedEvents(smt, build.events, result') =
                          ApplyCommittedEvents(smt, build.events, result)
    BY <1>1 DEF BuildCurrent
  <2> DEFINE E == build.events
  <2>2. E \in SUBSET Txs /\ E \subseteq Launched /\ DisjointWrites(E, result)
    BY <1>0, <2>1 DEF Framed
  <2>3. \A t \in E : result[t] \in Results /\ result'[t] = result[t]
    BY <1>1, <2>2 DEF SInv, RequestsOK, RequestAt, Launched
  <2> HIDE DEF E
  <2>4. ApplyCommittedEvents(smt, E, result') = ApplyCommittedEvents(smt, E, result)
    BY <1>0, <2>2, <2>3, SameResults
  <2> QED
    BY <2>4 DEF E
\* While a frame is on its way, or after it, nothing is claimed.
<1>2. ASSUME UNCHANGED <<build, depth>>, faults'.commit = faults.commit, writer' # Idle
      PROVE  BuildCurrent'
  BY <1>2 DEF BuildCurrent
<1>3. ASSUME NEW t \in Txs, LoadView(t) \/ Submit(t) \/ Stage(t) PROVE BuildCurrent'
  BY <1>1, <1>3 DEF LoadView, Submit, Stage, writeVars
<1>4. ASSUME NEW t \in Txs, Redeliver(t) PROVE BuildCurrent'
  <2>1. faults'.commit = faults.commit
    BY <1>4 DEF Redeliver, SInv, StoresOK
  <2> QED
    BY <1>1, <1>4, <2>1 DEF Redeliver, requestVars
<1>5. ASSUME NEW t \in Txs, NEW ok \in BOOLEAN, Execute(t, ok) PROVE BuildCurrent'
  <2>1. pc[t] = "viewed" /\ UNCHANGED <<build, smt, depth, writer, faults>>
        /\ \/ \E r : result' = [result EXCEPT ![t] = r]
           \/ result' = result
    BY <1>5 DEF Execute, writeVars
  <2>2. \A s \in Launched : s # t /\ result'[s] = result[s]
    BY <1>0, <2>1 DEF Launched
  <2> QED
    BY <1>1, <2>1, <2>2
<1>6. ASSUME NEW F \in SUBSET Txs, PrepareBuild(F) PROVE BuildCurrent'
  <2> DEFINE E == Fold(pending \ F, result, MaxEventsPerCf)
  <2>1. /\ build' = [events |-> E, depth |-> depth, root |-> ApplyCommittedEvents(smt, E, result)]
        /\ UNCHANGED <<smt, depth, result>>
    BY <1>6 DEF PrepareBuild, requestVars
  <2> HIDE DEF E
  <2>2. build'.depth = depth /\ build'.events = E /\ build'.root = ApplyCommittedEvents(smt, E, result)
    BY <2>1
  <2> QED
    BY <1>0, <2>1, <2>2 DEF BuildCurrent
<1>7. ASSUME DropBuild \/ CommitBuild PROVE BuildCurrent'
  BY <1>7 DEF DropBuild, CommitBuild, BuildCurrent
<1>8. ASSUME NEW E \in SUBSET Txs, NEW match \in BOOLEAN, FollowCf(E, match) PROVE BuildCurrent'
  <2>1. /\ UNCHANGED <<requestVars, build, depth>>
        /\ (Apply(E) /\ UNCHANGED faults) \/ Discard(E)
    BY <1>8 DEF FollowCf
  <2>2. CASE Apply(E) /\ UNCHANGED faults
    <3>1. writer' # Idle
      BY <2>2 DEF Apply, Idle
    <3> QED
      BY <1>2, <2>1, <2>2, <3>1
  <2>3. CASE Discard(E)
    <3>1. faults'.commit = faults.commit /\ UNCHANGED <<smt, writer, result>>
      BY <2>1, <2>3 DEF Discard, SInv, StoresOK, requestVars
    <3> QED
      BY <1>1, <2>1, <3>1
  <2> QED
    BY <2>1, <2>2, <2>3
<1>9. ASSUME CommitFails PROVE BuildCurrent'
  <2>1. faults'.commit = faults.commit + 1
    BY <1>9 DEF CommitFails, SInv, StoresOK
  <2> QED
    BY <1>0, <2>1 DEF BuildCurrent
<1>10. ASSUME PublishSnapshot \/ IngestOutcomes PROVE BuildCurrent'
  <2>1. /\ writer.pc \in {"applied", "published"}
        /\ writer' = [writer EXCEPT !.pc = "published"] \/ writer' = [writer EXCEPT !.pc = "recorded"]
        /\ UNCHANGED <<build, depth, faults>>
    BY <1>10 DEF PublishSnapshot, IngestOutcomes, writeVars
  <2>2. writer = Writing(writer.pc, writer.events, writer.verdicts)
    BY <2>1, WriterHolds
  <2>3. writer'.pc \in {"published", "recorded"}
    BY <2>1, <2>2 DEF Writing
  <2>4. writer' # Idle
    BY <2>3 DEF Idle
  <2> QED
    BY <1>2, <2>1, <2>4
<1>11. ASSUME Finish PROVE BuildCurrent'
  <2>1. depth' = depth + 1 /\ UNCHANGED <<build, faults>>
    BY <1>11 DEF Finish
  <2> QED
    BY <1>0, <2>1 DEF BuildCurrent
<1>12. ASSUME NEW w \in Waiters, WaiterStep(w) PROVE BuildCurrent'
  BY <1>1, <1>12 DEF WaiterStep, requestVars, writeVars
<1>13. CASE UNCHANGED vars
  BY <1>1, <1>13 DEF vars, requestVars, writeVars
<1> QED
  BY <1>3, <1>4, <1>5, <1>6, <1>7, <1>8, <1>9, <1>10, <1>11, <1>12, <1>13 DEF Next

\* verify_snapshot compares depths only, and that is enough: as long as no
\* commit failed, a build that passes it commits to the root that it declared,
\* whatever was executed, submitted, followed or discarded since.
THEOREM BuildKeepsRootHolds == Spec => []BuildKeepsRoot
<1>1. Init => BuildCurrent
  BY DEF Init, BuildCurrent
<1>2. BuildCurrent => BuildKeepsRoot
  BY DEF BuildCurrent, BuildKeepsRoot
<1> QED
  BY <1>1, <1>2, NextBuildCurrent, SInvHolds, PTL DEF Spec

-----------------------------------------------------------------------------
(* The wakeups.                                                            *)

Old(v) == v \in {None, Genesis}

\* A slot is named after a request that made it: that one is past its lookup.
Fresh ==
    \A w \in Waiters : wpc[w] \in {"start", "reserved"} =>
        slot # w /\ \A v \in Waiters : held[v] # w

\* Readers see the store, except between apply and publish.
Published == faults.commit = 0 /\ writer.pc # "applied" => snapshot = smt

\* A request that sleeps on the slot that is in the registry.
Asleep(w) == wpc[w] = "parked" /\ ~notified[w] /\ w \notin raced /\ held[w] = slot

\* What it sleeps for has not been written.
Unwritten ==
    faults.commit = 0 => \A w \in FinalReaders : Asleep(w) => Old(smt[Target]) /\ Old(snapshot[Target])

NInv == Fresh /\ Published /\ Unwritten

\* A step of the requests and of the writer that writes no value.
LEMMA QuietStep ==
    ASSUME NInv, UNCHANGED watcherVars, smt' = smt, snapshot' \in {snapshot, smt},
           faults'.commit = faults.commit,
           faults.commit = 0 /\ writer'.pc # "applied" => snapshot' = smt
    PROVE  NInv'
<1>1. UNCHANGED <<wpc, held, notified, slot, raced>>
  BY DEF watcherVars
<1>2. Fresh'
  BY <1>1 DEF NInv, Fresh
<1>3. Unwritten'
  BY <1>1 DEF NInv, Unwritten, Asleep
<1> QED
  BY <1>2, <1>3 DEF NInv, Published

\* A frame that writes the object wakes the requests that sleep on its slot.
LEMMA ApplyWakes ==
    ASSUME SInv, WInv, NInv, NEW E, Framed(E), Apply(E), UNCHANGED <<snapshot, faults>>
    PROVE  NInv'
<1>1. /\ UNCHANGED <<wpc, held, slot, raced>>
      /\ IF \E t \in E : Target \in WriteKeys(result[t]) THEN NotifySlot ELSE UNCHANGED notified
  BY DEF Apply
<1>2. /\ writer'.pc = "applied"
      /\ (\A t \in E : Target \notin WriteKeys(result[t])) => smt'[Target] = smt[Target]
  BY ApplyIs, StateAssumption DEF Writing
<1>3. Fresh'
  BY <1>1 DEF NInv, Fresh
<1>4. FinalReaders \subseteq Waiters
  BY StateAssumption
<1>5. ASSUME NEW w \in FinalReaders, Asleep(w)', faults.commit = 0
      PROVE  Old(smt'[Target]) /\ Old(snapshot[Target])
  <2>1. CASE \E t \in E : Target \in WriteKeys(result[t])
    <3>1. NotifySlot /\ wpc[w] = "parked" /\ held[w] = slot /\ ~notified'[w]
      BY <1>1, <1>5, <2>1 DEF Asleep
    <3>2. slot # NoSlot
      BY <1>4, <3>1, CapsAssumption DEF WInv, HasSlot, Counted
    <3>3. notified'[w]
      BY <1>4, <3>1, <3>2 DEF NotifySlot
    <3> QED
      BY <3>1, <3>3
  <2>2. CASE ~ \E t \in E : Target \in WriteKeys(result[t])
    <3>1. Asleep(w) /\ smt'[Target] = smt[Target]
      BY <1>1, <1>2, <1>5, <2>2 DEF Asleep
    <3> QED
      BY <1>5, <3>1 DEF NInv, Unwritten
  <2> QED
    BY <2>1, <2>2
<1>6. Unwritten'
  BY <1>5 DEF Unwritten
<1> QED
  BY <1>2, <1>3, <1>6 DEF NInv, Published

\* A step of one waiter.
LEMMA WaiterNInv ==
    ASSUME SInv, WInv, NInv, NEW w \in Waiters, WaiterStep(w)
    PROVE  NInv'
<1>0. /\ UNCHANGED <<smt, snapshot, faults, writer>>
      /\ wpc \in [Waiters -> Names] /\ held \in [Waiters -> Waiters \cup {NoSlot}]
      /\ notified \in [Waiters -> BOOLEAN] /\ raced \in SUBSET Waiters /\ NoSlot \notin Waiters
      /\ FinalReaders \subseteq Waiters
  BY CapsAssumption, StateAssumption DEF WaiterStep, writeVars, readVars, WInv, WatcherTypeOK, Names
<1>1. Published'
  BY <1>0 DEF NInv, Published
\* Most steps move the request and nothing the others depend on.
<1>2. ASSUME NEW place, wpc' = [wpc EXCEPT ![w] = place], UNCHANGED <<held, slot>>,
             place \notin {"start", "parked"}, place = "reserved" => wpc[w] = "start",
             \A v \in Waiters \ {w} : notified'[v] = notified[v] /\ (v \in raced' <=> v \in raced)
      PROVE  NInv'
  <2>1. wpc'[w] = place /\ \A v \in Waiters \ {w} : wpc'[v] = wpc[v]
    BY <1>0, <1>2
  <2>2. Fresh'
    BY <1>2, <2>1 DEF NInv, Fresh
  <2>3. \A v \in FinalReaders : Asleep(v)' => Asleep(v)
    BY <1>0, <1>2, <2>1 DEF Asleep
  <2> QED
    BY <1>0, <1>1, <2>2, <2>3 DEF NInv, Unwritten
<1>3. CASE Reserve(w)
  <2>1. PICK place \in {"refund", "reserved"} : wpc' = [wpc EXCEPT ![w] = place]
    BY <1>3 DEF Reserve
  <2>2. wpc[w] = "start" /\ UNCHANGED <<held, slot, notified, raced>>
    BY <1>3 DEF Reserve
  <2> QED
    BY <1>2, <2>1, <2>2
<1>4. CASE Count(w) \/ Uncount(w) \/ Refund(w) \/ Wake(w) \/ TimeOut(w) \/ Leave(w) \/ LeaveGlobal(w)
          \/ SeeEmpty(w)
  <2>1. UNCHANGED <<held, slot, notified, raced>> /\
        \E place \in {"uncount", "waiting", "refund", "gone", "leaving", "left", "sweep", "remove"} :
          wpc' = [wpc EXCEPT ![w] = place]
    BY <1>4 DEF Count, Uncount, Refund, Wake, TimeOut, Leave, LeaveGlobal, SeeEmpty
  <2> QED
    BY <1>2, <2>1
<1>5. CASE Arm(w)
  <2>1. /\ wpc' = [wpc EXCEPT ![w] = "armed"] /\ UNCHANGED <<held, slot, raced>>
        /\ notified' = [notified EXCEPT ![w] = FALSE]
    BY <1>5 DEF Arm
  <2>2. \A v \in Waiters \ {w} : notified'[v] = notified[v] /\ (v \in raced' <=> v \in raced)
    BY <1>0, <2>1
  <2>3. PICK place : place = "armed" /\ wpc' = [wpc EXCEPT ![w] = place]
    BY <2>1
  <2>4. place \notin {"start", "parked", "reserved"}
    BY <2>3
  <2> QED
    BY <1>2, <2>1, <2>2, <2>3, <2>4
<1>6. CASE GetSlot(w)
  <2>1. /\ wpc[w] = "reserved" /\ wpc' = [wpc EXCEPT ![w] = "held"] /\ UNCHANGED <<notified, raced>>
        /\ slot' = IF slot = NoSlot THEN w ELSE slot
        /\ held' = [held EXCEPT ![w] = slot']
    BY <1>6 DEF GetSlot
  <2>2. /\ wpc'[w] = "held" /\ held'[w] = slot'
        /\ \A v \in Waiters \ {w} : wpc'[v] = wpc[v] /\ held'[v] = held[v]
    BY <1>0, <2>1
  <2>3. Fresh'
    BY <2>1, <2>2 DEF NInv, Fresh
  <2>4. ASSUME NEW v \in FinalReaders, Asleep(v)' PROVE Asleep(v)
    <3>1. v \in Waiters \ {w}
      BY <1>0, <2>2, <2>4 DEF Asleep
    <3>2. held[v] # w
      BY <2>1, <3>1 DEF NInv, Fresh
    <3> QED
      BY <2>1, <2>2, <2>4, <3>1, <3>2 DEF Asleep
  <2> QED
    BY <1>0, <1>1, <2>3, <2>4 DEF NInv, Unwritten
<1>7. CASE Sweep(w)
  <2>1. /\ wpc' = [wpc EXCEPT ![w] = "gone"] /\ slot' \in {slot, NoSlot} /\ UNCHANGED <<held, notified, raced>>
    BY <1>7 DEF Sweep
  <2>2. wpc'[w] = "gone" /\ \A v \in Waiters \ {w} : wpc'[v] = wpc[v]
    BY <1>0, <2>1
  <2>3. Fresh'
    BY <1>0, <2>1, <2>2 DEF NInv, Fresh
  <2>4. ASSUME NEW v \in FinalReaders, Asleep(v)' PROVE Asleep(v)
    <3>1. v \in Waiters \ {w} /\ wpc[v] = "parked"
      BY <1>0, <2>2, <2>4 DEF Asleep
    <3>2. held[v] \in Waiters
      BY <3>1 DEF WInv, HasSlot, Counted
    <3> QED
      BY <1>0, <2>1, <2>4, <3>1, <3>2 DEF Asleep
  <2> QED
    BY <1>0, <1>1, <2>3, <2>4 DEF NInv, Unwritten
<1>8. CASE Check(w, Resolved(w), w \in FinalReaders /\ writer.pc = "applied")
  <2>1. /\ wpc[w] = "armed" /\ UNCHANGED <<held, notified, slot>>
        /\ wpc' = [wpc EXCEPT ![w] = IF Resolved(w) THEN "leaving" ELSE "parked"]
        /\ raced' = IF w \in FinalReaders /\ writer.pc = "applied" THEN raced \cup {w} ELSE raced \ {w}
    BY <1>8 DEF Check
  <2>2. \A v \in Waiters \ {w} : wpc'[v] = wpc[v] /\ (v \in raced' <=> v \in raced)
    BY <1>0, <2>1
  <2>3. Fresh'
    <3>1. wpc'[w] \in {"leaving", "parked"}
      BY <1>0, <2>1
    <3> QED
      BY <2>1, <2>2, <3>1 DEF NInv, Fresh
  <2>4. ASSUME NEW v \in FinalReaders, Asleep(v)', faults.commit = 0
        PROVE  Old(smt[Target]) /\ Old(snapshot[Target])
    <3>1. CASE v = w
      <4>1. wpc'[w] = "parked" /\ w \notin raced'
        BY <2>4, <3>1 DEF Asleep
      <4>2. ~Resolved(w) /\ writer.pc # "applied"
        BY <1>0, <2>1, <2>4, <3>1, <4>1
      <4>3. Old(snapshot[Target])
        BY <2>4, <3>1, <4>2 DEF Resolved, Old
      <4> QED
        BY <2>4, <4>2, <4>3 DEF NInv, Published
    <3>2. CASE v # w
      <4>1. v \in Waiters \ {w}
        BY <1>0, <3>2
      <4>2. Asleep(v)
        BY <2>1, <2>2, <2>4, <4>1 DEF Asleep
      <4> QED
        BY <2>4, <4>2 DEF NInv, Unwritten
    <3> QED
      BY <3>1, <3>2
  <2>5. Unwritten'
    BY <1>0, <2>4 DEF Unwritten
  <2> QED
    BY <1>1, <2>3, <2>5 DEF NInv
<1> QED
  BY <1>3, <1>4, <1>5, <1>6, <1>7, <1>8 DEF WaiterStep, WatcherStep

\* Every step keeps sleeping waiters away from what is already readable.
LEMMA NextNInv == SInv /\ WInv /\ NInv /\ [Next]_vars => NInv'
<1> SUFFICES ASSUME SInv, WInv, NInv, [Next]_vars PROVE NInv'
  OBVIOUS
<1>0. faults \in [discard : 0 .. MaxDiscards, commit : 0 .. MaxCommitFailures,
                  redeliver : 0 .. MaxRedeliveries]
  BY DEF SInv, StoresOK
<1>1. ASSUME UNCHANGED <<watcherVars, smt, snapshot, writer>>, faults'.commit = faults.commit
      PROVE  NInv'
  BY <1>1, QuietStep DEF NInv, Published
<1>2. ASSUME NEW t \in Txs, LoadView(t) \/ Submit(t) \/ Stage(t) \/ \E ok \in BOOLEAN : Execute(t, ok)
      PROVE  NInv'
  BY <1>1, <1>2 DEF LoadView, Submit, Stage, Execute, writeVars, readVars
<1>3. ASSUME NEW t \in Txs, Redeliver(t) PROVE NInv'
  <2>1. faults'.commit = faults.commit
    BY <1>0, <1>3 DEF Redeliver
  <2> QED
    BY <1>1, <1>3, <2>1 DEF Redeliver, readVars
<1>4. ASSUME DropBuild \/ \E F \in SUBSET Txs : PrepareBuild(F) PROVE NInv'
  <2>1. faults'.commit = faults.commit
    BY <1>0, <1>4 DEF DropBuild, PrepareBuild
  <2> QED
    BY <1>1, <1>4, <2>1 DEF DropBuild, PrepareBuild, readVars
<1>5. ASSUME NEW E, Discard(E), snapshot' = snapshot PROVE NInv'
  <2>1. faults'.commit = faults.commit
    BY <1>0, <1>5 DEF Discard
  <2> QED
    BY <1>1, <1>5, <2>1 DEF Discard
<1>6. ASSUME CommitBuild PROVE NInv'
  <2>1. /\ build # None /\ snapshot' = snapshot
        /\ (Apply(build.events) /\ UNCHANGED faults) \/ Discard(build.events)
    BY <1>6 DEF CommitBuild
  <2>2. Framed(build.events)
    BY <2>1 DEF SInv, FramesOK, BuildOK
  <2> QED
    BY <1>5, <2>1, <2>2, ApplyWakes
<1>7. ASSUME NEW E \in SUBSET Txs, NEW match \in BOOLEAN, FollowCf(E, match) PROVE NInv'
  <2>1. snapshot' = snapshot /\ ((Apply(E) /\ UNCHANGED faults) \/ Discard(E))
    BY <1>7 DEF FollowCf
  <2>2. Framed(E)
    BY <1>7, FollowStep
  <2> QED
    BY <1>5, <2>1, <2>2, ApplyWakes
<1>8. ASSUME CommitFails PROVE NInv'
  <2>1. faults'.commit = faults.commit + 1 /\ faults.commit \in Nat
    BY <1>0, <1>8 DEF CommitFails
  <2>2. UNCHANGED <<wpc, held, slot>>
    BY <1>8 DEF CommitFails, watcherVars
  <2>3. faults'.commit # 0
    BY <2>1
  <2> QED
    BY <2>2, <2>3 DEF NInv, Fresh, Published, Unwritten
<1>9. ASSUME PublishSnapshot PROVE NInv'
  BY <1>9, QuietStep DEF PublishSnapshot, writeVars
<1>10. ASSUME IngestOutcomes \/ Finish PROVE NInv'
  <2>1. writer.pc # "applied" /\ UNCHANGED <<watcherVars, smt, snapshot, faults>>
    BY <1>10 DEF IngestOutcomes, Finish, writeVars
  <2> QED
    BY <2>1, QuietStep DEF NInv, Published
<1>11. ASSUME NEW w \in Waiters, WaiterStep(w) PROVE NInv'
  BY <1>11, WaiterNInv
<1>12. CASE UNCHANGED vars
  BY <1>1, <1>12 DEF vars, writeVars, readVars
<1> QED
  BY <1>2, <1>3, <1>4, <1>6, <1>7, <1>8, <1>9, <1>10, <1>11, <1>12 DEF Next

\* The lost-wakeup claim of wait_move_object_min_version: outside the window
\* between notify and publish, and for a request whose slot was not swept, a
\* request is never left waiting for a version it could read.
THEOREM NoLostWakeupHolds == Spec => []NoLostWakeup
<1>1. Init => NInv
  <2> SUFFICES ASSUME Init PROVE NInv
    OBVIOUS
  <2>1. FinalReaders \subseteq Waiters /\ NoSlot \notin Waiters
    BY StateAssumption, CapsAssumption
  <2> QED
    BY <2>1 DEF Init, InitWatcher, NInv, Fresh, Published, Unwritten, Asleep
<1>2. NInv => NoLostWakeup
  BY DEF NInv, Unwritten, Asleep, Old, NoLostWakeup, Parked, Resolved
<1> QED
  BY <1>1, <1>2, NextNInv, SInvHolds, PTL DEF Spec

-----------------------------------------------------------------------------
(* An event takes effect once.                                             *)

Past == {t \in Txs : pc[t] \in {"executed", "submitted", "done"}}

\* v is a value that event s writes.
Wrote(v, s) == \E j \in DOMAIN Ops[s] : v = <<s, j>>

\* Nobody sees a value before it was computed.
Known(v) == \A s \in Txs : Wrote(v, s) => s \in Past

\* Change i of event t is its first to k, and says which value it replaces.
Opening(t, i, k) ==
    /\ NeverCreated(k) /\ i \in DOMAIN Ops[t]
    /\ Ops[t][i].key = k /\ Ops[t][i].kind \in {"update", "delete"}
    /\ \A j \in 1 .. i - 1 : Ops[t][j].key # k

OriginsOK ==
    /\ \A k \in Keys : Known(snapshot[k])
    /\ \A t \in Txs : pc[t] = "viewed" => \A k \in Keys : Known(seen[t][k])
    /\ \A i \in 1 .. Len(overlay) : Known(overlay[i].value)
    /\ \A t \in Past : \E view \in Stores :
         /\ result[t] = ResultFrom(view, t, result[t].ok) /\ Runs(view, t)
         /\ \A k \in Keys : ~Wrote(view[k], t)

\* A value that was replaced does not come back: to write it again its event
\* would have to find the value that it replaced itself.
Spent(t, i, k) ==
    /\ effects[t] = 1
    /\ smt[k] # result[t].changes[i].old
    /\ \A s \in Txs : Wrote(result[t].changes[i].old, s) => effects[s] >= 1

EffectsOK ==
    /\ \A t \in Txs : effects[t] >= 1 => t \in Launched
    /\ \A k \in Keys, s \in Txs : Wrote(smt[k], s) => effects[s] >= 1
    /\ \A t \in Past, k \in Keys : \A i : Opening(t, i, k) /\ effects[t] >= 1 => Spent(t, i, k)

EInv == OriginsOK /\ EffectsOK

\* An event that could run and replaces k opens it with the value it replaces.
LEMMA OpeningExists ==
    ASSUME NEW t \in Txs, NEW view \in Stores, Runs(view, t), NEW k \in Keys, NeverCreated(k),
           \E i \in DOMAIN Ops[t] : Ops[t][i].key = k /\ Ops[t][i].kind \in {"update", "delete"}
    PROVE  \E i : Opening(t, i, k)
<1> DEFINE I == {i \in DOMAIN Ops[t] : Ops[t][i].key = k /\ Ops[t][i].kind \in {"update", "delete"}}
<1>1. Len(Ops[t]) \in Nat /\ DOMAIN Ops[t] = 1 .. Len(Ops[t])
  BY OpsAre
<1>2. PICK i \in I : \A j \in I : i <= j
  <2>1. I \in SUBSET Nat /\ I # {}
    BY <1>1
  <2> HIDE DEF I
  <2> QED
    BY <2>1, LeastElement
<1>3. i \in DOMAIN Ops[t] /\ Ops[t][i].key = k /\ Ops[t][i].kind \in {"update", "delete"} /\ i \in Nat
  BY <1>1, <1>2
<1> DEFINE J == {j \in 1 .. i - 1 : Ops[t][j].key = Ops[t][i].key}
<1>4. J = {}
  <2> SUFFICES ASSUME J # {} PROVE FALSE
    OBVIOUS
  <2>1. J \in SUBSET (1 .. i - 1) /\ i - 1 \in Nat
    BY <1>1, <1>3
  <2>2. Last(J) \in J
    <3> HIDE DEF J
    <3> QED
      BY <2>1, LastIs
  <2> DEFINE l == Last(J)
  <2>3. l \in 1 .. i - 1 /\ Ops[t][l].key = k
    BY <1>3, <2>2
  <2>4. l \in DOMAIN Ops[t] /\ l \notin I
    <3> HIDE DEF l, I, J
    <3>1. l \in Nat /\ l < i /\ l \in DOMAIN Ops[t]
      BY <1>1, <1>3, <2>3
    <3> QED
      BY <1>2, <1>3, <3>1
  <2>5. Ops[t][l].kind \in {"create", "blindDelete"}
    <3>1. Ops[t][l].kind \notin {"update", "delete"}
      BY <2>3, <2>4
    <3> QED
      BY <2>4, <3>1, OpsAre
  <2>6. Ops[t][l] = [key |-> Ops[t][l].key, kind |-> Ops[t][l].kind]
    BY <2>4, OpsAre
  <2>7. Ops[t][l].kind = "blindDelete"
    BY <2>3, <2>4, <2>5, <2>6 DEF NeverCreated
  <2>8. ChangeFrom(view, t, i).old = None
    BY <1>3, <2>7 DEF ChangeFrom
  <2> QED
    BY <1>3, <2>8 DEF Runs
<1>5. Opening(t, i, k)
  BY <1>3, <1>4 DEF Opening
<1> QED
  BY <1>5

\* What an executed event says and does, change by change.
LEMMA ChangesAre ==
    ASSUME SInv, OriginsOK, NEW t \in Past
    PROVE  /\ DOMAIN result[t].changes = DOMAIN Ops[t] /\ result[t] \in Results
           /\ \A i \in DOMAIN Ops[t] :
                /\ result[t].changes[i].key = Ops[t][i].key
                /\ result[t].changes[i].new \in {None, <<t, i>>}
                /\ result[t].changes[i].new = <<t, i>> => Ops[t][i].kind \in {"update", "create"}
           /\ \A k \in Keys : \A i : Opening(t, i, k) =>
                /\ result[t].changes[i].old # None
                /\ ~Wrote(result[t].changes[i].old, t)
           /\ \A k \in Keys : NeverCreated(k) /\
                (\E i \in DOMAIN Ops[t] : Ops[t][i].key = k /\ Ops[t][i].kind \in {"update", "delete"})
                  => \E i : Opening(t, i, k)
<1>1. PICK view \in Stores : /\ result[t] = ResultFrom(view, t, result[t].ok) /\ Runs(view, t)
                             /\ \A k \in Keys : ~Wrote(view[k], t)
  BY DEF OriginsOK
<1>2. t \in Txs /\ result[t] \in Results
  BY DEF SInv, RequestsOK, RequestAt, Past
<1>3. result[t].ok \in BOOLEAN
  BY <1>2 DEF Results
<1>4. /\ DOMAIN result[t].changes = DOMAIN Ops[t]
      /\ \A i \in DOMAIN Ops[t] : result[t].changes[i] = ChangeFrom(view, t, i)
  BY <1>1, <1>2, <1>3, ResultIs
<1>5. ASSUME NEW i \in DOMAIN Ops[t]
      PROVE  /\ result[t].changes[i].key = Ops[t][i].key
             /\ result[t].changes[i].new \in {None, <<t, i>>}
             /\ result[t].changes[i].new = <<t, i>> => Ops[t][i].kind \in {"update", "create"}
  <2>1. /\ ChangeFrom(view, t, i).key = Ops[t][i].key
        /\ ChangeFrom(view, t, i).new = IF Ops[t][i].kind \in {"delete", "blindDelete"} THEN None ELSE <<t, i>>
    BY DEF ChangeFrom
  <2>2. None # <<t, i>>
    BY <1>2, StateAssumption DEF Values
  <2>3. Ops[t][i].kind \in {"update", "create", "delete", "blindDelete"}
    BY <1>2, OpsAre
  <2> QED
    BY <1>4, <2>1, <2>2, <2>3
<1>6. ASSUME NEW k \in Keys, NEW i, Opening(t, i, k)
      PROVE  result[t].changes[i].old # None /\ ~Wrote(result[t].changes[i].old, t)
  <2>1. /\ i \in DOMAIN Ops[t] /\ Ops[t][i].key = k /\ Ops[t][i].kind \in {"update", "delete"}
        /\ {j \in 1 .. i - 1 : Ops[t][j].key = Ops[t][i].key} = {}
    BY <1>6 DEF Opening
  <2>2. ChangeFrom(view, t, i).old = view[k]
    BY <2>1 DEF ChangeFrom
  <2>3. ChangeFrom(view, t, i).old # None
    BY <1>1, <2>1 DEF Runs
  <2> QED
    BY <1>1, <1>4, <2>1, <2>2, <2>3
<1>7. ASSUME NEW k \in Keys, NeverCreated(k),
             \E i \in DOMAIN Ops[t] : Ops[t][i].key = k /\ Ops[t][i].kind \in {"update", "delete"}
      PROVE  \E i : Opening(t, i, k)
  BY <1>1, <1>2, <1>7, OpeningExists
<1> QED
  BY <1>2, <1>4, <1>5, <1>6, <1>7

\* What an applied event leaves at a key that it writes.
LEMMA AppliedLeaves ==
    ASSUME SInv, OriginsOK, NEW t \in Past, Verdict(smt, result[t]) = "applied",
           NEW k \in WriteKeys(result[t])
    PROVE  \/ ApplyOne(smt, result[t])[k] = None
           \/ \E j \in DOMAIN Ops[t] : /\ ApplyOne(smt, result[t])[k] = <<t, j>>
                                       /\ Ops[t][j].key = k /\ Ops[t][j].kind \in {"update", "create"}
<1> DEFINE cs == result[t].changes
           N == Len(cs)
           W == WritesOf(cs, N, k)
<1>1. /\ DOMAIN cs = DOMAIN Ops[t] /\ result[t] \in Results
      /\ \A i \in DOMAIN Ops[t] : /\ cs[i].key = Ops[t][i].key /\ cs[i].new \in {None, <<t, i>>}
                                  /\ cs[i].new = <<t, i>> => Ops[t][i].kind \in {"update", "create"}
  BY ChangesAre
<1>2. N \in Nat /\ DOMAIN cs = 1 .. N
  <2>1. cs \in Seq(Changes)
    BY <1>1 DEF Results
  <2> QED
    BY <2>1
<1>3. result[t].ok
  BY DEF Verdict
<1>4. k \in Keys /\ W # {} /\ W \in SUBSET (1 .. N)
  <2>1. \E i \in DOMAIN cs : cs[i].key = k
    BY <1>3 DEF WriteKeys
  <2>2. k \in Keys
    BY <1>1, WriteKeysAreKeys, OverVals
  <2> QED
    BY <1>2, <2>1, <2>2 DEF WritesOf
<1>5. ApplyOne(smt, result[t])[k] = cs[Last(W)].new
  BY <1>4 DEF ApplyOne, Written, Shadow
<1>6. Last(W) \in W
  <2> HIDE DEF W, N, cs
  <2> QED
    BY <1>2, <1>4, LastIs
<1>7. Last(W) \in DOMAIN Ops[t] /\ cs[Last(W)].key = k
  BY <1>1, <1>2, <1>4, <1>6 DEF WritesOf
<1> HIDE DEF cs, W
<1> QED
  BY <1>1, <1>5, <1>7

\* An applied event finds the value it says it replaces.
LEMMA AppliedFinds ==
    ASSUME SInv, OriginsOK, NEW t \in Past, Verdict(smt, result[t]) = "applied",
           NEW k \in Keys, NEW i, Opening(t, i, k)
    PROVE  smt[k] = result[t].changes[i].old /\ k \in WriteKeys(result[t])
<1> DEFINE cs == result[t].changes
<1>1. /\ DOMAIN cs = DOMAIN Ops[t]
      /\ \A j \in DOMAIN Ops[t] : cs[j].key = Ops[t][j].key
      /\ cs[i].old # None
  BY ChangesAre
<1>2. /\ i \in DOMAIN Ops[t] /\ Ops[t][i].key = k
      /\ \A j \in 1 .. i - 1 : Ops[t][j].key # k
  BY DEF Opening
<1>3. result[t].ok /\ ~Stale(smt, cs)
  BY DEF Verdict
<1>4. ~Conflict(smt, cs, i)
  BY <1>1, <1>2, <1>3 DEF Stale
<1>5. Len(Ops[t]) \in Nat /\ DOMAIN Ops[t] = 1 .. Len(Ops[t])
  BY OpsAre DEF Past
<1>6. WritesOf(cs, i - 1, k) = {}
  <2>1. \A j \in 1 .. i - 1 : j \in DOMAIN Ops[t]
    BY <1>2, <1>5
  <2> QED
    BY <1>1, <1>2, <2>1 DEF WritesOf
<1>7. Shadow(smt, cs, i - 1, k) = smt[k] /\ cs[i].key = k
  BY <1>1, <1>2, <1>6 DEF Shadow
<1>8. smt[k] = cs[i].old
  BY <1>1, <1>4, <1>7 DEF Conflict
<1>9. k \in WriteKeys(result[t])
  BY <1>1, <1>2, <1>3 DEF WriteKeys
<1> QED
  BY <1>8, <1>9

\* Applying a frame keeps the account of effects.
LEMMA ApplyEffects ==
    ASSUME SInv, EInv, NEW E, Framed(E), Apply(E), UNCHANGED requestVars
    PROVE  EffectsOK'
<1>0. pc' = pc /\ result' = result /\ effects \in [Txs -> Nat]
  BY DEF requestVars, SInv, StoresOK
<1>1. Past' = Past /\ Launched' = Launched /\ Launched \subseteq Past
  BY <1>0 DEF Past, Launched
<1>2. /\ E \in SUBSET Txs
      /\ effects' = [t \in Txs |-> IF t \in E /\ Verdict(smt, result[t]) = "applied"
                                   THEN effects[t] + 1 ELSE effects[t]]
      /\ \A t \in E : \A k \in WriteKeys(result[t]) : smt'[k] = ApplyOne(smt, result[t])[k]
      /\ \A k \in Keys : (\A t \in E : k \notin WriteKeys(result[t])) => smt'[k] = smt[k]
  BY ApplyIs
<1>3. E \subseteq Launched /\ OriginsOK /\ EffectsOK
  BY DEF Framed, EInv
<1> DEFINE Applied(t) == t \in E /\ Verdict(smt, result[t]) = "applied"
<1>4. \A t \in Txs : /\ effects[t] \in Nat /\ effects'[t] \in Nat /\ effects'[t] >= effects[t]
                     /\ Applied(t) => effects'[t] = effects[t] + 1
                     /\ ~Applied(t) => effects'[t] = effects[t]
  BY <1>0, <1>2
\* A key keeps its value, or takes one of an applied event, or loses it.
<1>5. ASSUME NEW k \in Keys
      PROVE  \/ smt'[k] = smt[k]
             \/ smt'[k] = None
             \/ \E s \in E : /\ Applied(s)
                             /\ \E j \in DOMAIN Ops[s] : /\ smt'[k] = <<s, j>> /\ Ops[s][j].key = k
                                                         /\ Ops[s][j].kind \in {"update", "create"}
  <2>1. CASE \A t \in E : k \notin WriteKeys(result[t])
    BY <1>2, <2>1
  <2>2. ASSUME NEW t \in E, k \in WriteKeys(result[t]), Verdict(smt, result[t]) # "applied"
        PROVE  smt'[k] = smt[k]
    BY <1>2, <2>2 DEF ApplyOne
  <2>3. ASSUME NEW t \in E, k \in WriteKeys(result[t]), Verdict(smt, result[t]) = "applied"
        PROVE  smt'[k] = None \/ \E j \in DOMAIN Ops[t] : /\ smt'[k] = <<t, j>> /\ Ops[t][j].key = k
                                                          /\ Ops[t][j].kind \in {"update", "create"}
    <3>1. t \in Past /\ smt'[k] = ApplyOne(smt, result[t])[k]
      BY <1>1, <1>2, <1>3, <2>3
    <3> QED
      BY <1>3, <2>3, <3>1, AppliedLeaves
  <2> QED
    BY <2>1, <2>2, <2>3
<1> HIDE DEF Applied
<1>6. \A t \in Txs : effects'[t] >= 1 => t \in Launched
  <2>1. \A t \in Txs : effects[t] >= 1 => t \in Launched
    BY <1>3 DEF EffectsOK
  <2>2. \A t \in Txs : Applied(t) => t \in Launched
    BY <1>3 DEF Applied
  <2> QED
    BY <1>4, <2>1, <2>2
<1>7. ASSUME NEW k \in Keys, NEW s \in Txs, Wrote(smt'[k], s) PROVE effects'[s] >= 1
  <2>1. CASE smt'[k] = smt[k]
    <3>1. effects[s] >= 1
      BY <1>3, <1>7, <2>1 DEF EffectsOK
    <3> QED
      BY <1>4, <3>1
  <2>2. smt'[k] # None
    <3>1. \A j \in DOMAIN Ops[s] : <<s, j>> # None
      BY StateAssumption DEF Values
    <3> QED
      BY <1>7, <3>1 DEF Wrote
  <2>3. ASSUME NEW u \in E, Applied(u), NEW j \in DOMAIN Ops[u], smt'[k] = <<u, j>> PROVE effects'[s] >= 1
    <3>1. u = s
      BY <1>7, <2>3 DEF Wrote
    <3> QED
      BY <1>4, <2>3, <3>1
  <2> QED
    BY <1>5, <2>1, <2>2, <2>3
<1>8. ASSUME NEW t \in Past, NEW k \in Keys, NEW i, Opening(t, i, k), effects'[t] >= 1
      PROVE  /\ effects'[t] = 1 /\ smt'[k] # result[t].changes[i].old
             /\ \A s \in Txs : Wrote(result[t].changes[i].old, s) => effects'[s] >= 1
  <2> DEFINE v == result[t].changes[i].old
  <2>0. t \in Txs /\ v # None /\ ~Wrote(v, t)
    BY <1>3, <1>8, ChangesAre DEF Past
  <2>1. CASE Applied(t)
    <3>1. smt[k] = v /\ k \in WriteKeys(result[t]) /\ t \in E
      BY <1>3, <1>8, <2>1, AppliedFinds DEF Applied
    <3>2. effects[t] = 0
      <4>1. effects[t] >= 1 => smt[k] # v
        BY <1>3, <1>8 DEF EffectsOK, Spent
      <4> QED
        BY <1>4, <2>0, <3>1, <4>1
    <3>3. smt'[k] # v
      <4>1. smt'[k] = ApplyOne(smt, result[t])[k] /\ Verdict(smt, result[t]) = "applied"
        BY <1>2, <2>1, <3>1 DEF Applied
      <4>2. smt'[k] = None \/ Wrote(smt'[k], t)
        BY <1>3, <1>8, <3>1, <4>1, AppliedLeaves DEF Wrote
      <4> QED
        BY <2>0, <4>2
    <3>4. \A s \in Txs : Wrote(v, s) => effects'[s] >= 1
      <4>1. \A s \in Txs : Wrote(v, s) => effects[s] >= 1
        BY <1>3, <3>1 DEF EffectsOK
      <4> QED
        BY <1>4, <4>1
    <3> QED
      BY <1>4, <2>0, <2>1, <3>2, <3>3, <3>4
  <2>2. CASE ~Applied(t)
    <3>1. effects'[t] = effects[t] /\ effects[t] >= 1
      BY <1>4, <1>8, <2>0, <2>2
    <3>2. effects[t] = 1 /\ smt[k] # v /\ \A s \in Txs : Wrote(v, s) => effects[s] >= 1
      BY <1>3, <1>8, <3>1 DEF EffectsOK, Spent
    <3>3. ASSUME smt'[k] = v PROVE FALSE
      <4>1. PICK s \in E : /\ Applied(s)
                           /\ \E j \in DOMAIN Ops[s] : /\ smt'[k] = <<s, j>> /\ Ops[s][j].key = k
                                                       /\ Ops[s][j].kind \in {"update", "create"}
        BY <1>5, <2>0, <3>2, <3>3
      <4>2. PICK j \in DOMAIN Ops[s] : /\ smt'[k] = <<s, j>> /\ Ops[s][j].key = k
                                       /\ Ops[s][j].kind \in {"update", "create"}
        BY <4>1
      <4>3. s \in Past /\ s \in Txs /\ effects[s] >= 1
        <5>1. Wrote(v, s)
          BY <3>3, <4>2 DEF Wrote
        <5> QED
          BY <1>1, <1>2, <1>3, <3>2, <5>1
      <4>4. NeverCreated(k)
        BY <1>8 DEF Opening
      <4>5. Ops[s][j].kind = "update"
        BY <4>2, <4>3, <4>4, OpsAre DEF NeverCreated
      <4>6. PICK l : Opening(s, l, k)
        BY <1>3, <4>2, <4>3, <4>4, <4>5, ChangesAre
      <4>7. smt[k] = result[s].changes[l].old
        BY <1>3, <4>1, <4>3, <4>6, AppliedFinds DEF Applied
      <4>8. smt[k] # result[s].changes[l].old
        BY <1>3, <4>3, <4>6 DEF EffectsOK, Spent
      <4> QED
        BY <4>7, <4>8
    <3>4. \A s \in Txs : Wrote(v, s) => effects'[s] >= 1
      BY <1>4, <3>2
    <3> QED
      BY <3>1, <3>2, <3>3, <3>4
  <2> QED
    BY <2>1, <2>2
<1> QED
  BY <1>0, <1>1, <1>6, <1>7, <1>8 DEF EffectsOK, Spent

\* all is p followed by q.
Joined(p, q, all) ==
    /\ Len(p) \in Nat /\ Len(q) \in Nat /\ Len(all) = Len(p) + Len(q)
    /\ \A i \in 1 .. Len(p) : all[i] = p[i]
    /\ \A i \in 1 .. Len(q) : all[Len(p) + i] = q[i]
    /\ \A i \in 1 .. Len(all) :
         \/ i \in 1 .. Len(p) /\ all[i] = p[i]
         \/ \E j \in 1 .. Len(q) : i = Len(p) + j /\ all[i] = q[j]

\* Joining two sequences of entries.
LEMMA ConcatIs ==
    ASSUME NEW X, NEW p \in Seq(X), NEW q \in Seq(X)
    PROVE  Joined(p, q, p \o q)
<1>1. Len(p) \in Nat /\ Len(q) \in Nat /\ Len(p \o q) = Len(p) + Len(q)
  OBVIOUS
<1>2. \A i \in 1 .. Len(p) : (p \o q)[i] = p[i]
  OBVIOUS
<1>3. \A i \in 1 .. Len(q) : (p \o q)[Len(p) + i] = q[i]
  OBVIOUS
<1>4. ASSUME NEW i \in 1 .. Len(p \o q), i \notin 1 .. Len(p)
      PROVE  \E j \in 1 .. Len(q) : i = Len(p) + j /\ (p \o q)[i] = q[j]
  <2>1. i - Len(p) \in 1 .. Len(q) /\ i = Len(p) + (i - Len(p))
    BY <1>1, <1>4
  <2> QED
    BY <1>3, <2>1
<1> QED
  BY <1>1, <1>2, <1>3, <1>4 DEF Joined

\* An OverlayView shows the latest entry of the key, or the store below.
LEMMA ViewShows ==
    ASSUME overlay \in Seq(OverlayEntries), NEW store, NEW k
    PROVE  \/ /\ \A i \in 1 .. Len(overlay) : overlay[i].key # k
              /\ ViewOf(store, k) = store[k]
           \/ \E i \in 1 .. Len(overlay) :
                /\ overlay[i].key = k /\ ViewOf(store, k) = overlay[i].value
                /\ \A j \in 1 .. Len(overlay) : overlay[j].key = k => j <= i
<1> DEFINE S == {i \in DOMAIN overlay : overlay[i].key = k}
<1>1. DOMAIN overlay = 1 .. Len(overlay) /\ Len(overlay) \in Nat
  OBVIOUS
<1>2. S # {} => Last(S) \in S /\ \A j \in S : j <= Last(S)
  <2>1. S \in SUBSET (1 .. Len(overlay))
    BY <1>1
  <2> HIDE DEF S
  <2> QED
    BY <1>1, <2>1, LastIs
<1> QED
  BY <1>1, <1>2 DEF ViewOf

\* A step that applies nothing keeps the account of effects.
LEMMA EffectsKept ==
    ASSUME SInv, EInv, UNCHANGED <<smt, effects>>, Past \subseteq Past', Launched \subseteq Launched',
           \A t \in Past : result'[t] = result[t]
    PROVE  EffectsOK'
<1>1. \A t \in Txs : effects[t] >= 1 => t \in Launched /\ t \in Past
  BY DEF EInv, EffectsOK, Launched, Past
<1>2. Past' \subseteq Txs
  BY DEF Past
<1> QED
  BY <1>1, <1>2 DEF EInv, EffectsOK, Spent

\* What is known stays known, and what is stored is known.
LEMMA StoredIsKnown ==
    ASSUME EInv
    PROVE  \A k \in Keys : Known(smt[k])
  BY DEF EInv, EffectsOK, Known, Launched, Past

\* None is nobody's value.
LEMMA NoneIsKnown == \A s \in Txs : ~Wrote(None, s)
  BY StateAssumption DEF Wrote, Values

\* An entry that is left after clearing was there before.
LEMMA ClearedEntries ==
    ASSUME overlay \in Seq(OverlayEntries), NEW E, NEW j \in 1 .. Len(Cleared(E))
    PROVE  \E i \in 1 .. Len(overlay) : Cleared(E)[j] = overlay[i]
<1>1. PICK idx : Kept(Cleared(E), overlay, Len(overlay), E, idx)
  BY ClearedIs
<1> QED
  BY <1>1 DEF Kept

\* The steps of the writer.
LEMMA WriterOrigins ==
    ASSUME SInv, EInv, UNCHANGED requestVars, snapshot' \in {snapshot, smt},
           overlay' = overlay \/ \E E : overlay' = Cleared(E)
    PROVE  OriginsOK' /\ Past' = Past /\ Launched' = Launched /\ result' = result
<1>1. pc' = pc /\ seen' = seen /\ result' = result
  BY DEF requestVars
<1>2. Past' = Past /\ Launched' = Launched
  BY <1>1 DEF Past, Launched
<1>3. \A v : Known(v)' <=> \A s \in Txs : Wrote(v, s) => s \in Past
  BY <1>2 DEF Known
<1>4. \A k \in Keys : Known(snapshot'[k])
  BY StoredIsKnown DEF EInv, OriginsOK
<1>5. \A i \in 1 .. Len(overlay') : Known(overlay'[i].value)
  <2>1. CASE overlay' = overlay
    BY <2>1 DEF EInv, OriginsOK
  <2>2. ASSUME NEW E, overlay' = Cleared(E), NEW j \in 1 .. Len(overlay') PROVE Known(overlay'[j].value)
    <3>1. PICK i \in 1 .. Len(overlay) : Cleared(E)[j] = overlay[i]
      BY <2>2, ClearedEntries DEF SInv, StoresOK
    <3> QED
      BY <2>2, <3>1 DEF EInv, OriginsOK
  <2> QED
    BY <2>1, <2>2
<1>6. OriginsOK'
  <2>1. \A k \in Keys : Known(snapshot[k])'
    BY <1>2, <1>4 DEF Known
  <2>2. \A t \in Txs : pc'[t] = "viewed" => \A k \in Keys : Known(seen[t][k])'
    BY <1>1, <1>2 DEF EInv, OriginsOK, Known
  <2>3. \A i \in 1 .. Len(overlay') : Known(overlay[i].value)'
    BY <1>2, <1>5 DEF Known
  <2>4. \A t \in Past' : \E view \in Stores :
          /\ result'[t] = ResultFrom(view, t, result'[t].ok) /\ Runs(view, t)
          /\ \A k \in Keys : ~Wrote(view[k], t)
    BY <1>1, <1>2 DEF EInv, OriginsOK
  <2> QED
    BY <2>1, <2>2, <2>3, <2>4 DEF OriginsOK
<1> QED
  BY <1>1, <1>2, <1>6

\* The steps of a request.
LEMMA RequestOrigins ==
    ASSUME SInv, EInv, NEW t \in Txs,
           LoadView(t) \/ Submit(t) \/ Stage(t) \/ \E ok \in BOOLEAN : Execute(t, ok)
    PROVE  EInv'
<1>0. /\ pc \in [Txs -> Places] /\ seen \in [Txs -> Stores \cup {None}]
      /\ result \in [Txs -> Results \cup {None}] /\ overlay \in Seq(OverlayEntries)
      /\ Past \subseteq Txs
  BY DEF SInv, RequestsOK, StoresOK, Past
<1>1. ASSUME UNCHANGED <<smt, effects, snapshot>>, Past \subseteq Past', Launched \subseteq Launched',
             \A s \in Past : result'[s] = result[s],
             \A s \in Txs : pc'[s] = "viewed" => \A k \in Keys : Known(seen'[s][k]),
             \A i \in 1 .. Len(overlay') : Known(overlay'[i].value),
             \A s \in Past' \ Past : \E view \in Stores :
                 /\ result'[s] = ResultFrom(view, s, result'[s].ok) /\ Runs(view, s)
                 /\ \A k \in Keys : ~Wrote(view[k], s)
      PROVE  EInv'
  <2>1. EffectsOK'
    BY <1>1, EffectsKept
  <2>2. \A v : Known(v) => \A s \in Txs : Wrote(v, s) => s \in Past'
    BY <1>1 DEF Known
  <2>3. \A k \in Keys : Known(snapshot[k])'
    BY <1>1, <2>2 DEF EInv, OriginsOK, Known
  <2>4. \A s \in Txs : pc'[s] = "viewed" => \A k \in Keys : Known(seen[s][k])'
    BY <1>1, <2>2 DEF Known
  <2>5. \A i \in 1 .. Len(overlay') : Known(overlay[i].value)'
    BY <1>1, <2>2 DEF Known
  <2>6. \A s \in Past' : \E view \in Stores :
          /\ result'[s] = ResultFrom(view, s, result'[s].ok) /\ Runs(view, s)
          /\ \A k \in Keys : ~Wrote(view[k], s)
    BY <1>1 DEF EInv, OriginsOK
  <2> QED
    BY <2>1, <2>3, <2>4, <2>5, <2>6 DEF EInv, OriginsOK
<1>2. /\ \A k \in Keys : Known(snapshot[k])
      /\ \A s \in Txs : pc[s] = "viewed" => \A k \in Keys : Known(seen[s][k])
      /\ \A i \in 1 .. Len(overlay) : Known(overlay[i].value)
  BY DEF EInv, OriginsOK
<1>3. CASE LoadView(t)
  <2>1. /\ pc[t] = "start" /\ pc' = [pc EXCEPT ![t] = "viewed"] /\ seen' = [seen EXCEPT ![t] = snapshot]
        /\ UNCHANGED <<result, smt, effects, snapshot, overlay>>
    BY <1>3 DEF LoadView, writeVars, readVars
  <2>2. Past' = Past /\ Launched' = Launched
    BY <1>0, <2>1 DEF Past, Launched
  <2>3. \A s \in Txs : pc'[s] = "viewed" => \A k \in Keys : Known(seen'[s][k])
    BY <1>0, <1>2, <2>1
  <2> QED
    BY <1>1, <1>2, <2>1, <2>2, <2>3
<1>4. CASE Submit(t)
  <2>1. /\ pc[t] = "executed" /\ UNCHANGED <<seen, result, smt, effects, snapshot, overlay>>
        /\ pc' = [pc EXCEPT ![t] = IF t \in Staging THEN "submitted" ELSE "done"]
    BY <1>4 DEF Submit, readVars
  <2>2. \A s \in Txs : pc'[s] = pc[s] \/ (s = t /\ pc'[s] \in {"submitted", "done"})
    BY <1>0, <2>1
  <2>3. Past' = Past /\ Launched \subseteq Launched'
    BY <2>1, <2>2 DEF Past, Launched
  <2>4. \A s \in Txs : pc'[s] = "viewed" => \A k \in Keys : Known(seen'[s][k])
    BY <1>2, <2>1, <2>2
  <2> QED
    BY <1>1, <1>2, <2>1, <2>3, <2>4
<1>5. CASE Stage(t)
  <2>1. /\ pc[t] = "submitted" /\ pc' = [pc EXCEPT ![t] = "done"] /\ overlay' = overlay \o Entries(t)
        /\ UNCHANGED <<seen, result, smt, effects, snapshot>>
    BY <1>5 DEF Stage, writeVars
  <2>2. \A s \in Txs : pc'[s] = pc[s] \/ (s = t /\ pc'[s] = "done")
    BY <1>0, <2>1
  <2>3. Past' = Past /\ Launched' = Launched /\ t \in Past
    BY <2>1, <2>2 DEF Past, Launched
  <2>4. \A s \in Txs : pc'[s] = "viewed" => \A k \in Keys : Known(seen'[s][k])
    BY <1>2, <2>1, <2>2
  <2>5. t \in Staging /\ result[t] \in Results
    BY <2>1 DEF SInv, RequestsOK, RequestAt
  <2>6. /\ DOMAIN result[t].changes = DOMAIN Ops[t]
        /\ \A i \in DOMAIN Ops[t] : result[t].changes[i].new \in {None, <<t, i>>}
    BY <2>3, ChangesAre DEF EInv
  <2>7. Entries(t) \in Seq(OverlayEntries) /\ Len(Entries(t)) = Len(result[t].changes)
    BY <2>5, EntriesAre
  <2>8. \A i \in 1 .. Len(Entries(t)) : Known(Entries(t)[i].value)
    <3>1. DOMAIN result[t].changes = 1 .. Len(result[t].changes)
      <4>1. result[t].changes \in Seq(Changes)
        BY <2>5 DEF Results
      <4> QED
        BY <4>1
    <3>2. \A i \in 1 .. Len(Entries(t)) : Entries(t)[i].value \in {None, <<t, i>>}
      BY <2>6, <2>7, <3>1 DEF Entries
    <3>3. \A i : Known(<<t, i>>)
      BY <2>3 DEF Known, Wrote
    <3>4. Known(None)
      BY NoneIsKnown DEF Known
    <3> QED
      BY <3>2, <3>3, <3>4
  <2>9. \A i \in 1 .. Len(overlay') :
          \/ i \in 1 .. Len(overlay) /\ overlay'[i] = overlay[i]
          \/ \E j \in 1 .. Len(Entries(t)) : overlay'[i] = Entries(t)[j]
    <3>1. PICK p \in Seq(OverlayEntries) : p = overlay
      BY <1>0
    <3>2. PICK q \in Seq(OverlayEntries) : q = Entries(t)
      BY <2>7
    <3>3. \A i \in 1 .. Len(p \o q) :
             \/ i \in 1 .. Len(p) /\ (p \o q)[i] = p[i]
             \/ \E j \in 1 .. Len(q) : i = Len(p) + j /\ (p \o q)[i] = q[j]
      BY ConcatIs DEF Joined
    <3>4. overlay' = p \o q
      BY <2>1, <3>1, <3>2
    <3> QED
      BY <3>1, <3>2, <3>3, <3>4
  <2>10. \A i \in 1 .. Len(overlay') : Known(overlay'[i].value)
    BY <1>2, <2>8, <2>9
  <2> QED
    BY <1>1, <2>1, <2>3, <2>4, <2>10
<1>6. ASSUME NEW ok \in BOOLEAN, Execute(t, ok) PROVE EInv'
  <2> DEFINE view == [k \in Keys |-> IF t \in OverlayReaders THEN ViewOf(seen[t], k) ELSE seen[t][k]]
  <2>1. /\ pc[t] = "viewed" /\ UNCHANGED <<seen, smt, effects, snapshot, overlay>>
        /\ \/ /\ Runs(view, t) /\ result' = [result EXCEPT ![t] = ResultFrom(view, t, ok)]
              /\ pc' = [pc EXCEPT ![t] = "executed"]
           \/ pc' = [pc EXCEPT ![t] = "refused"] /\ result' = result
    BY <1>6 DEF Execute, writeVars, readVars
  <2>2. t \notin Past /\ Past \subseteq Past' /\ Past' \subseteq Past \cup {t} /\ Launched' = Launched
        /\ \A s \in Past : result'[s] = result[s]
    BY <1>0, <2>1 DEF Past, Launched
  <2>3. \A s \in Txs : pc'[s] = "viewed" => \A k \in Keys : Known(seen'[s][k])
    BY <1>0, <1>2, <2>1
  <2>4. seen[t] \in Stores
    BY <2>1 DEF SInv, RequestsOK, RequestAt
  <2>5. view \in Stores
    <3>1. \A k \in Keys : seen[t][k] \in Vals
      BY <2>4 DEF Stores, Vals
    <3>2. \A k \in Keys : ViewOf(seen[t], k) \in Vals
      BY <1>0, <2>4, ViewIs
    <3> QED
      BY <3>1, <3>2 DEF Stores, Vals
  <2>6. \A k \in Keys : Known(view[k])
    <3>1. \A k \in Keys : Known(seen[t][k])
      BY <1>2, <2>1
    <3>2. ASSUME NEW k \in Keys PROVE Known(ViewOf(seen[t], k))
      BY <1>0, <1>2, <3>1, ViewShows
    <3> QED
      BY <3>1, <3>2
  <2> HIDE DEF view
  <2>7. ASSUME NEW s \in Past' \ Past
        PROVE  \E w \in Stores : /\ result'[s] = ResultFrom(w, s, result'[s].ok) /\ Runs(w, s)
                                 /\ \A k \in Keys : ~Wrote(w[k], s)
    <3>1. s = t /\ pc'[t] # "refused"
      BY <1>0, <2>1, <2>2, <2>7 DEF Past
    <3>2. Runs(view, t) /\ result' = [result EXCEPT ![t] = ResultFrom(view, t, ok)]
      BY <1>0, <2>1, <3>1
    <3>3. result'[t] = ResultFrom(view, t, ok) /\ ResultFrom(view, t, ok).ok = ok
      BY <1>0, <2>5, <3>2, ResultIs
    <3>4. \A k \in Keys : ~Wrote(view[k], t)
      BY <2>2, <2>6 DEF Known
    <3> QED
      BY <2>5, <3>1, <3>2, <3>3, <3>4
  <2>8. \A i \in 1 .. Len(overlay') : Known(overlay'[i].value)
    BY <1>2, <2>1
  <2> QED
    BY <1>1, <2>1, <2>2, <2>3, <2>7, <2>8
<1> QED
  BY <1>3, <1>4, <1>5, <1>6

\* Every step keeps the origin of values and the count of effects.
LEMMA NextEInv == SInv /\ EInv /\ [Next]_vars => EInv'
<1> SUFFICES ASSUME SInv, EInv, [Next]_vars PROVE EInv'
  OBVIOUS
<1>1. ASSUME UNCHANGED <<requestVars, smt, effects>>, snapshot' \in {snapshot, smt},
             overlay' = overlay \/ \E E : overlay' = Cleared(E)
      PROVE  EInv'
  <2>1. OriginsOK' /\ Past' = Past /\ Launched' = Launched /\ result' = result
    BY <1>1, WriterOrigins
  <2>2. EffectsOK'
    BY <1>1, <2>1, EffectsKept
  <2> QED
    BY <2>1, <2>2 DEF EInv
<1>2. ASSUME NEW E, Framed(E), Apply(E), UNCHANGED <<requestVars, snapshot>>,
             overlay' = overlay \/ \E D : overlay' = Cleared(D)
      PROVE  EInv'
  <2>1. OriginsOK'
    BY <1>2, WriterOrigins
  <2>2. EffectsOK'
    BY <1>2, ApplyEffects
  <2> QED
    BY <2>1, <2>2 DEF EInv
<1>3. ASSUME NEW t \in Txs, LoadView(t) \/ Submit(t) \/ Stage(t) \/ \E ok \in BOOLEAN : Execute(t, ok)
      PROVE  EInv'
  BY <1>3, RequestOrigins
<1>4. ASSUME NEW t \in Txs, Redeliver(t) PROVE EInv'
  BY <1>1, <1>4 DEF Redeliver, readVars
<1>5. ASSUME DropBuild \/ \E F \in SUBSET Txs : PrepareBuild(F) PROVE EInv'
  BY <1>1, <1>5 DEF DropBuild, PrepareBuild, readVars
<1>6. ASSUME CommitBuild PROVE EInv'
  <2>1. build # None /\ UNCHANGED <<requestVars, snapshot>>
    BY <1>6 DEF CommitBuild
  <2>2. Framed(build.events)
    BY <2>1 DEF SInv, FramesOK, BuildOK
  <2>3. \/ Apply(build.events) /\ (overlay' = overlay \/ overlay' = Cleared(build.events))
        \/ Discard(build.events)
    BY <1>6 DEF CommitBuild
  <2>4. CASE Apply(build.events) /\ (overlay' = overlay \/ overlay' = Cleared(build.events))
    BY <1>2, <2>1, <2>2, <2>4
  <2>5. CASE Discard(build.events)
    BY <1>1, <2>1, <2>5 DEF Discard
  <2> QED
    BY <2>3, <2>4, <2>5
<1>7. ASSUME NEW E \in SUBSET Txs, NEW match \in BOOLEAN, FollowCf(E, match) PROVE EInv'
  <2>1. /\ UNCHANGED <<requestVars, snapshot>>
        /\ (Apply(E) /\ overlay' = overlay) \/ Discard(E)
    BY <1>7 DEF FollowCf
  <2>2. Framed(E)
    BY <1>7, FollowStep
  <2>3. CASE Apply(E) /\ overlay' = overlay
    BY <1>2, <2>1, <2>2, <2>3
  <2>4. CASE Discard(E)
    BY <1>1, <2>1, <2>4 DEF Discard
  <2> QED
    BY <2>1, <2>3, <2>4
<1>8. ASSUME CommitFails \/ PublishSnapshot \/ IngestOutcomes \/ Finish PROVE EInv'
  BY <1>1, <1>8 DEF CommitFails, PublishSnapshot, IngestOutcomes, Finish, writeVars
<1>9. ASSUME NEW w \in Waiters, WaiterStep(w) PROVE EInv'
  BY <1>1, <1>9 DEF WaiterStep, writeVars, readVars
<1>10. CASE UNCHANGED vars
  BY <1>1, <1>10 DEF vars, writeVars, readVars
<1> QED
  BY <1>3, <1>4, <1>5, <1>6, <1>7, <1>8, <1>9, <1>10 DEF Next

\* EInv holds in every reachable state.
LEMMA EInvHolds == Spec => []EInv
<1>1. Init => EInv
  <2> SUFFICES ASSUME Init PROVE EInv
    OBVIOUS
  <2>1. \A k \in Keys, s \in Txs : ~Wrote(GenesisStore[k], s)
    <3>1. \A s \in Txs : ~Wrote(Genesis, s)
      BY StateAssumption DEF Wrote
    <3> QED
      BY <3>1, NoneIsKnown DEF GenesisStore
  <2>2. Past = {}
    BY DEF Init, Past
  <2>3. OriginsOK
    BY <2>1, <2>2 DEF Init, OriginsOK, Known
  <2>4. EffectsOK
    BY <2>1, <2>2 DEF Init, EffectsOK
  <2> QED
    BY <2>3, <2>4 DEF EInv
<1> QED
  BY <1>1, NextEInv, SInvHolds, PTL DEF Spec

\* The stale-read check makes finalization idempotent: an event that states the
\* version it replaces of an object no event creates is written at most once,
\* however often it is delivered, folded and applied, after failed commits too.
THEOREM EffectOnceHolds == Spec => []EffectOnce
<1>1. SInv /\ EInv => EffectOnce
  <2> SUFFICES ASSUME SInv, EInv, NEW t \in Txs, NEW i \in DOMAIN Ops[t],
                      Ops[t][i].kind \in {"update", "delete"}, NeverCreated(Ops[t][i].key)
               PROVE  effects[t] <= 1
    BY DEF EffectOnce
  <2>1. effects[t] \in Nat /\ Ops[t][i].key \in Keys
    BY OpsAre DEF SInv, StoresOK
  <2>2. CASE effects[t] = 0
    BY <2>2
  <2>3. CASE effects[t] >= 1
    <3>1. t \in Past
      BY <2>3 DEF EInv, EffectsOK, Launched, Past
    <3>2. PICK l : Opening(t, l, Ops[t][i].key)
      BY <2>1, <3>1, ChangesAre DEF EInv
    <3>3. effects[t] = 1
      BY <2>1, <2>3, <3>1, <3>2 DEF EInv, EffectsOK, Spent
    <3> QED
      BY <3>3
  <2> QED
    BY <2>1, <2>2, <2>3
<1> QED
  BY <1>1, EInvHolds, SInvHolds, PTL

-----------------------------------------------------------------------------
(* A Move call reads its own writes.                                       *)

\* The latest entry of event t for key k in an overlay holds v.
TopIn(ov, t, k, v) ==
    \E i \in 1 .. Len(ov) :
        /\ ov[i].tx = t /\ ov[i].key = k /\ ov[i].value = v
        /\ \A j \in 1 .. Len(ov) : j > i => ov[j].tx # t \/ ov[j].key # k

NoneIn(ov, t) == \A i \in 1 .. Len(ov) : ov[i].tx # t

\* Clearing takes all entries of some events, and of the others none.
LEMMA ClearedTops ==
    ASSUME overlay \in Seq(OverlayEntries), NEW E
    PROVE  /\ \A t, k, v : t \notin E /\ TopIn(overlay, t, k, v) => TopIn(Cleared(E), t, k, v)
           /\ \A t : NoneIn(overlay, t) \/ t \in E => NoneIn(Cleared(E), t)
<1> DEFINE c == Cleared(E)
<1>1. PICK idx : Kept(c, overlay, Len(overlay), E, idx)
  BY ClearedIs
<1>2. c \in Seq(OverlayEntries) /\ Len(overlay) \in Nat
  BY ClearedIs
<1> HIDE DEF c
<1>3. Len(c) \in Nat
  BY <1>2
<1>4. /\ \A j \in 1 .. Len(c) : /\ idx[j] \in 1 .. Len(overlay) /\ c[j] = overlay[idx[j]]
                                /\ overlay[idx[j]].tx \notin E
      /\ \A i, j \in 1 .. Len(c) : i < j => idx[i] < idx[j]
      /\ \A i \in 1 .. Len(overlay) : overlay[i].tx \notin E => \E j \in 1 .. Len(c) : idx[j] = i
  BY <1>1 DEF Kept
<1>5. ASSUME NEW t, NEW k, NEW v, t \notin E, TopIn(overlay, t, k, v) PROVE TopIn(c, t, k, v)
  <2>1. PICK i \in 1 .. Len(overlay) :
          /\ overlay[i].tx = t /\ overlay[i].key = k /\ overlay[i].value = v
          /\ \A j \in 1 .. Len(overlay) : j > i => overlay[j].tx # t \/ overlay[j].key # k
    BY <1>5 DEF TopIn
  <2>2. PICK l \in 1 .. Len(c) : idx[l] = i
    BY <1>4, <1>5, <2>1
  <2>3. ASSUME NEW j \in 1 .. Len(c), j > l PROVE c[j].tx # t \/ c[j].key # k
    <3>1. idx[l] < idx[j] /\ idx[j] \in 1 .. Len(overlay) /\ c[j] = overlay[idx[j]]
      BY <1>3, <1>4, <2>3
    <3>2. idx[j] > i
      BY <1>2, <2>2, <3>1
    <3> QED
      BY <2>1, <3>1, <3>2
  <2>4. c[l] = overlay[i]
    BY <1>4, <2>2
  <2> QED
    BY <2>1, <2>3, <2>4 DEF TopIn
<1>6. ASSUME NEW t, NoneIn(overlay, t) \/ t \in E PROVE NoneIn(c, t)
  BY <1>4, <1>6 DEF NoneIn
<1> QED
  BY <1>5, <1>6 DEF c

\* The last change of an event to a key, and what it leaves there.
LEMMA LastWriteIs ==
    ASSUME SInv, OriginsOK, NEW t \in Past, NEW k \in WritesKey(t)
    PROVE  \E i \in DOMAIN Ops[t] :
             /\ Ops[t][i].key = k /\ LastWrite(t, k) = result[t].changes[i].new
             /\ \A j \in DOMAIN Ops[t] : Ops[t][j].key = k => j <= i
             /\ Written(smt, result[t].changes)[k] = result[t].changes[i].new
<1> DEFINE S == {i \in DOMAIN Ops[t] : Ops[t][i].key = k}
           cs == result[t].changes
<1>1. t \in Txs /\ Len(Ops[t]) \in Nat /\ DOMAIN Ops[t] = 1 .. Len(Ops[t])
      /\ \A i \in DOMAIN Ops[t] : Ops[t][i].key \in Keys
  BY OpsAre DEF Past
<1>2. S # {} /\ S \in SUBSET (1 .. Len(Ops[t])) /\ k \in Keys
  BY <1>1 DEF WritesKey
<1>3. Last(S) \in S /\ \A i \in S : i <= Last(S)
  <2> HIDE DEF S
  <2> QED
    BY <1>1, <1>2, LastIs
<1>4. /\ DOMAIN cs = DOMAIN Ops[t] /\ result[t] \in Results
      /\ \A i \in DOMAIN Ops[t] : cs[i].key = Ops[t][i].key
  BY ChangesAre
<1>5. Len(cs) \in Nat /\ DOMAIN cs = 1 .. Len(cs)
  <2>1. cs \in Seq(Changes)
    BY <1>4 DEF Results
  <2> QED
    BY <2>1
<1>6. WritesOf(cs, Len(cs), k) = S
  BY <1>4, <1>5 DEF WritesOf
<1>7. Written(smt, cs)[k] = cs[Last(S)].new
  <2> HIDE DEF S
  <2> QED
    BY <1>2, <1>6 DEF Written, Shadow
<1>8. LastWrite(t, k) = cs[Last(S)].new
  BY DEF LastWrite
<1> QED
  BY <1>3, <1>7, <1>8

\* Staging puts all changes of an event on top.
LEMMA StagedTops ==
    ASSUME SInv, OriginsOK, NEW t \in Past, t \in Staging
    PROVE  LET ov == overlay \o Entries(t) IN
           /\ \A k \in WritesKey(t) : TopIn(ov, t, k, LastWrite(t, k))
           /\ \A s, k, v : s # t /\ TopIn(overlay, s, k, v) => TopIn(ov, s, k, v)
           /\ \A s : s # t /\ NoneIn(overlay, s) => NoneIn(ov, s)
           /\ \A i \in 1 .. Len(ov) :
                \/ \E j \in 1 .. Len(overlay) : ov[i] = overlay[j]
                \/ ov[i].tx = t /\ ov[i].key \in WritesKey(t)
<1> DEFINE cs == result[t].changes
<1>1. /\ DOMAIN cs = DOMAIN Ops[t] /\ result[t] \in Results
      /\ \A i \in DOMAIN Ops[t] : cs[i].key = Ops[t][i].key
  BY ChangesAre
<1>2. Len(cs) \in Nat /\ DOMAIN cs = 1 .. Len(cs)
  <2>1. cs \in Seq(Changes)
    BY <1>1 DEF Results
  <2> QED
    BY <2>1
<1>3. PICK p \in Seq(OverlayEntries) : p = overlay
  BY DEF SInv, StoresOK
<1>4. PICK q \in Seq(OverlayEntries) : q = Entries(t) /\ Len(q) = Len(cs)
  BY <1>1, EntriesAre DEF Past
<1>5. \A i \in 1 .. Len(q) : q[i].tx = t /\ q[i].key = Ops[t][i].key /\ q[i].value = cs[i].new
  BY <1>1, <1>2, <1>4 DEF Entries
<1> DEFINE ov == p \o q
           m == Len(p)
<1>6. /\ m \in Nat /\ Len(q) \in Nat /\ Len(ov) = m + Len(q)
      /\ \A i \in 1 .. m : ov[i] = p[i]
      /\ \A i \in 1 .. Len(q) : ov[m + i] = q[i]
      /\ \A i \in 1 .. Len(ov) :
           \/ i \in 1 .. m /\ ov[i] = p[i]
           \/ \E j \in 1 .. Len(q) : i = m + j /\ ov[i] = q[j]
  <2>1. Joined(p, q, ov)
    BY ConcatIs
  <2> HIDE DEF ov
  <2> QED
    BY <2>1 DEF Joined
<1> HIDE DEF ov, m, cs
<1>7. ASSUME NEW k \in WritesKey(t) PROVE TopIn(ov, t, k, LastWrite(t, k))
  <2>1. PICK i \in DOMAIN Ops[t] : /\ Ops[t][i].key = k /\ LastWrite(t, k) = cs[i].new
                                   /\ \A j \in DOMAIN Ops[t] : Ops[t][j].key = k => j <= i
    BY LastWriteIs DEF cs
  <2>2. i \in 1 .. Len(q) /\ \A j \in 1 .. Len(q) : j \in DOMAIN Ops[t]
    BY <1>1, <1>2, <1>4
  <2>3. m + i \in 1 .. Len(ov) /\ ov[m + i] = q[i]
    BY <1>6, <2>2
  <2>4. ASSUME NEW j \in 1 .. Len(ov), j > m + i PROVE ov[j].tx # t \/ ov[j].key # k
    <3>1. PICK l \in 1 .. Len(q) : j = m + l /\ ov[j] = q[l]
      BY <1>6, <2>2, <2>4
    <3>2. l > i /\ l \in DOMAIN Ops[t]
      BY <1>6, <2>2, <2>4, <3>1
    <3>3. Ops[t][l].key # k
      BY <2>1, <2>2, <3>2
    <3> QED
      BY <1>5, <3>1, <3>3
  <2>5. ov[m + i].tx = t /\ ov[m + i].key = k /\ ov[m + i].value = LastWrite(t, k)
    BY <1>5, <2>1, <2>2, <2>3
  <2> QED
    BY <2>3, <2>4, <2>5 DEF TopIn
<1>8. ASSUME NEW s, NEW k, NEW v, s # t, TopIn(p, s, k, v) PROVE TopIn(ov, s, k, v)
  <2>1. PICK i \in 1 .. m : /\ p[i].tx = s /\ p[i].key = k /\ p[i].value = v
                            /\ \A j \in 1 .. m : j > i => p[j].tx # s \/ p[j].key # k
    BY <1>8 DEF TopIn, m
  <2>2. i \in 1 .. Len(ov) /\ ov[i] = p[i]
    BY <1>6
  <2>3. ASSUME NEW j \in 1 .. Len(ov), j > i PROVE ov[j].tx # s \/ ov[j].key # k
    BY <1>5, <1>6, <1>8, <2>1, <2>3
  <2> QED
    BY <2>1, <2>2, <2>3 DEF TopIn
<1>9. ASSUME NEW s, s # t, NoneIn(p, s) PROVE NoneIn(ov, s)
  BY <1>5, <1>6, <1>9 DEF NoneIn, m
<1>10. ASSUME NEW i \in 1 .. Len(ov)
       PROVE  \/ \E j \in 1 .. m : ov[i] = p[j]
              \/ ov[i].tx = t /\ ov[i].key \in WritesKey(t)
  <2>1. \A j \in 1 .. Len(q) : q[j].tx = t /\ q[j].key \in WritesKey(t)
    BY <1>1, <1>2, <1>4, <1>5 DEF WritesKey
  <2> QED
    BY <1>6, <2>1
<1> QED
  BY <1>3, <1>4, <1>7, <1>8, <1>9, <1>10 DEF ov, m

\* The overlay holds what finished Move calls staged: of each all of it or, once
\* it was cleared, nothing; and before its outcome nothing but an error path
\* clears it.
OverlayOK ==
    /\ \A i \in 1 .. Len(overlay) :
         pc[overlay[i].tx] = "done" /\ overlay[i].key \in WritesKey(overlay[i].tx)
    /\ \A t \in Staging : \/ NoneIn(overlay, t)
                          \/ \A k \in WritesKey(t) : TopIn(overlay, t, k, LastWrite(t, k))
    /\ \A t \in Staging : pc[t] = "done" /\ t \notin discarded /\ outcome[t] = None =>
         \A k \in WritesKey(t) : TopIn(overlay, t, k, LastWrite(t, k))

\* What an event that took effect wrote is stored, and published before the
\* outcome says so, as long as nobody else writes the key.
SettledOK ==
    /\ \A t \in Staging : \A k \in WritesKey(t) :
         effects[t] >= 1 /\ Unrivalled(t, k) => smt[k] = LastWrite(t, k)
    /\ \A t \in Staging :
         /\ outcome[t] # "failed"
         /\ outcome[t] = "applied" =>
              /\ effects[t] >= 1
              /\ \A k \in WritesKey(t) : Unrivalled(t, k) => snapshot[k] = LastWrite(t, k)
    /\ writer # Idle => \A t \in writer.events :
         /\ writer.verdicts[t] = "applied" => effects[t] >= 1
         /\ t \in Staging => writer.verdicts[t] # "failed"
         /\ writer.pc = "recorded" => outcome[t] # None

YInv == OverlayOK /\ SettledOK

\* The overlay and the snapshot together give a request its own writes.
LEMMA YInvReads == SInv /\ YInv => ReadYourWrites
<1> SUFFICES ASSUME SInv, YInv, NEW t \in Staging, NEW k \in WritesKey(t),
                    pc[t] = "done", outcome[t] # "stale", t \notin discarded, Unrivalled(t, k)
             PROVE  ViewOf(snapshot, k) = LastWrite(t, k)
  BY DEF ReadYourWrites
<1>1. /\ overlay \in Seq(OverlayEntries) /\ Staging \subseteq Txs
      /\ outcome[t] \in Verdicts \cup {None}
  BY StateAssumption DEF SInv, StoresOK, FramesOK
<1>2. \A i \in 1 .. Len(overlay) : overlay[i].tx \in Txs
  <2>1. \A i \in 1 .. Len(overlay) : overlay[i] \in OverlayEntries
    BY <1>1
  <2> QED
    BY <1>1, <2>1 DEF OverlayEntries
<1>3. \A i \in 1 .. Len(overlay) : overlay[i].key = k => overlay[i].tx = t
  BY <1>2 DEF YInv, OverlayOK, Unrivalled
<1>4. CASE TopIn(overlay, t, k, LastWrite(t, k))
  <2>1. PICK i \in 1 .. Len(overlay) :
          /\ overlay[i].tx = t /\ overlay[i].key = k /\ overlay[i].value = LastWrite(t, k)
          /\ \A j \in 1 .. Len(overlay) : j > i => overlay[j].tx # t \/ overlay[j].key # k
    BY <1>4 DEF TopIn
  <2>2. PICK l \in 1 .. Len(overlay) :
          /\ overlay[l].key = k /\ ViewOf(snapshot, k) = overlay[l].value
          /\ \A j \in 1 .. Len(overlay) : overlay[j].key = k => j <= l
    BY <1>1, <2>1, ViewShows
  <2>3. i <= l /\ ~(l > i)
    BY <1>3, <2>1, <2>2
  <2>4. l = i
    BY <2>3
  <2> QED
    BY <2>1, <2>2, <2>4
<1>5. CASE ~TopIn(overlay, t, k, LastWrite(t, k))
  <2>1. NoneIn(overlay, t) /\ outcome[t] # None
    BY <1>5 DEF YInv, OverlayOK
  <2>2. outcome[t] = "applied"
    BY <1>1, <2>1 DEF YInv, SettledOK, Verdicts
  <2>3. snapshot[k] = LastWrite(t, k)
    BY <2>2 DEF YInv, SettledOK
  <2>4. ViewOf(snapshot, k) = snapshot[k]
    BY <1>1, <1>3, <2>1, ViewShows DEF NoneIn
  <2> QED
    BY <2>3, <2>4
<1> QED
  BY <1>4, <1>5

\* The steps of the writer on the overlay.
LEMMA OverlayWriter ==
    ASSUME SInv, OverlayOK, UNCHANGED requestVars, discarded \subseteq discarded',
           \A t \in Staging : outcome[t] # None => outcome'[t] # None,
           \/ overlay' = overlay
           \/ \E E : /\ overlay' = Cleared(E)
                     /\ \A t \in Staging : t \in E => t \in discarded' \/ outcome'[t] # None
    PROVE  OverlayOK'
<1>0. pc' = pc /\ result' = result
  BY DEF requestVars
<1>1. \A t, k : LastWrite(t, k)' = LastWrite(t, k)
  BY <1>0 DEF LastWrite
<1>2. CASE overlay' = overlay
  BY <1>0, <1>1, <1>2 DEF OverlayOK
<1>3. ASSUME NEW E, overlay' = Cleared(E),
             \A t \in Staging : t \in E => t \in discarded' \/ outcome'[t] # None
      PROVE  OverlayOK'
  <2>1. overlay \in Seq(OverlayEntries)
    BY DEF SInv, StoresOK
  <2>2. /\ \A t, k, v : t \notin E /\ TopIn(overlay, t, k, v) => TopIn(overlay', t, k, v)
        /\ \A t : NoneIn(overlay, t) \/ t \in E => NoneIn(overlay', t)
    BY <1>3, <2>1, ClearedTops
  <2>3. \A j \in 1 .. Len(overlay') : \E i \in 1 .. Len(overlay) : overlay'[j] = overlay[i]
    BY <1>3, <2>1, ClearedEntries
  <2>4. \A i \in 1 .. Len(overlay') :
          pc[overlay'[i].tx] = "done" /\ overlay'[i].key \in WritesKey(overlay'[i].tx)
    BY <2>3 DEF OverlayOK
  <2>5. \A t \in Staging : \/ NoneIn(overlay', t)
                           \/ \A k \in WritesKey(t) : TopIn(overlay', t, k, LastWrite(t, k))
    BY <2>2 DEF OverlayOK
  <2>6. \A t \in Staging : pc[t] = "done" /\ t \notin discarded' /\ outcome'[t] = None =>
          \A k \in WritesKey(t) : TopIn(overlay', t, k, LastWrite(t, k))
    BY <1>3, <2>2 DEF OverlayOK
  <2> QED
    BY <1>0, <1>1, <2>4, <2>5, <2>6 DEF OverlayOK
<1> QED
  BY <1>2, <1>3

\* The steps of a request on the overlay.
LEMMA OverlayRequest ==
    ASSUME SInv, EInv, OverlayOK, NEW t \in Txs,
           LoadView(t) \/ Submit(t) \/ Stage(t) \/ \E ok \in BOOLEAN : Execute(t, ok)
    PROVE  OverlayOK'
<1>0. /\ pc \in [Txs -> Places] /\ result \in [Txs -> Results \cup {None}] /\ Staging \subseteq Txs
      /\ overlay \in Seq(OverlayEntries)
  BY StateAssumption DEF SInv, RequestsOK, StoresOK
<1>1. \A i \in 1 .. Len(overlay) : overlay[i].tx \in Txs
  <2>1. \A i \in 1 .. Len(overlay) : overlay[i] \in OverlayEntries
    BY <1>0
  <2> QED
    BY <1>0, <2>1 DEF OverlayEntries
\* Before it is done a request has nothing in the overlay.
<1>2. ASSUME NEW place, pc' = [pc EXCEPT ![t] = place], pc[t] # "done", UNCHANGED <<overlay, discarded, outcome>>,
             \A s \in Txs \ {t} : result'[s] = result[s], place = "done" => t \notin Staging
      PROVE  OverlayOK'
  <2>1. pc'[t] = place /\ \A s \in Txs \ {t} : pc'[s] = pc[s]
    BY <1>0, <1>2
  <2>2. \A s \in Txs \ {t} : \A k : LastWrite(s, k)' = LastWrite(s, k)
    BY <1>2 DEF LastWrite
  <2>3. NoneIn(overlay, t)
    BY <1>2 DEF NoneIn, OverlayOK
  <2>4. \A i \in 1 .. Len(overlay) :
          pc'[overlay[i].tx] = "done" /\ overlay[i].key \in WritesKey(overlay[i].tx)
    BY <1>1, <2>1, <2>3 DEF NoneIn, OverlayOK
  <2>5. \A s \in Staging : \/ NoneIn(overlay, s)
                           \/ \A k \in WritesKey(s) : TopIn(overlay, s, k, LastWrite(s, k)')
    BY <1>0, <2>2, <2>3 DEF OverlayOK
  <2>6. \A s \in Staging : pc'[s] = "done" /\ s \notin discarded /\ outcome[s] = None =>
          \A k \in WritesKey(s) : TopIn(overlay, s, k, LastWrite(s, k)')
    BY <1>0, <1>2, <2>1, <2>2 DEF OverlayOK
  <2> QED
    BY <1>2, <2>4, <2>5, <2>6 DEF OverlayOK
<1>3. CASE LoadView(t)
  <2>1. PICK place : place = "viewed" /\ pc' = [pc EXCEPT ![t] = place]
    BY <1>3 DEF LoadView
  <2>2. pc[t] # "done" /\ UNCHANGED <<overlay, discarded, outcome, result>>
    BY <1>3 DEF LoadView, writeVars, readVars
  <2> QED
    BY <1>2, <2>1, <2>2
<1>4. CASE Submit(t)
  <2>1. PICK place : /\ place = IF t \in Staging THEN "submitted" ELSE "done"
                     /\ pc' = [pc EXCEPT ![t] = place]
    BY <1>4 DEF Submit
  <2>2. pc[t] # "done" /\ UNCHANGED <<overlay, discarded, outcome, result>>
    BY <1>4 DEF Submit, readVars
  <2> QED
    BY <1>2, <2>1, <2>2
<1>5. ASSUME NEW ok \in BOOLEAN, Execute(t, ok) PROVE OverlayOK'
  <2>1. PICK place \in {"executed", "refused"} : pc' = [pc EXCEPT ![t] = place]
    BY <1>5 DEF Execute
  <2>2. pc[t] # "done" /\ UNCHANGED <<overlay, discarded, outcome>>
        /\ (result' = result \/ \E r : result' = [result EXCEPT ![t] = r])
    BY <1>5 DEF Execute, writeVars, readVars
  <2>3. \A s \in Txs \ {t} : result'[s] = result[s]
    BY <1>0, <2>2
  <2> QED
    BY <1>2, <2>1, <2>2, <2>3
<1>6. CASE Stage(t)
  <2>1. /\ pc[t] = "submitted" /\ pc' = [pc EXCEPT ![t] = "done"] /\ overlay' = overlay \o Entries(t)
        /\ UNCHANGED <<result, discarded, outcome>>
    BY <1>6 DEF Stage, writeVars
  <2>2. pc'[t] = "done" /\ \A s \in Txs \ {t} : pc'[s] = pc[s]
    BY <1>0, <2>1
  <2>3. t \in Past /\ t \in Staging
    BY <2>1 DEF Past, SInv, RequestsOK, RequestAt
  <2>4. /\ \A k \in WritesKey(t) : TopIn(overlay', t, k, LastWrite(t, k))
        /\ \A s, k, v : s # t /\ TopIn(overlay, s, k, v) => TopIn(overlay', s, k, v)
        /\ \A s : s # t /\ NoneIn(overlay, s) => NoneIn(overlay', s)
        /\ \A i \in 1 .. Len(overlay') :
             \/ \E j \in 1 .. Len(overlay) : overlay'[i] = overlay[j]
             \/ overlay'[i].tx = t /\ overlay'[i].key \in WritesKey(t)
    BY <2>1, <2>3, StagedTops DEF EInv
  <2>5. \A s, k : LastWrite(s, k)' = LastWrite(s, k)
    BY <2>1 DEF LastWrite
  <2>6. \A j \in 1 .. Len(overlay) : pc'[overlay[j].tx] = "done"
    BY <1>1, <2>2 DEF OverlayOK
  <2>7. \A i \in 1 .. Len(overlay') :
          pc'[overlay'[i].tx] = "done" /\ overlay'[i].key \in WritesKey(overlay'[i].tx)
    BY <2>2, <2>4, <2>6 DEF OverlayOK
  <2>8. \A s \in Staging : \/ NoneIn(overlay', s)
                           \/ \A k \in WritesKey(s) : TopIn(overlay', s, k, LastWrite(s, k))
    BY <2>4 DEF OverlayOK
  <2>9. \A s \in Staging : pc'[s] = "done" /\ s \notin discarded /\ outcome[s] = None =>
          \A k \in WritesKey(s) : TopIn(overlay', s, k, LastWrite(s, k))
    BY <1>0, <2>2, <2>4 DEF OverlayOK
  <2> QED
    BY <2>1, <2>5, <2>7, <2>8, <2>9 DEF OverlayOK
<1> QED
  BY <1>3, <1>4, <1>5, <1>6

\* A rival stays a rival: requests only get further.
LEMMA RivalsStay ==
    ASSUME SInv, SInv', Launched \subseteq Launched', NEW t, NEW k, Unrivalled(t, k)'
    PROVE  Unrivalled(t, k)
<1>1. \A s \in Txs : s \in Launched <=> pc[s] \notin {"start", "viewed", "executed", "refused"}
  BY DEF SInv, RequestsOK, Places, Launched
<1>2. \A s \in Txs : s \in Launched' <=> pc'[s] \notin {"start", "viewed", "executed", "refused"}
  BY DEF SInv, RequestsOK, Places, Launched
<1> QED
  BY <1>1, <1>2 DEF Unrivalled

\* A step that changes neither the store nor a verdict.
LEMMA SettledKept ==
    ASSUME SInv, SInv', EInv, SettledOK, UNCHANGED <<smt, effects, snapshot, outcome>>,
           Launched \subseteq Launched', \A t \in Past : result'[t] = result[t],
           writer' = writer \/ writer' = Idle
    PROVE  SettledOK'
<1>1. \A t \in Txs : effects[t] >= 1 => t \in Past
  BY DEF EInv, EffectsOK, Launched, Past
<1>2. Staging \subseteq Txs
  BY StateAssumption
<1>3. \A t \in Past : \A k : LastWrite(t, k)' = LastWrite(t, k)
  BY DEF LastWrite
<1>4. \A t, k : Unrivalled(t, k)' => Unrivalled(t, k)
  BY RivalsStay
<1>5. \A t \in Staging : \A k \in WritesKey(t) :
        effects'[t] >= 1 /\ Unrivalled(t, k)' => smt'[k] = LastWrite(t, k)'
  BY <1>1, <1>2, <1>3, <1>4 DEF SettledOK
<1>6. \A t \in Staging :
        /\ outcome'[t] # "failed"
        /\ outcome'[t] = "applied" =>
             /\ effects'[t] >= 1
             /\ \A k \in WritesKey(t) : Unrivalled(t, k)' => snapshot'[k] = LastWrite(t, k)'
  BY <1>1, <1>2, <1>3, <1>4 DEF SettledOK
<1>7. writer' # Idle => \A t \in writer'.events :
        /\ writer'.verdicts[t] = "applied" => effects'[t] >= 1
        /\ t \in Staging => writer'.verdicts[t] # "failed"
        /\ writer'.pc = "recorded" => outcome'[t] # None
  BY DEF SettledOK
<1> QED
  BY <1>5, <1>6, <1>7 DEF SettledOK, Idle

\* A frame is applied.
LEMMA SettledApply ==
    ASSUME SInv, EInv, SettledOK, NEW E, Framed(E), Apply(E), UNCHANGED <<requestVars, snapshot, outcome>>
    PROVE  SettledOK'
<1>0. pc' = pc /\ result' = result /\ effects \in [Txs -> Nat] /\ Staging \subseteq Txs
  BY StateAssumption DEF requestVars, SInv, StoresOK
<1>1. /\ E \in SUBSET Txs
      /\ effects' = [t \in Txs |-> IF t \in E /\ Verdict(smt, result[t]) = "applied"
                                   THEN effects[t] + 1 ELSE effects[t]]
      /\ writer' = Writing("applied", E, [t \in E |-> Verdict(smt, result[t])])
      /\ \A t \in E : \A k \in WriteKeys(result[t]) : smt'[k] = ApplyOne(smt, result[t])[k]
      /\ \A k \in Keys : (\A t \in E : k \notin WriteKeys(result[t])) => smt'[k] = smt[k]
  BY ApplyIs
<1>2. E \subseteq Launched /\ OriginsOK
  BY DEF Framed, EInv
<1>3. \A t \in E : t \in Past
  BY <1>2 DEF Launched, Past
<1>4. \A t, k : /\ LastWrite(t, k)' = LastWrite(t, k)
                /\ Unrivalled(t, k)' <=> Unrivalled(t, k)
  BY <1>0 DEF LastWrite, Unrivalled
<1>5. \A t \in Txs : effects[t] \in Nat /\ effects'[t] \in Nat /\ effects'[t] >= effects[t]
                     /\ (t \in E /\ Verdict(smt, result[t]) = "applied" => effects'[t] >= 1)
                     /\ (effects'[t] >= 1 => effects[t] >= 1 \/ (t \in E /\ Verdict(smt, result[t]) = "applied"))
  BY <1>0, <1>1
<1>6. ASSUME NEW t \in Staging, NEW k \in WritesKey(t), effects'[t] >= 1, Unrivalled(t, k)
      PROVE  smt'[k] = LastWrite(t, k)
  <2>1. t \in Txs /\ k \in Keys
    BY <1>0, OpsAre DEF WritesKey
  \* Nobody else in the frame writes k.
  <2>2. ASSUME NEW s \in E, k \in WriteKeys(result[s]) PROVE s = t
    <3>1. k \in WritesKey(s)
      <4>1. /\ DOMAIN result[s].changes = DOMAIN Ops[s]
            /\ \A i \in DOMAIN Ops[s] : result[s].changes[i].key = Ops[s][i].key
        BY <1>2, <1>3, ChangesAre
      <4> QED
        BY <2>2, <4>1 DEF WriteKeys, WritesKey
    <3>2. s \in Launched /\ s \in Txs
      BY <1>1, <1>2
    <3> QED
      BY <1>6, <3>1, <3>2 DEF Unrivalled, Launched
  <2>3. CASE t \in E /\ Verdict(smt, result[t]) = "applied"
    <3>1. result[t].ok
      BY <2>3 DEF Verdict
    <3>2. k \in WriteKeys(result[t])
      <4>1. /\ DOMAIN result[t].changes = DOMAIN Ops[t]
            /\ \A i \in DOMAIN Ops[t] : result[t].changes[i].key = Ops[t][i].key
        BY <1>2, <1>3, <2>3, ChangesAre
      <4> QED
        BY <1>6, <3>1, <4>1 DEF WriteKeys, WritesKey
    <3>3. smt'[k] = Written(smt, result[t].changes)[k]
      BY <1>1, <2>3, <3>2 DEF ApplyOne
    <3>4. Written(smt, result[t].changes)[k] = LastWrite(t, k)
      BY <1>2, <1>3, <2>3, LastWriteIs
    <3> QED
      BY <3>3, <3>4
  <2>4. CASE ~(t \in E /\ Verdict(smt, result[t]) = "applied")
    <3>1. smt[k] = LastWrite(t, k)
      BY <1>5, <1>6, <2>1, <2>4 DEF SettledOK
    <3>2. smt'[k] = smt[k]
      <4>1. CASE \A s \in E : k \notin WriteKeys(result[s])
        BY <1>1, <2>1, <4>1
      <4>2. ASSUME NEW s \in E, k \in WriteKeys(result[s]) PROVE smt'[k] = smt[k]
        BY <1>1, <2>2, <2>4, <4>2 DEF ApplyOne
      <4> QED
        BY <4>1, <4>2
    <3> QED
      BY <3>1, <3>2
  <2> QED
    BY <2>3, <2>4
<1>7. \A t \in Staging :
        /\ outcome[t] # "failed"
        /\ outcome[t] = "applied" =>
             /\ effects'[t] >= 1
             /\ \A k \in WritesKey(t) : Unrivalled(t, k) => snapshot[k] = LastWrite(t, k)
  BY <1>0, <1>5 DEF SettledOK
<1>8. ASSUME NEW t \in E
      PROVE  /\ Verdict(smt, result[t]) = "applied" => effects'[t] >= 1
             /\ t \in Staging => Verdict(smt, result[t]) # "failed"
  <2>1. t \in Staging => result[t].ok
    BY <1>2, <1>3 DEF SInv, RequestsOK, RequestAt, Launched
  <2>2. ~result[t].ok \/ Verdict(smt, result[t]) # "failed"
    BY DEF Verdict
  <2> QED
    BY <1>1, <1>5, <2>1, <2>2
<1>9. writer'.events = E /\ writer'.pc = "applied"
      /\ \A t \in E : writer'.verdicts[t] = Verdict(smt, result[t])
  BY <1>1 DEF Writing
<1> QED
  BY <1>4, <1>6, <1>7, <1>8, <1>9 DEF SettledOK

\* The frame is published, and its outcomes recorded.
LEMMA SettledReports ==
    ASSUME SInv, EInv, SettledOK, PublishSnapshot \/ IngestOutcomes
    PROVE  SettledOK'
<1>0. /\ UNCHANGED <<requestVars, smt, effects>> /\ writer.pc \in {"applied", "published"}
      /\ Staging \subseteq Txs
  BY StateAssumption DEF PublishSnapshot, IngestOutcomes, writeVars
<1>1. /\ writer # Idle /\ writer.events \in SUBSET Txs
      /\ writer.verdicts \in [writer.events -> Verdicts]
      /\ writer = Writing(writer.pc, writer.events, writer.verdicts)
  BY <1>0, WriterHolds
<1>2. pc' = pc /\ result' = result
  BY <1>0 DEF requestVars
<1>3. \A t, k : /\ LastWrite(t, k)' = LastWrite(t, k)
                /\ Unrivalled(t, k)' <=> Unrivalled(t, k)
  BY <1>2 DEF LastWrite, Unrivalled
<1>4. \A t \in writer.events : /\ writer.verdicts[t] = "applied" => effects[t] >= 1
                               /\ t \in Staging => writer.verdicts[t] # "failed"
  BY <1>1 DEF SettledOK
<1>5. \A t \in Staging : \A k \in WritesKey(t) :
         effects[t] >= 1 /\ Unrivalled(t, k) => smt[k] = LastWrite(t, k)
  BY DEF SettledOK
<1>6. CASE PublishSnapshot
  <2>1. writer' = [writer EXCEPT !.pc = "published"] /\ snapshot' = smt /\ outcome' = outcome
    BY <1>6 DEF PublishSnapshot
  <2>2. writer'.pc = "published" /\ writer'.events = writer.events /\ writer'.verdicts = writer.verdicts
    BY <1>1, <2>1 DEF Writing
  <2>3. \A t \in Staging :
          /\ outcome'[t] # "failed"
          /\ outcome'[t] = "applied" =>
               /\ effects[t] >= 1
               /\ \A k \in WritesKey(t) : Unrivalled(t, k) => snapshot'[k] = LastWrite(t, k)
    BY <1>5, <2>1 DEF SettledOK
  <2> QED
    BY <1>0, <1>3, <1>4, <1>5, <2>2, <2>3 DEF SettledOK
<1>7. CASE IngestOutcomes
  <2>1. /\ writer.pc = "published" /\ writer' = [writer EXCEPT !.pc = "recorded"] /\ snapshot' = snapshot
        /\ outcome' = [t \in Txs |-> IF t \in writer.events THEN writer.verdicts[t] ELSE outcome[t]]
    BY <1>7 DEF IngestOutcomes
  <2>2. writer'.pc = "recorded" /\ writer'.events = writer.events /\ writer'.verdicts = writer.verdicts
    BY <1>1, <2>1 DEF Writing
  <2>3. snapshot = smt
    BY <2>1 DEF SInv, FramesOK
  <2>4. \A t \in Txs : /\ t \in writer.events => outcome'[t] = writer.verdicts[t]
                       /\ t \notin writer.events => outcome'[t] = outcome[t]
    BY <2>1
  <2>5. \A t \in Staging :
          /\ outcome'[t] # "failed"
          /\ outcome'[t] = "applied" =>
               /\ effects[t] >= 1
               /\ \A k \in WritesKey(t) : Unrivalled(t, k) => snapshot'[k] = LastWrite(t, k)
    <3> TAKE t \in Staging
    <3>1. outcome'[t] # "failed" /\ (outcome'[t] = "applied" => effects[t] >= 1)
      BY <1>0, <1>4, <2>4 DEF SettledOK
    <3> QED
      BY <1>5, <2>1, <2>3, <3>1
  <2>6. \A t \in writer.events : outcome'[t] # None
    BY <1>1, <2>4, StateAssumption
  <2> QED
    BY <1>0, <1>3, <1>4, <1>5, <2>2, <2>5, <2>6 DEF SettledOK
<1> QED
  BY <1>6, <1>7

\* Every step keeps the overlay and the settled writes in step.
LEMMA NextYInv == SInv /\ SInv' /\ EInv /\ YInv /\ [Next]_vars => YInv'
<1> SUFFICES ASSUME SInv, SInv', EInv, YInv, [Next]_vars PROVE YInv'
  OBVIOUS
<1>0. OverlayOK /\ SettledOK /\ Staging \subseteq Txs
  BY StateAssumption DEF YInv
<1>1. ASSUME UNCHANGED requestVars PROVE Launched' = Launched /\ result' = result
  BY <1>1 DEF requestVars, Launched
<1>2. ASSUME UNCHANGED <<requestVars, smt, effects, snapshot, outcome>>, discarded \subseteq discarded',
             writer' = writer \/ writer' = Idle,
             \/ overlay' = overlay
             \/ \E E : overlay' = Cleared(E) /\ \A t \in Staging : t \in E => t \in discarded' \/ outcome'[t] # None
      PROVE  YInv'
  <2>1. OverlayOK'
    BY <1>0, <1>2, OverlayWriter
  <2>2. SettledOK'
    BY <1>0, <1>1, <1>2, SettledKept
  <2> QED
    BY <2>1, <2>2 DEF YInv
<1>3. ASSUME NEW E, Framed(E), Apply(E), UNCHANGED <<requestVars, snapshot, outcome>>,
             \/ overlay' = overlay /\ discarded' = discarded
             \/ overlay' = Cleared(E) /\ discarded' = discarded \cup E
      PROVE  YInv'
  <2>1. OverlayOK'
    <3>1. \/ overlay' = overlay
          \/ \E D : overlay' = Cleared(D) /\ \A t \in Staging : t \in D => t \in discarded' \/ outcome'[t] # None
      BY <1>3
    <3>2. discarded \subseteq discarded'
      BY <1>3
    <3> QED
      BY <1>0, <1>3, <3>1, <3>2, OverlayWriter
  <2>2. SettledOK'
    BY <1>0, <1>3, SettledApply
  <2> QED
    BY <2>1, <2>2 DEF YInv
<1>4. ASSUME NEW t \in Txs, LoadView(t) \/ Submit(t) \/ Stage(t) \/ \E ok \in BOOLEAN : Execute(t, ok)
      PROVE  YInv'
  <2>1. OverlayOK'
    BY <1>0, <1>4, OverlayRequest
  <2>2. pc \in [Txs -> Places] /\ result \in [Txs -> Results \cup {None}]
    BY DEF SInv, RequestsOK
  <2>3. UNCHANGED <<smt, effects, snapshot, outcome, writer>>
    BY <1>4 DEF LoadView, Submit, Stage, Execute, writeVars, readVars
  <2>4. Launched \subseteq Launched' /\ \A s \in Past : result'[s] = result[s]
    <3>1. CASE LoadView(t) \/ Submit(t) \/ Stage(t)
      BY <2>2, <3>1 DEF LoadView, Submit, Stage, Launched
    <3>2. ASSUME NEW ok \in BOOLEAN, Execute(t, ok)
          PROVE  Launched \subseteq Launched' /\ \A s \in Past : result'[s] = result[s]
      <4>1. /\ pc[t] = "viewed"
            /\ result' = result \/ \E r : result' = [result EXCEPT ![t] = r]
            /\ \E place : pc' = [pc EXCEPT ![t] = place]
        BY <3>2 DEF Execute
      <4> QED
        BY <2>2, <4>1 DEF Launched, Past
    <3> QED
      BY <1>4, <3>1, <3>2
  <2>5. SettledOK'
    BY <1>0, <2>3, <2>4, SettledKept
  <2> QED
    BY <2>1, <2>5 DEF YInv
<1>5. ASSUME NEW t \in Txs, Redeliver(t) PROVE YInv'
  BY <1>2, <1>5 DEF Redeliver, readVars
<1>6. ASSUME DropBuild \/ \E F \in SUBSET Txs : PrepareBuild(F) PROVE YInv'
  BY <1>2, <1>6 DEF DropBuild, PrepareBuild, readVars
<1>7. ASSUME NEW E, Discard(E), UNCHANGED <<requestVars, snapshot, outcome>> PROVE YInv'
  <2>1. /\ discarded' = discarded \cup E /\ overlay' = Cleared(E) /\ UNCHANGED <<smt, effects, writer>>
    BY <1>7 DEF Discard
  <2>2. discarded \subseteq discarded' /\ \A t \in Staging : t \in E => t \in discarded' \/ outcome'[t] # None
    BY <2>1
  <2> QED
    BY <1>2, <1>7, <2>1, <2>2
<1>8. ASSUME CommitBuild PROVE YInv'
  <2> DEFINE E == build.events
  <2>1. build # None /\ UNCHANGED <<requestVars, snapshot, outcome>>
    BY <1>8 DEF CommitBuild
  <2>2. Framed(E)
    BY <2>1 DEF SInv, FramesOK, BuildOK
  <2>3. \/ Apply(E) /\ overlay' = overlay /\ discarded' = discarded
        \/ Apply(E) /\ overlay' = Cleared(E) /\ discarded' = discarded \cup E
        \/ Discard(E)
    BY <1>8 DEF CommitBuild
  <2> HIDE DEF E
  <2>4. CASE Apply(E) /\ overlay' = overlay /\ discarded' = discarded
    BY <1>3, <2>1, <2>2, <2>4
  <2>5. CASE Apply(E) /\ overlay' = Cleared(E) /\ discarded' = discarded \cup E
    BY <1>3, <2>1, <2>2, <2>5
  <2>6. CASE Discard(E)
    BY <1>7, <2>1, <2>6
  <2> QED
    BY <2>3, <2>4, <2>5, <2>6
<1>9. ASSUME NEW E \in SUBSET Txs, NEW match \in BOOLEAN, FollowCf(E, match) PROVE YInv'
  <2>1. /\ UNCHANGED <<requestVars, snapshot, outcome>>
        /\ (Apply(E) /\ overlay' = overlay /\ discarded' = discarded) \/ Discard(E)
    BY <1>9 DEF FollowCf
  <2>2. Framed(E)
    BY <1>9, FollowStep
  <2>3. CASE Apply(E) /\ overlay' = overlay /\ discarded' = discarded
    BY <1>3, <2>1, <2>2, <2>3
  <2>4. CASE Discard(E)
    BY <1>7, <2>1, <2>4
  <2> QED
    BY <2>1, <2>3, <2>4
<1>10. ASSUME CommitFails PROVE YInv'
  <2> DEFINE E == writer.events
  <2>1. /\ discarded' = discarded \cup E /\ overlay' = Cleared(E) /\ writer' = Idle
        /\ UNCHANGED <<requestVars, smt, effects, snapshot, outcome>>
    BY <1>10 DEF CommitFails
  <2>2. discarded \subseteq discarded' /\ \A t \in Staging : t \in E => t \in discarded' \/ outcome'[t] # None
    BY <2>1
  <2> QED
    BY <1>2, <2>1, <2>2
<1>11. ASSUME PublishSnapshot \/ IngestOutcomes PROVE YInv'
  <2>1. SettledOK'
    BY <1>0, <1>11, SettledReports
  <2>2. UNCHANGED <<requestVars, overlay, discarded>> /\ \A t \in Staging : outcome[t] # None => outcome'[t] # None
    <3>1. CASE PublishSnapshot
      BY <3>1 DEF PublishSnapshot, writeVars
    <3>2. CASE IngestOutcomes
      <4>1. writer.pc = "published" /\ UNCHANGED <<requestVars, overlay, discarded>>
            /\ outcome' = [t \in Txs |-> IF t \in writer.events THEN writer.verdicts[t] ELSE outcome[t]]
        BY <3>2 DEF IngestOutcomes, writeVars
      <4>2. writer.verdicts \in [writer.events -> Verdicts]
        BY <4>1, WriterHolds
      <4>3. None \notin Verdicts
        BY StateAssumption
      <4> QED
        BY <1>0, <4>1, <4>2, <4>3
    <3> QED
      BY <1>11, <3>1, <3>2
  <2>3. OverlayOK'
    BY <1>0, <2>2, OverlayWriter
  <2> QED
    BY <2>1, <2>3 DEF YInv
<1>12. ASSUME Finish PROVE YInv'
  <2>1. /\ writer.pc = "recorded" /\ overlay' = Cleared(writer.events) /\ writer' = Idle
        /\ UNCHANGED <<requestVars, smt, effects, snapshot, outcome, discarded>>
    BY <1>12 DEF Finish
  <2>2. writer # Idle
    BY <2>1 DEF Idle
  <2>3. \A t \in Staging : t \in writer.events => t \in discarded' \/ outcome'[t] # None
    BY <1>0, <2>1, <2>2 DEF SettledOK
  <2> QED
    BY <1>2, <2>1, <2>3
<1>13. ASSUME NEW w \in Waiters, WaiterStep(w) PROVE YInv'
  BY <1>2, <1>13 DEF WaiterStep, writeVars, readVars
<1>14. CASE UNCHANGED vars
  BY <1>2, <1>14 DEF vars, writeVars, readVars
<1> QED
  BY <1>4, <1>5, <1>6, <1>8, <1>9, <1>10, <1>11, <1>12, <1>13, <1>14 DEF Next

\* Once a Move call has answered, load_overlay_view shows its writes through
\* every step of finalization, in whatever order staging, folding, following and
\* clearing come; the exceptions the property names are the only ones.
THEOREM ReadYourWritesHolds == Spec => []ReadYourWrites
<1>1. Init => YInv
  <2> SUFFICES ASSUME Init PROVE YInv
    OBVIOUS
  <2>1. Staging \subseteq Txs /\ None \notin Verdicts
    BY StateAssumption
  <2>2. overlay = << >> /\ Len(overlay) = 0 /\ 1 .. 0 = {}
    BY DEF Init
  <2>3. OverlayOK
    BY <2>1, <2>2 DEF Init, OverlayOK, NoneIn
  <2>4. SettledOK
    BY <2>1 DEF Init, SettledOK, Verdicts
  <2> QED
    BY <2>3, <2>4 DEF YInv
<1>2. SInv /\ YInv => ReadYourWrites
  BY YInvReads
<1> QED
  BY <1>1, <1>2, NextYInv, EInvHolds, SInvHolds, PTL DEF Spec
=============================================================================
