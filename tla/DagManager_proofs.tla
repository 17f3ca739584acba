------------------------- MODULE DagManager_proofs -------------------------
(***************************************************************************)
(* Proofs about DagManager for every finite set of events, every parent    *)
(* relation, any number of adders and finalizers and every bound.          *)
(***************************************************************************)
EXTENDS DagManager, FiniteSetTheorems, TLAPS

\* While an adder looks for a parent, there is one left to look for.
Looking ==
    \A a \in Adders :
        add[a].pc \in {"dag", "cache", "store"}
            => Len(add[a].found) < Len(ParentIds[add[a].ev])

\* A finalizer at work has an anchor.
AtWork ==
    \A p \in Finalizers :
        fin[p].pc # "idle" => fin[p].anchor \in 1 .. Len(anchors)

TInv == TypeOK /\ Looking /\ AtWork /\ Len(anchors) <= MaxAnchors

\* The larger of two naturals.
LEMMA LargerNat ==
  ASSUME NEW m \in Nat, NEW n \in Nat
  PROVE  Larger(m, n) \in Nat
  BY DEF Larger

\* The idle states are well typed.
LEMMA IdleTypes == IdleAdder \in AddState /\ IdleFinalizer \in FinState
  <1>1. (CHOOSE e \in Events : TRUE) \in Events
    BY EventsAssumption
  <1>2. <<>> \in Seq([layer : {"dag", "cache", "store"}, depth : Nat])
    OBVIOUS
  <1>3. 0 \in 0 .. MaxRetry - 1
    BY DEF MaxRetry
  <1>4. IdleAdder \in AddState
    BY <1>1, <1>2, <1>3 DEF IdleAdder, AddState
  <1>5. NoBatch \in [Events -> Depths] /\ 0 \in 0 .. MaxAnchors
    BY LimitsAssumption DEF NoBatch, Depths
  <1>6. IdleFinalizer \in FinState
    BY <1>5 DEF IdleFinalizer, FinState
  <1> QED
    BY <1>4, <1>6

\* The initial state is well typed.
LEMMA InitTInv == Init => TInv
  <1> SUFFICES ASSUME Init PROVE TInv
    OBVIOUS
  <1>1. NoBatch \in [Events -> Depths]
    BY DEF NoBatch, Depths
  <1>2. Cached = {} /\ InDag = {}
    BY <1>1 DEF Init, Cached, InDag, NoBatch
  <1>3. Cardinality(Cached) <= CacheCapacity
    BY <1>2, FS_EmptySet, LimitsAssumption
  <1>4. add \in [Adders -> AddState] /\ fin \in [Finalizers -> FinState]
    BY IdleTypes DEF Init
  <1>5. TypeOK
    BY <1>1, <1>2, <1>3, <1>4, LimitsAssumption DEF Init, TypeOK
  <1>6. Looking /\ AtWork
    BY DEF Init, Looking, AtWork, IdleAdder, IdleFinalizer
  <1> QED
    BY <1>5, <1>6, LimitsAssumption DEF TInv, Init

-----------------------------------------------------------------------------
(* Adders.                                                                 *)

\* A step that changes only the adders keeps the invariant if it keeps theirs.
LEMMA AdderStep ==
  ASSUME TInv, add' \in [Adders -> AddState], Looking',
         UNCHANGED <<dag, minDepth, cache, stored, anchors, anchorStore, fin,
                     admitted, abandoned>>,
         redeliveries' \in 0 .. MaxRedeliveries
  PROVE  TInv'
  BY DEF TInv, TypeOK, AtWork, dag, InDag, Cached

\* Going idle keeps the adders well typed.
LEMMA RefuseTypes ==
  ASSUME TInv, NEW a \in Adders, Refuse(a)
  PROVE  add' \in [Adders -> AddState] /\ Looking'
  <1>1. add' = [add EXCEPT ![a] = IdleAdder]
    BY DEF Refuse
  <1>2. add' \in [Adders -> AddState]
    BY <1>1, IdleTypes DEF TInv, TypeOK
  <1>3. Looking'
    BY <1>1 DEF TInv, TypeOK, Looking, IdleAdder
  <1> QED
    BY <1>2, <1>3

\* Moving on to the next layer keeps the adders well typed.
LEMMA NotFoundTypes ==
  ASSUME TInv, NEW a \in Adders, NEW next \in {"cache", "store"}, NotFound(a, next),
         add[a].pc \in {"dag", "cache", "store"}
  PROVE  add' \in [Adders -> AddState] /\ Looking'
  <1>1. add' = [add EXCEPT ![a].pc = next]
    BY DEF NotFound
  <1>2. add' \in [Adders -> AddState]
    BY <1>1, ZenonT(60) DEF TInv, TypeOK, AddState
  <1>3. Looking'
    BY <1>1, SMTT(30) DEF TInv, TypeOK, Looking, AddState
  <1> QED
    BY <1>2, <1>3

\* The parent an adder looks for is an event.
LEMMA WantedEvent ==
  ASSUME TInv, NEW a \in Adders, add[a].pc \in {"dag", "cache", "store"}
  PROVE  Wanted(a) \in Events
  <1>1. add[a] \in AddState
    BY DEF TInv, TypeOK
  <1>2. ParentIds[add[a].ev] \in Seq(Events)
    BY <1>1, EventsAssumption DEF AddState
  <1>3. Len(add[a].found) \in Nat /\ Len(add[a].found) < Len(ParentIds[add[a].ev])
    BY <1>1 DEF TInv, Looking, AddState
  <1> QED
    BY <1>2, <1>3 DEF Wanted

\* Finding a parent keeps the adders well typed.
LEMMA FoundTypes ==
  ASSUME TInv, NEW a \in Adders, NEW layer \in {"dag", "cache", "store"}, NEW d \in Nat,
         add[a].pc \in {"dag", "cache", "store"}, Found(a, layer, d)
  PROVE  add' \in [Adders -> AddState] /\ Looking'
  <1> DEFINE r == add[a]
             more == Append(r.found, [layer |-> layer, depth |-> d])
             next == IF Len(r.found) + 1 = Len(ParentIds[r.ev]) THEN "resolve" ELSE "dag"
             new == [r EXCEPT !.found = more, !.depth = Larger(r.depth, d), !.pc = next]
  <1>1. r \in AddState /\ add \in [Adders -> AddState]
    BY DEF TInv, TypeOK
  <1>2. more \in Seq([layer : {"dag", "cache", "store"}, depth : Nat])
        /\ Len(more) = Len(r.found) + 1
    BY <1>1 DEF AddState
  <1>3. Larger(r.depth, d) \in Nat
    BY <1>1, LargerNat DEF AddState
  <1>4. new \in AddState
    BY <1>1, <1>2, <1>3 DEF AddState
  <1>5. add' = [add EXCEPT ![a] = new]
    BY <1>1 DEF Found, AddState
  <1>6. add' \in [Adders -> AddState]
    BY <1>1, <1>4, <1>5
  <1>7. Len(r.found) < Len(ParentIds[r.ev]) /\ Len(r.found) \in Nat
        /\ Len(ParentIds[r.ev]) \in Nat
    <2>1. ParentIds[r.ev] \in Seq(Events)
      BY <1>1, EventsAssumption DEF AddState
    <2> QED
      BY <1>1, <2>1 DEF TInv, Looking, AddState
  <1>8. new.pc = "dag" => Len(new.found) < Len(ParentIds[new.ev])
    BY <1>1, <1>2, <1>7 DEF AddState
  <1>9. new.pc \notin {"cache", "store"}
    BY <1>1 DEF AddState
  <1>10. Looking'
    BY <1>1, <1>5, <1>8, <1>9 DEF TInv, Looking
  <1> QED
    BY <1>6, <1>10

\* What a layer that answers changes.
LEMMA LookupStep ==
  ASSUME TInv, NEW a \in Adders,
         LookInDag(a) \/ LookInCache(a) \/ LookInStore(a)
  PROVE  TInv'
  <1>1. add[a].pc \in {"dag", "cache", "store"}
    BY DEF LookInDag, LookInCache, LookInStore
  <1>2. Wanted(a) \in Events
    BY <1>1, WantedEvent
  <1>3. /\ depth[Wanted(a)] \in Depths /\ cache[Wanted(a)] \in Depths
        /\ stored[Wanted(a)] \in Depths
    BY <1>2 DEF TInv, TypeOK
  <1>4. \/ \E layer \in {"dag", "cache", "store"}, d \in Nat : Found(a, layer, d)
        \/ \E next \in {"cache", "store"} : NotFound(a, next)
        \/ Refuse(a)
    BY <1>3 DEF LookInDag, LookInCache, LookInStore, InDag, Depths
  <1>5. add' \in [Adders -> AddState] /\ Looking'
    BY <1>1, <1>4, FoundTypes, NotFoundTypes, RefuseTypes
  <1>6. /\ UNCHANGED <<dag, minDepth, cache, stored, anchors, anchorStore, fin,
                       admitted, abandoned>>
        /\ redeliveries' \in 0 .. MaxRedeliveries
    BY DEF LookInDag, LookInCache, LookInStore, TInv, TypeOK
  <1> QED
    BY <1>5, <1>6, AdderStep

\* An attempt starts with a parent to look for, if it looks for one.
LEMMA FirstPcTypes ==
  ASSUME NEW e \in Events
  PROVE  /\ FirstPc(e) \in {"resolve", "dag"}
         /\ FirstPc(e) = "dag" => 0 < Len(ParentIds[e])
  <1>1. ParentIds[e] \in Seq(Events)
    BY EventsAssumption
  <1> QED
    BY <1>1 DEF FirstPc

\* Delivery keeps the invariant.
LEMMA DeliverStep ==
  ASSUME TInv, NEW a \in Adders, NEW e \in Events, Deliver(a, e)
  PROVE  TInv'
  <1> DEFINE new == [IdleAdder EXCEPT !.pc = FirstPc(e), !.ev = e, !.known = admitted]
  <1>1. IdleAdder \in AddState /\ IdleAdder.found = <<>>
    BY IdleTypes DEF IdleAdder
  <1>2. new \in AddState /\ new.found = <<>> /\ new.ev = e /\ new.pc = FirstPc(e)
    BY <1>1, FirstPcTypes DEF AddState, TInv, TypeOK
  <1>3. add' = [add EXCEPT ![a] = new]
    BY DEF Deliver
  <1>4. add' \in [Adders -> AddState]
    BY <1>2, <1>3 DEF TInv, TypeOK
  <1>5. new.pc \in {"dag", "cache", "store"} => Len(new.found) < Len(ParentIds[new.ev])
    BY <1>2, FirstPcTypes
  <1>6. Looking'
    BY <1>3, <1>5 DEF TInv, TypeOK, Looking
  <1>7. /\ UNCHANGED <<dag, minDepth, cache, stored, anchors, anchorStore, fin,
                       admitted, abandoned>>
        /\ redeliveries' \in 0 .. MaxRedeliveries
    BY LimitsAssumption DEF Deliver, TInv, TypeOK
  <1> QED
    BY <1>4, <1>6, <1>7, AdderStep

\* The depth of a new event is a natural number.
LEMMA NewDepthNat ==
  ASSUME TInv, NEW a \in Adders
  PROVE  NewDepth(a) \in Nat
  <1>1. add[a].depth \in Nat /\ maxDepth \in Nat /\ minDepth \in Nat
    BY DEF TInv, TypeOK, AddState
  <1>2. RawDepth(a) \in Nat
    BY <1>1 DEF RawDepth
  <1> QED
    BY <1>1, <1>2, LargerNat DEF NewDepth

\* Resolving keeps the invariant.
LEMMA ResolveStep ==
  ASSUME TInv, NEW a \in Adders, Resolve(a)
  PROVE  TInv'
  <1>1. /\ UNCHANGED <<dag, minDepth, cache, stored, anchors, anchorStore, fin,
                       admitted, abandoned>>
        /\ redeliveries' \in 0 .. MaxRedeliveries
    BY DEF Resolve, TInv, TypeOK
  <1>2. CASE Refuse(a)
    BY <1>1, <1>2, RefuseTypes, AdderStep
  <1>3. CASE add' = [add EXCEPT ![a].pc = "write", ![a].depth = NewDepth(a)]
    <2>1. add' \in [Adders -> AddState]
      BY <1>3, NewDepthNat, ZenonT(60) DEF TInv, TypeOK, AddState
    <2>2. Looking'
      BY <1>3, SMTT(30) DEF TInv, TypeOK, Looking, AddState
    <2> QED
      BY <1>1, <2>1, <2>2, AdderStep
  <1> QED
    BY <1>2, <1>3 DEF Resolve

\* A new attempt, or giving up, keeps the invariant.
LEMMA RetryStep ==
  ASSUME TInv, NEW a \in Adders, Retry(a)
  PROVE  TInv'
  <1> DEFINE r == add[a]
             new == [r EXCEPT !.pc = FirstPc(r.ev), !.found = <<>>, !.depth = 0,
                              !.tries = r.tries + 1]
  <1>1. /\ UNCHANGED <<dag, minDepth, cache, stored, anchors, anchorStore, fin,
                       admitted, abandoned>>
        /\ redeliveries' \in 0 .. MaxRedeliveries
    BY DEF Retry, TInv, TypeOK
  <1>2. CASE Refuse(a)
    BY <1>1, <1>2, RefuseTypes, AdderStep
  <1>3. CASE r.tries + 1 < MaxRetry /\ add' = [add EXCEPT ![a] = new]
    <2>1. r \in AddState
      BY DEF TInv, TypeOK
    <2>2. r.tries + 1 \in 0 .. MaxRetry - 1
      BY <1>3, <2>1 DEF AddState, MaxRetry
    <2>3. <<>> \in Seq([layer : {"dag", "cache", "store"}, depth : Nat]) /\ Len(<<>>) = 0
      OBVIOUS
    <2>4. FirstPc(r.ev) \in {"resolve", "dag"}
          /\ (FirstPc(r.ev) = "dag" => 0 < Len(ParentIds[r.ev]))
      BY <2>1, FirstPcTypes DEF AddState
    <2>5. new \in AddState
      BY <2>1, <2>2, <2>3, <2>4 DEF AddState
    <2>6. new.pc \in {"dag", "cache", "store"} => Len(new.found) < Len(ParentIds[new.ev])
      BY <2>1, <2>3, <2>4 DEF AddState
    <2>7. add' \in [Adders -> AddState]
      BY <1>3, <2>5 DEF TInv, TypeOK
    <2>8. Looking'
      BY <1>3, <2>6 DEF TInv, TypeOK, Looking
    <2> QED
      BY <1>1, <2>7, <2>8, AdderStep
  <1> QED
    <2>1. add[a] \in AddState /\ add \in [Adders -> AddState]
      BY DEF TInv, TypeOK
    <2>2. Refuse(a) \/ (r.tries + 1 < MaxRetry /\ add' = [add EXCEPT ![a] = new])
      BY <2>1 DEF Retry, AddState
    <2> QED
      BY <1>2, <1>3, <2>2

\* Inserting an event keeps the invariant.
LEMMA WriteStep ==
  ASSUME TInv, NEW a \in Adders, Write(a)
  PROVE  TInv'
  <1> DEFINE e == add[a].ev
  <1>1. e \in Events /\ add[a].depth \in Nat
    BY DEF TInv, TypeOK, AddState
  <1>2. add' \in [Adders -> AddState] /\ Looking'
    BY RefuseTypes DEF Write, Refuse
  <1>3. /\ depth' \in [Events -> Depths] /\ links' \subseteq Events \X Events
        /\ maxDepth' \in Nat /\ admitted' \subseteq Events /\ InDag \subseteq InDag'
    <2>1. CASE e \in InDag
      BY <1>1, <2>1 DEF Write, TInv, TypeOK, InDag
    <2>2. CASE e \notin InDag
      <3>1. /\ depth' = [depth EXCEPT ![e] = add[a].depth]
            /\ links' = links \cup {<<p, e>> : p \in Parents(e) \cap InDag}
            /\ maxDepth' = Larger(maxDepth, add[a].depth)
            /\ admitted' = admitted \cup {e}
        BY <2>2 DEF Write
      <3>2. depth' \in [Events -> Depths] /\ InDag \subseteq InDag'
        BY <1>1, <3>1 DEF TInv, TypeOK, InDag, Depths, NoDepth
      <3>3. links' \subseteq Events \X Events
        BY <1>1, <3>1 DEF TInv, TypeOK, InDag
      <3>4. maxDepth' \in Nat
        BY <1>1, <3>1, LargerNat DEF TInv, TypeOK
      <3> QED
        BY <1>1, <3>1, <3>2, <3>3, <3>4 DEF TInv, TypeOK
    <2> QED
      BY <2>1, <2>2
  <1>4. UNCHANGED <<final, minDepth, cache, stored, anchors, anchorStore, fin,
                    redeliveries, abandoned>>
    BY DEF Write
  <1>5. Cached' = Cached
    BY <1>4 DEF Cached
  <1>6. TypeOK'
    BY <1>2, <1>3, <1>4, <1>5 DEF TInv, TypeOK
  <1> QED
    BY <1>2, <1>4, <1>6 DEF TInv, AtWork

-----------------------------------------------------------------------------
(* Finalizers.                                                             *)

\* A finalizer that goes on to its next step stays well typed.
LEMMA GotoTypes ==
  ASSUME TInv, NEW p \in Finalizers, fin[p].pc # "idle", anchors' = anchors,
         NEW next \in {"collect", "finalize", "cache", "gc"}, Goto(p, next)
  PROVE  fin' \in [Finalizers -> FinState] /\ AtWork'
  <1>1. fin' = [fin EXCEPT ![p].pc = next] /\ fin \in [Finalizers -> FinState]
    BY DEF Goto, TInv, TypeOK
  <1>2. fin' \in [Finalizers -> FinState]
    BY <1>1 DEF FinState
  <1>3. AtWork'
    BY <1>1 DEF TInv, AtWork, FinState
  <1> QED
    BY <1>2, <1>3

\* A finalizer that ends stays well typed.
LEMMA EndTypes ==
  ASSUME TInv, NEW p \in Finalizers, anchors' = anchors, EndFinalizer(p)
  PROVE  fin' \in [Finalizers -> FinState] /\ AtWork'
  <1>1. fin' = [fin EXCEPT ![p] = IdleFinalizer] /\ fin \in [Finalizers -> FinState]
    BY DEF EndFinalizer, TInv, TypeOK
  <1>2. fin' \in [Finalizers -> FinState]
    BY <1>1, IdleTypes
  <1>3. AtWork'
    BY <1>1 DEF TInv, AtWork, IdleFinalizer
  <1> QED
    BY <1>2, <1>3

\* An element of a sequence over S is in S.
LEMMA SeqElement ==
  ASSUME NEW S, NEW s \in Seq(S), NEW i \in 1 .. Len(s)
  PROVE  s[i] \in S
  OBVIOUS

\* The anchor a finalizer works on.
LEMMA AnchorTypes ==
  ASSUME TInv, NEW p \in Finalizers, fin[p].pc # "idle"
  PROVE  /\ fin[p].anchor \in 1 .. Len(anchors)
         /\ EventsOf(p) \subseteq Events
         /\ anchors[fin[p].anchor].depth \in Nat
  <1>1. fin[p].anchor \in 1 .. Len(anchors)
    BY DEF TInv, AtWork
  <1>2. anchors \in Seq([events : SUBSET Events, depth : Nat])
    BY DEF TInv, TypeOK
  <1>3. anchors[fin[p].anchor] \in [events : SUBSET Events, depth : Nat]
    BY <1>1, <1>2, SeqElement
  <1> QED
    BY <1>1, <1>3 DEF EventsOf

\* Finalizing an anchor keeps the invariant.
LEMMA FinalizeStep ==
  ASSUME TInv, NEW p \in Finalizers, NEW E \in SUBSET Pending, NEW d \in 0 .. maxDepth,
         Finalize(p, E, d)
  PROVE  TInv'
  <1> DEFINE new == [IdleFinalizer EXCEPT !.pc = "mark", !.anchor = Len(anchors) + 1]
             anchor == [events |-> E, depth |-> d]
  <1>1. d \in Nat /\ E \subseteq Events
    BY DEF TInv, TypeOK, Pending, InDag
  <1>2. anchors \in Seq([events : SUBSET Events, depth : Nat]) /\ Len(anchors) \in Nat
    BY DEF TInv, TypeOK
  <1>3. anchors' = Append(anchors, anchor)
    BY DEF Finalize
  <1>4. anchors' \in Seq([events : SUBSET Events, depth : Nat])
        /\ Len(anchors') = Len(anchors) + 1
    BY <1>1, <1>2, <1>3
  <1>5. Len(anchors) + 1 \in 0 .. MaxAnchors
    BY <1>2, LimitsAssumption DEF Finalize
  <1>6. new \in FinState /\ new.anchor = Len(anchors) + 1
    BY <1>5, IdleTypes DEF FinState
  <1>7. fin' = [fin EXCEPT ![p] = new]
    BY DEF Finalize
  <1>8. fin' \in [Finalizers -> FinState]
    BY <1>6, <1>7 DEF TInv, TypeOK
  <1>9. AtWork'
    BY <1>2, <1>4, <1>6, <1>7 DEF TInv, TypeOK, AtWork
  <1>10. minDepth' \in Nat
    <2>1. minDepth \in Nat /\ d + 1 \in Nat /\ minDepth' = Larger(minDepth, d + 1)
      BY <1>1 DEF Finalize, TInv, TypeOK
    <2> QED
      BY <2>1, LargerNat
  <1>11. UNCHANGED <<dag, cache, stored, anchorStore, add, admitted, redeliveries, abandoned>>
    BY DEF Finalize
  <1>12. anchorStore' \subseteq 1 .. Len(anchors')
    BY <1>2, <1>4, <1>11 DEF TInv, TypeOK
  <1>13. InDag' = InDag /\ Cached' = Cached
    BY <1>11 DEF InDag, Cached, dag
  <1>14. TypeOK'
    BY <1>4, <1>8, <1>10, <1>11, <1>12, <1>13 DEF TInv, TypeOK, dag
  <1>15. Looking'
    BY <1>11 DEF TInv, Looking
  <1> QED
    BY <1>4, <1>5, <1>9, <1>14, <1>15 DEF TInv

\* Marking events Finalized, before or after persisting, keeps the invariant.
LEMMA MarkStep ==
  ASSUME TInv, NEW p \in Finalizers, Mark(p) \/ FinalizeAgain(p)
  PROVE  TInv'
  <1>1. /\ fin[p].pc # "idle" /\ final' = final \cup (EventsOf(p) \cap InDag)
        /\ Goto(p, "collect") \/ Goto(p, "cache")
        /\ UNCHANGED <<depth, links, maxDepth, cache, stored, anchors,
                       anchorStore, add, admitted, redeliveries, abandoned>>
    BY DEF Mark, FinalizeAgain
  <1>2. fin' \in [Finalizers -> FinState] /\ AtWork'
    BY <1>1, GotoTypes
  <1>3. minDepth' \in Nat
    <2>1. minDepth \in Nat /\ anchors[fin[p].anchor].depth + 1 \in Nat
      BY <1>1, AnchorTypes DEF TInv, TypeOK
    <2>2. minDepth' \in {minDepth, Larger(minDepth, anchors[fin[p].anchor].depth + 1)}
      BY DEF Mark, FinalizeAgain
    <2> QED
      BY <2>1, <2>2, LargerNat
  <1>4. InDag' = InDag /\ Cached' = Cached
    BY <1>1 DEF InDag, Cached
  <1>5. TypeOK'
    BY <1>1, <1>2, <1>3, <1>4 DEF TInv, TypeOK
  <1> QED
    BY <1>1, <1>2, <1>5 DEF TInv, Looking

\* Collecting, storing and giving up keep the invariant.
LEMMA PersistStep ==
  ASSUME TInv, NEW p \in Finalizers,
         Collect(p) \/ StoreEvents(p) \/ StoreAnchor(p) \/ Abandon(p)
  PROVE  TInv'
  <1>1. /\ fin[p].pc # "idle"
        /\ UNCHANGED <<dag, minDepth, cache, anchors, add, admitted, redeliveries>>
    BY DEF Collect, StoreEvents, StoreAnchor, Abandon
  <1>2. fin \in [Finalizers -> FinState] /\ NoBatch \in [Events -> Depths]
    BY DEF TInv, TypeOK, NoBatch, Depths
  <1>3. fin' \in [Finalizers -> FinState] /\ AtWork'
    <2>1. CASE EndFinalizer(p) \/ Goto(p, "finalize")
      BY <1>1, <2>1, EndTypes, GotoTypes
    <2>2. ASSUME NEW next \in {"events", "anchor"}, NEW b \in [Events -> Depths],
                 fin' = [fin EXCEPT ![p].pc = next, ![p].batch = b]
          PROVE  fin' \in [Finalizers -> FinState] /\ AtWork'
      <3>1. fin' \in [Finalizers -> FinState]
        BY <1>2, <2>2 DEF FinState
      <3>2. AtWork'
        BY <1>1, <1>2, <2>2 DEF TInv, AtWork, FinState
      <3> QED
        BY <3>1, <3>2
    <2>3. CASE fin' = [fin EXCEPT ![p].pc = "events",
                         ![p].batch = [e \in Events |-> IF e \in EventsOf(p)
                                          THEN depth[e] ELSE NoDepth]]
      <3>1. [e \in Events |-> IF e \in EventsOf(p) THEN depth[e] ELSE NoDepth]
               \in [Events -> Depths]
        BY DEF TInv, TypeOK, Depths
      <3> QED
        BY <2>2, <2>3, <3>1
    <2>4. CASE fin' = [fin EXCEPT ![p].pc = "anchor", ![p].batch = NoBatch]
      BY <1>2, <2>2, <2>4
    <2> QED
      BY <2>1, <2>3, <2>4 DEF Collect, StoreEvents, StoreAnchor, Abandon
  <1>4. stored' \in [Events -> Depths]
    <2>1. CASE StoreEvents(p)
      <3>1. fin[p].batch \in [Events -> Depths]
        BY <1>2 DEF FinState
      <3> QED
        BY <2>1, <3>1 DEF StoreEvents, TInv, TypeOK
    <2>2. CASE stored' = stored
      BY <2>2 DEF TInv, TypeOK
    <2> QED
      BY <2>1, <2>2 DEF Collect, StoreAnchor, Abandon
  <1>5. anchorStore' \subseteq 1 .. Len(anchors')
    BY <1>1, AnchorTypes DEF Collect, StoreEvents, StoreAnchor, Abandon, TInv, TypeOK
  <1>6. abandoned' \in 0 .. MaxAbandoned
    BY LimitsAssumption DEF Collect, StoreEvents, StoreAnchor, Abandon, TInv, TypeOK
  <1>7. InDag' = InDag /\ Cached' = Cached
    BY <1>1 DEF InDag, Cached, dag
  <1>8. TypeOK'
    BY <1>1, <1>3, <1>4, <1>5, <1>6, <1>7 DEF TInv, TypeOK, dag
  <1> QED
    BY <1>1, <1>3, <1>8 DEF TInv, Looking

\* Filling the cache keeps the invariant, its capacity included.
LEMMA FillCacheStep ==
  ASSUME TInv, NEW p \in Finalizers, NEW K \in SUBSET Events, FillCache(p, K)
  PROVE  TInv'
  <1> DEFINE new == EventsOf(p) \cap InDag
  <1>1. /\ fin[p].pc # "idle" /\ Goto(p, "gc") /\ KeptInCache(K, new)
        /\ cache' = [e \in Events |-> IF e \notin K THEN NoDepth
                                      ELSE IF e \in new THEN depth[e] ELSE cache[e]]
        /\ UNCHANGED <<dag, minDepth, stored, anchors, anchorStore, add, admitted,
                       redeliveries, abandoned>>
    BY DEF FillCache
  <1>2. fin' \in [Finalizers -> FinState] /\ AtWork'
    BY <1>1, GotoTypes
  <1>3. cache' \in [Events -> Depths]
    BY <1>1 DEF TInv, TypeOK, Depths
  <1>4. Cached' \subseteq K
    BY <1>1 DEF Cached
  <1>5. IsFiniteSet(K) /\ Cardinality(K) \in Nat
    BY EventsAssumption, FS_Subset, FS_CardinalityType
  <1>6. Cardinality(Cached') \in Nat /\ Cardinality(Cached') <= Cardinality(K)
    BY <1>4, <1>5, FS_Subset, FS_CardinalityType
  <1>7. Cardinality(Cached') <= CacheCapacity
    BY <1>1, <1>5, <1>6, LimitsAssumption DEF KeptInCache
  <1>8. InDag' = InDag
    BY <1>1 DEF InDag, dag
  <1>9. TypeOK'
    BY <1>1, <1>2, <1>3, <1>7, <1>8 DEF TInv, TypeOK, dag
  <1> QED
    BY <1>1, <1>2, <1>9 DEF TInv, Looking

\* Garbage collection keeps the invariant.
LEMMA GcStep ==
  ASSUME TInv, NEW p \in Finalizers, NEW R \in SUBSET InDag, Gc(p, R)
  PROVE  TInv'
  <1>1. /\ depth' = [e \in Events |-> IF e \in R THEN NoDepth ELSE depth[e]]
        /\ links' = {l \in links : l[1] \notin R /\ l[2] \notin R}
        /\ final' = final \ R /\ EndFinalizer(p)
        /\ UNCHANGED <<maxDepth, minDepth, cache, stored, anchors, anchorStore,
                       add, admitted, redeliveries, abandoned>>
    BY DEF Gc
  <1>2. fin' \in [Finalizers -> FinState] /\ AtWork'
    BY <1>1, EndTypes
  <1>3. depth' \in [Events -> Depths] /\ links' \subseteq Events \X Events
    BY <1>1 DEF TInv, TypeOK, Depths
  <1>4. InDag' = InDag \ R /\ Cached' = Cached
    BY <1>1 DEF InDag, Cached
  <1>5. final' \subseteq InDag'
    BY <1>1, <1>4 DEF TInv, TypeOK
  <1>6. TypeOK'
    BY <1>1, <1>2, <1>3, <1>4, <1>5 DEF TInv, TypeOK
  <1> QED
    BY <1>1, <1>2, <1>6 DEF TInv, Looking

-----------------------------------------------------------------------------
(* The catch-up task.                                                      *)

CatchUpActs == \E E \in SUBSET Pending, d \in 0 .. maxDepth : CatchUp(E, d)

\* It appends an anchor and marks its events; the DAG's events, the stores, the
\* adders and the finalizers are as before.
LEMMA CatchUpEffect ==
  ASSUME TInv, NEW E \in SUBSET Pending, NEW d \in 0 .. maxDepth, CatchUp(E, d)
  PROVE  /\ UNCHANGED <<depth, links, maxDepth, cache, stored, anchorStore, add, fin,
                        admitted, redeliveries>>
         /\ InDag' = InDag /\ Stored' = Stored /\ Cached' = Cached
         /\ final' = final \cup E /\ E \subseteq InDag /\ E # {}
         /\ Len(anchors) \in Nat /\ Len(anchors') = Len(anchors) + 1
         /\ anchors' = Append(anchors, anchors'[Len(anchors) + 1])
         /\ anchors'[Len(anchors) + 1].events = E
         /\ \A i \in 1 .. Len(anchors) : anchors'[i] = anchors[i]
         /\ anchors' \in Seq([events : SUBSET Events, depth : Nat])
         /\ \A q \in Finalizers : fin[q].pc # "idle" => EventsOf(q)' = EventsOf(q)
  <1> DEFINE x == [events |-> E, depth |-> d]
  <1>1. UNCHANGED <<depth, links, maxDepth, cache, stored, anchorStore, add, fin,
                    admitted, redeliveries>>
        /\ final' = final \cup E /\ E # {}
    BY DEF CatchUp
  <1>2. InDag' = InDag /\ Stored' = Stored /\ Cached' = Cached /\ E \subseteq InDag
    BY <1>1 DEF InDag, Stored, Cached, Pending
  <1>3. anchors \in Seq([events : SUBSET Events, depth : Nat])
        /\ x \in [events : SUBSET Events, depth : Nat] /\ x.events = E
    BY DEF TInv, TypeOK, Pending, InDag
  <1>4. anchors' = Append(anchors, x)
    BY DEF CatchUp
  <1> HIDE DEF x
  <1>5. /\ Len(anchors) \in Nat /\ Len(anchors') = Len(anchors) + 1
        /\ anchors'[Len(anchors) + 1] = x
        /\ \A i \in 1 .. Len(anchors) : anchors'[i] = anchors[i]
        /\ anchors' \in Seq([events : SUBSET Events, depth : Nat])
    BY <1>3, <1>4
  <1>6. \A q \in Finalizers : fin[q].pc # "idle" => EventsOf(q)' = EventsOf(q)
    BY <1>1, <1>5 DEF EventsOf, TInv, AtWork
  <1> QED
    BY <1>1, <1>2, <1>3, <1>4, <1>5, <1>6

\* It keeps the invariant.
LEMMA CatchUpStep ==
  ASSUME TInv, CatchUpActs
  PROVE  TInv'
  <1>1. PICK E \in SUBSET Pending, d \in 0 .. maxDepth : CatchUp(E, d)
    BY DEF CatchUpActs
  <1>2. /\ UNCHANGED <<depth, links, maxDepth, cache, stored, anchorStore, add, fin,
                       admitted, redeliveries>>
        /\ InDag' = InDag /\ Cached' = Cached
        /\ final' = final \cup E /\ E \subseteq InDag
        /\ Len(anchors) \in Nat /\ Len(anchors') = Len(anchors) + 1
        /\ anchors' \in Seq([events : SUBSET Events, depth : Nat])
    BY <1>1, CatchUpEffect
  <1>3. minDepth' \in Nat
    <2>1. minDepth \in Nat /\ d + 1 \in Nat /\ minDepth' = Larger(minDepth, d + 1)
      BY <1>1 DEF CatchUp, TInv, TypeOK
    <2> QED
      BY <2>1, LargerNat
  <1>4. abandoned' \in 0 .. MaxAbandoned /\ Len(anchors') <= MaxAnchors
    BY <1>1, <1>2, LimitsAssumption DEF CatchUp, TInv, TypeOK
  <1>5. anchorStore' \subseteq 1 .. Len(anchors')
    BY <1>2 DEF TInv, TypeOK
  <1>6. final' \subseteq InDag'
    BY <1>2 DEF TInv, TypeOK
  <1>7. TypeOK'
    BY <1>2, <1>3, <1>4, <1>5, <1>6 DEF TInv, TypeOK
  <1>8. Looking' /\ AtWork'
    BY <1>2 DEF TInv, Looking, AtWork
  <1> QED
    BY <1>4, <1>7, <1>8 DEF TInv

-----------------------------------------------------------------------------
(* Type correctness.                                                       *)

\* Every step keeps the invariant.
LEMMA NextTInv == TInv /\ [Next]_vars => TInv'
  <1> SUFFICES ASSUME TInv, [Next]_vars PROVE TInv'
    OBVIOUS
  <1>1. CASE UNCHANGED vars
    BY <1>1 DEF TInv, TypeOK, Looking, AtWork, InDag, Cached, vars, dag
  <1>2. ASSUME NEW a \in Adders,
               \/ \E e \in Events : Deliver(a, e)
               \/ LookInDag(a) \/ LookInCache(a) \/ LookInStore(a)
               \/ Resolve(a) \/ Write(a) \/ Retry(a)
        PROVE  TInv'
    BY <1>2, DeliverStep, LookupStep, ResolveStep, WriteStep, RetryStep
  <1>3. ASSUME NEW p \in Finalizers,
               \/ \E E \in SUBSET Pending, d \in 0 .. maxDepth : Finalize(p, E, d)
               \/ Mark(p) \/ Collect(p) \/ StoreEvents(p) \/ StoreAnchor(p)
               \/ Abandon(p) \/ FinalizeAgain(p)
               \/ \E K \in SUBSET Events : FillCache(p, K)
               \/ \E R \in SUBSET InDag : Gc(p, R)
        PROVE  TInv'
    BY <1>3, FinalizeStep, MarkStep, PersistStep, FillCacheStep, GcStep
  <1>4. CASE CatchUpActs
    BY <1>4, CatchUpStep
  <1> QED
    BY <1>1, <1>2, <1>3, <1>4 DEF Next, CatchUpActs

\* The invariant holds in every reachable state.
LEMMA TInvHolds == Spec => []TInv
  BY InitTInv, NextTInv, PTL DEF Spec

\* DAG, cache, store and tasks keep their types, the finalized events stay in
\* the DAG and the cache within its capacity, for every DAG and task set.
THEOREM TypeCorrect == Spec => []TypeOK
  <1>1. TInv => TypeOK
    BY DEF TInv
  <1> QED
    BY <1>1, TInvHolds, PTL

-----------------------------------------------------------------------------
(* Events before anchors.                                                  *)

\* What a finalizer has collected, or written, covers its anchor.
BatchCovers ==
    \A p \in Finalizers :
        /\ fin[p].pc = "events" => \A e \in EventsOf(p) : fin[p].batch[e] # NoDepth
        /\ fin[p].pc = "anchor" => EventsOf(p) \subseteq Stored
        /\ fin[p].pc \in {"finalize", "cache", "gc"} => fin[p].anchor \in anchorStore

\* An idle finalizer has no anchor.
IdleHasNone == \A p \in Finalizers : fin[p].pc = "idle" => fin[p].anchor = 0

AInv == AnchorComplete /\ BatchCovers /\ IdleHasNone

\* The initial state satisfies it.
LEMMA InitAInv == Init => AInv
  BY DEF Init, AInv, AnchorComplete, BatchCovers, IdleHasNone, IdleFinalizer

\* A step that leaves finalizers, anchors and stores alone satisfies it.
LEMMA QuietAInv ==
  ASSUME AInv, UNCHANGED <<stored, anchors, anchorStore, fin>>
  PROVE  AInv'
  BY DEF AInv, AnchorComplete, BatchCovers, IdleHasNone, EventsOf, Stored

\* A step of one finalizer that stores nothing and invents no anchor.
LEMMA MoveAInv ==
  ASSUME TInv, AInv, NEW p \in Finalizers, NEW r \in FinState,
         UNCHANGED <<stored, anchors, anchorStore>>, fin' = [fin EXCEPT ![p] = r],
         \/ r = IdleFinalizer
         \/ /\ r.anchor = fin[p].anchor
            /\ \/ r.pc = "collect"
               \/ r.pc = "events" /\ \A e \in EventsOf(p) : r.batch[e] # NoDepth
               \/ /\ r.pc \in {"finalize", "cache", "gc"}
                  /\ fin[p].pc \in {"finalize", "cache", "gc"}
  PROVE  AInv'
  <1>1. fin \in [Finalizers -> FinState]
    BY DEF TInv, TypeOK
  <1>2. \A q \in Finalizers : q # p => fin'[q] = fin[q]
    BY <1>1
  <1>3. fin'[p] = r
    BY <1>1
  <1>4. AnchorComplete'
    BY DEF AInv, AnchorComplete, Stored
  <1>5. BatchCovers'
    BY <1>2, <1>3 DEF AInv, BatchCovers, EventsOf, Stored, IdleFinalizer
  <1>6. IdleHasNone'
    BY <1>2, <1>3 DEF AInv, IdleHasNone, IdleFinalizer
  <1> QED
    BY <1>4, <1>5, <1>6 DEF AInv

\* The steps of the finalizer that store nothing.
LEMMA QuietFinalizerAInv ==
  ASSUME TInv, AInv, NEW p \in Finalizers,
         \/ Mark(p) \/ Collect(p) \/ Abandon(p) \/ FinalizeAgain(p)
         \/ (\E K \in SUBSET Events : FillCache(p, K))
         \/ (\E R \in SUBSET InDag : Gc(p, R))
  PROVE  AInv'
  <1>1. fin \in [Finalizers -> FinState] /\ fin[p] \in FinState
    BY DEF TInv, TypeOK
  <1>2. UNCHANGED <<stored, anchors, anchorStore>>
    BY DEF Mark, Collect, Abandon, FinalizeAgain, FillCache, Gc
  <1>3. CASE EndFinalizer(p)
    BY <1>2, <1>3, IdleTypes, MoveAInv DEF EndFinalizer
  <1>4. CASE Goto(p, "collect")
    <2>1. [fin[p] EXCEPT !.pc = "collect"] \in FinState
      BY <1>1 DEF FinState
    <2>2. fin' = [fin EXCEPT ![p] = [fin[p] EXCEPT !.pc = "collect"]]
      BY <1>4 DEF Goto
    <2> QED
      BY <1>1, <1>2, <2>1, <2>2, MoveAInv DEF FinState
  <1>5. ASSUME NEW next \in {"cache", "gc"}, Goto(p, next),
               fin[p].pc \in {"finalize", "cache"}
        PROVE  AInv'
    <2>1. [fin[p] EXCEPT !.pc = next] \in FinState
      BY <1>1 DEF FinState
    <2>2. fin' = [fin EXCEPT ![p] = [fin[p] EXCEPT !.pc = next]]
      BY <1>5 DEF Goto
    <2> QED
      BY <1>1, <1>2, <1>5, <2>1, <2>2, MoveAInv DEF FinState
  <1>6. CASE /\ EventsOf(p) \subseteq InDag
             /\ fin' = [fin EXCEPT ![p].pc = "events",
                          ![p].batch = [e \in Events |-> IF e \in EventsOf(p)
                                           THEN depth[e] ELSE NoDepth]]
    <2> DEFINE b == [e \in Events |-> IF e \in EventsOf(p) THEN depth[e] ELSE NoDepth]
               r == [fin[p] EXCEPT !.pc = "events", !.batch = b]
    <2>1. b \in [Events -> Depths]
      BY DEF TInv, TypeOK, Depths
    <2>2. r \in FinState /\ r.pc = "events" /\ r.anchor = fin[p].anchor /\ r.batch = b
      BY <1>1, <2>1 DEF FinState
    <2>3. \A e \in EventsOf(p) : b[e] # NoDepth
      BY <1>6 DEF InDag
    <2>4. fin' = [fin EXCEPT ![p] = r]
      BY <1>1, <1>6 DEF FinState
    <2> HIDE DEF r, b
    <2> QED
      BY <1>2, <2>2, <2>3, <2>4, MoveAInv
  <1> QED
    BY <1>3, <1>4, <1>5, <1>6 DEF Mark, Collect, Abandon, FinalizeAgain, FillCache, Gc

\* Finalizing appends an anchor that nothing has stored yet.
LEMMA FinalizeAInv ==
  ASSUME TInv, AInv, NEW p \in Finalizers, NEW E \in SUBSET Pending,
         NEW d \in 0 .. maxDepth, Finalize(p, E, d)
  PROVE  AInv'
  <1> DEFINE r == [IdleFinalizer EXCEPT !.pc = "mark", !.anchor = Len(anchors) + 1]
             anchor == [events |-> E, depth |-> d]
  <1>1. /\ UNCHANGED <<stored, anchorStore>> /\ fin' = [fin EXCEPT ![p] = r]
        /\ anchors' = Append(anchors, anchor)
    BY DEF Finalize
  <1>2. anchors \in Seq([events : SUBSET Events, depth : Nat])
        /\ fin \in [Finalizers -> FinState] /\ anchorStore \subseteq 1 .. Len(anchors)
    BY DEF TInv, TypeOK
  <1>3. \A i \in 1 .. Len(anchors) : anchors'[i] = anchors[i]
    BY <1>1, <1>2
  <1>4. AnchorComplete'
    BY <1>1, <1>2, <1>3 DEF AInv, AnchorComplete, Stored
  <1>5. r.pc = "mark"
    BY DEF IdleFinalizer
  <1>6. \A q \in Finalizers : q # p /\ fin[q].pc # "idle" =>
            fin'[q] = fin[q] /\ EventsOf(q)' = EventsOf(q)
    BY <1>1, <1>2, <1>3 DEF TInv, AtWork, EventsOf
  <1>7. fin'[p] = r /\ \A q \in Finalizers : q # p => fin'[q] = fin[q]
    BY <1>1, <1>2
  <1>8. BatchCovers'
    <2>1. Stored' = Stored /\ fin'[p].pc = "mark"
      BY <1>1, <1>5, <1>7 DEF Stored
    <2>2. \A q \in Finalizers : q # p =>
             /\ fin'[q].pc = "events" => \A e \in EventsOf(q)' : fin'[q].batch[e] # NoDepth
             /\ fin'[q].pc = "anchor" => EventsOf(q)' \subseteq Stored'
             /\ fin'[q].pc \in {"finalize", "cache", "gc"} => fin'[q].anchor \in anchorStore'
      <3> HIDE DEF r, anchor
      <3> QED
        BY <1>1, <1>6, <1>7, <2>1 DEF AInv, BatchCovers
    <2> QED
      BY <2>1, <2>2 DEF BatchCovers
  <1>9. IdleHasNone'
    BY <1>5, <1>7 DEF AInv, IdleHasNone
  <1> QED
    BY <1>4, <1>8, <1>9 DEF AInv

\* Storing the events never takes one out of the store.
LEMMA StoreEventsAInv ==
  ASSUME TInv, AInv, NEW p \in Finalizers, StoreEvents(p)
  PROVE  AInv' /\ Stored \subseteq Stored'
  <1>1. fin \in [Finalizers -> FinState] /\ fin[p] \in FinState
        /\ stored \in [Events -> Depths]
    BY DEF TInv, TypeOK
  <1>2. /\ fin[p].pc = "events" /\ UNCHANGED <<anchors, anchorStore>>
        /\ stored' = [e \in Events |-> IF fin[p].batch[e] # NoDepth
                                       THEN fin[p].batch[e] ELSE stored[e]]
        /\ fin' = [fin EXCEPT ![p].pc = "anchor", ![p].batch = NoBatch]
    BY DEF StoreEvents
  <1>3. Stored \subseteq Stored'
    BY <1>2 DEF Stored
  <1>4. EventsOf(p) \subseteq Stored'
    <2>1. EventsOf(p) \subseteq Events
      BY <1>2, AnchorTypes
    <2> QED
      BY <1>2, <2>1 DEF AInv, BatchCovers, Stored
  <1>5. fin'[p].pc = "anchor" /\ fin'[p].anchor = fin[p].anchor
        /\ \A q \in Finalizers : q # p => fin'[q] = fin[q]
    BY <1>1, <1>2 DEF FinState
  <1>6. AnchorComplete'
    BY <1>2, <1>3 DEF AInv, AnchorComplete
  <1>7. BatchCovers'
    <2>1. \A q \in Finalizers : EventsOf(q)' = EventsOf(q)
      BY <1>2, <1>5 DEF EventsOf
    <2>2. \A q \in Finalizers : q # p =>
             /\ fin'[q].pc = "events" => \A e \in EventsOf(q)' : fin'[q].batch[e] # NoDepth
             /\ fin'[q].pc = "anchor" => EventsOf(q)' \subseteq Stored'
             /\ fin'[q].pc \in {"finalize", "cache", "gc"} => fin'[q].anchor \in anchorStore'
      <3>1. anchorStore' = anchorStore
        BY <1>2
      <3> SUFFICES ASSUME NEW q \in Finalizers, q # p
                   PROVE  /\ fin'[q].pc = "events" =>
                                \A e \in EventsOf(q)' : fin'[q].batch[e] # NoDepth
                          /\ fin'[q].pc = "anchor" => EventsOf(q)' \subseteq Stored'
                          /\ fin'[q].pc \in {"finalize", "cache", "gc"} =>
                                fin'[q].anchor \in anchorStore'
        OBVIOUS
      <3>2. fin'[q] = fin[q] /\ EventsOf(q)' = EventsOf(q)
        BY <1>5, <2>1
      <3>3. /\ fin[q].pc = "events" => \A e \in EventsOf(q) : fin[q].batch[e] # NoDepth
            /\ fin[q].pc = "anchor" => EventsOf(q) \subseteq Stored
            /\ fin[q].pc \in {"finalize", "cache", "gc"} => fin[q].anchor \in anchorStore
        BY DEF AInv, BatchCovers
      <3> QED
        BY <1>3, <3>1, <3>2, <3>3
    <2> QED
      BY <1>4, <1>5, <2>1, <2>2 DEF BatchCovers
  <1>8. IdleHasNone'
    BY <1>5 DEF AInv, IdleHasNone
  <1> QED
    BY <1>3, <1>6, <1>7, <1>8 DEF AInv

\* Storing the anchor happens only once its events are stored.
LEMMA StoreAnchorAInv ==
  ASSUME TInv, AInv, NEW p \in Finalizers, StoreAnchor(p)
  PROVE  AInv'
  <1>1. fin \in [Finalizers -> FinState] /\ fin[p] \in FinState
    BY DEF TInv, TypeOK
  <1>2. /\ fin[p].pc = "anchor" /\ UNCHANGED <<anchors, stored>>
        /\ anchorStore' = anchorStore \cup {fin[p].anchor}
        /\ fin' = [fin EXCEPT ![p].pc = "finalize"]
    BY DEF StoreAnchor, Goto
  <1>3. fin'[p].pc = "finalize" /\ fin'[p].anchor = fin[p].anchor
        /\ \A q \in Finalizers : q # p => fin'[q] = fin[q]
    BY <1>1, <1>2 DEF FinState
  <1>4. EventsOf(p) \subseteq Stored
    BY <1>2 DEF AInv, BatchCovers
  <1>5. AnchorComplete'
    BY <1>2, <1>4 DEF AInv, AnchorComplete, EventsOf, Stored
  <1>6. BatchCovers'
    BY <1>2, <1>3 DEF AInv, BatchCovers, EventsOf, Stored
  <1>7. IdleHasNone'
    BY <1>3 DEF AInv, IdleHasNone
  <1> QED
    BY <1>5, <1>6, <1>7 DEF AInv

\* An anchor that the catch-up task makes is not stored.
LEMMA CatchUpAInv ==
  ASSUME TInv, AInv, CatchUpActs
  PROVE  AInv'
  <1>1. PICK E \in SUBSET Pending, d \in 0 .. maxDepth : CatchUp(E, d)
    BY DEF CatchUpActs
  <1>2. /\ UNCHANGED <<stored, anchorStore, fin>> /\ Stored' = Stored
        /\ \A i \in 1 .. Len(anchors) : anchors'[i] = anchors[i]
        /\ \A q \in Finalizers : fin[q].pc # "idle" => EventsOf(q)' = EventsOf(q)
    BY <1>1, CatchUpEffect
  <1>3. AnchorComplete'
    BY <1>2 DEF TInv, TypeOK, AInv, AnchorComplete
  <1>4. BatchCovers' /\ IdleHasNone'
    BY <1>2 DEF AInv, BatchCovers, IdleHasNone
  <1> QED
    BY <1>3, <1>4 DEF AInv

\* Every step keeps it.
LEMMA NextAInv == TInv /\ AInv /\ [Next]_vars => AInv'
  <1> SUFFICES ASSUME TInv, AInv, [Next]_vars PROVE AInv'
    OBVIOUS
  <1>1. CASE UNCHANGED vars
    BY <1>1, QuietAInv DEF vars
  <1>2. ASSUME NEW a \in Adders,
               \/ \E e \in Events : Deliver(a, e)
               \/ LookInDag(a) \/ LookInCache(a) \/ LookInStore(a)
               \/ Resolve(a) \/ Write(a) \/ Retry(a)
        PROVE  AInv'
    <2>1. UNCHANGED <<stored, anchors, anchorStore, fin>>
      BY <1>2 DEF Deliver, LookInDag, LookInCache, LookInStore, Resolve, Write, Retry
    <2> QED
      BY <2>1, QuietAInv
  <1>3. ASSUME NEW p \in Finalizers,
               \/ \E E \in SUBSET Pending, d \in 0 .. maxDepth : Finalize(p, E, d)
               \/ StoreEvents(p) \/ StoreAnchor(p)
        PROVE  AInv'
    BY <1>3, FinalizeAInv, StoreEventsAInv, StoreAnchorAInv
  <1>4. CASE CatchUpActs
    BY <1>4, CatchUpAInv
  <1> QED
    BY <1>1, <1>2, <1>3, <1>4, QuietFinalizerAInv DEF Next, CatchUpActs

\* In every reachable state.
LEMMA AInvHolds == Spec => [](TInv /\ AInv)
  BY InitTInv, NextTInv, InitAInv, NextAInv, PTL DEF Spec

\* Crash consistency of persist_finalized_anchor: a stored anchor has all its
\* events in the event store, for any number of concurrent persisters,
\* failures, redeliveries and every GC order.
THEOREM AnchorsAreComplete == Spec => []AnchorComplete
  <1>1. AInv => AnchorComplete
    BY DEF AInv
  <1> QED
    BY <1>1, AInvHolds, PTL

-----------------------------------------------------------------------------
(* No event is lost, when one task persists at a time.                     *)

\* The router loop is the only task of a networked validator that persists;
\* the catch-up task finalizes beside it and stores nothing.
OneFinalizer == \A p, q \in Finalizers : p = q

\* A finalized event of the DAG is stored, given up, or in the anchor that is
\* being persisted.
FinalCovered ==
    \A p \in Finalizers : \A e \in final :
        \/ e \in Stored \cup Abandoned
        \/ fin[p].pc # "idle" /\ e \in EventsOf(p)

LInv == NoEventLost /\ FinalCovered

\* Nothing leaves the store, what was given up stays given up, and an event
\* leaves the DAG for one of the two.
Grows ==
    /\ Stored \subseteq Stored' /\ Abandoned \subseteq Abandoned'
    /\ InDag \subseteq InDag' \cup Stored' \cup Abandoned'

\* The anchors that nothing will persist any more.
GivenUp == (1 .. Len(anchors)) \ (anchorStore \cup {fin[p].anchor : p \in Finalizers})

\* A step that neither invents anchors nor picks up one that was given up
\* only adds to the events given up.
LEMMA AbandonedGrows ==
  ASSUME UNCHANGED anchors, GivenUp \subseteq GivenUp'
  PROVE  Abandoned \subseteq Abandoned'
  BY DEF Abandoned, GivenUp

\* When a finalizer ends, its anchor is stored or given up.
LEMMA EndCovers ==
  ASSUME TInv, AInv, OneFinalizer, NEW p \in Finalizers, fin[p].pc # "idle",
         EndFinalizer(p), UNCHANGED <<anchors, anchorStore, stored>>
  PROVE  /\ Abandoned \subseteq Abandoned'
         /\ EventsOf(p) \subseteq Stored' \cup Abandoned'
  <1>1. fin \in [Finalizers -> FinState] /\ anchorStore \subseteq 1 .. Len(anchors)
        /\ fin[p].anchor \in 1 .. Len(anchors)
    BY DEF TInv, TypeOK, AtWork
  <1>2. \A q \in Finalizers : fin'[q].anchor = 0
    BY <1>1 DEF EndFinalizer, IdleFinalizer, OneFinalizer
  <1>3. GivenUp' = (1 .. Len(anchors)) \ anchorStore
    <2>1. \A q \in Finalizers : fin'[q].anchor \notin 1 .. Len(anchors)
      BY <1>2
    <2> QED
      BY <2>1 DEF GivenUp
  <1>4. GivenUp \subseteq GivenUp'
    BY <1>3 DEF GivenUp
  <1>5. Abandoned \subseteq Abandoned'
    BY <1>4, AbandonedGrows
  <1>6. EventsOf(p) \subseteq Stored' \cup Abandoned'
    <2>1. CASE fin[p].anchor \in anchorStore
      BY <2>1 DEF AInv, AnchorComplete, EventsOf, Stored
    <2>2. CASE fin[p].anchor \notin anchorStore
      <3>1. fin[p].anchor \in GivenUp'
        BY <1>1, <1>3, <2>2
      <3> QED
        BY <3>1 DEF Abandoned, GivenUp, EventsOf
    <2> QED
      BY <2>1, <2>2
  <1> QED
    BY <1>5, <1>6

\* A removed event is an event of the anchor or was Finalized before: only
\* such events can be reached by the cascade, which is the smallest one.
LEMMA CascadeRemovesFinal ==
  ASSUME NEW T, NEW R \in SUBSET InDag, Cascades(R, T),
         \A S \in SUBSET R : Cascades(S, T) => S = R
  PROVE  R \subseteq T \cup final
  <1> DEFINE S == R \cap (T \cup final)
  <1>1. S \in SUBSET R
    OBVIOUS
  <1>2. {e \in T \cap InDag : ~HasActiveChildren(e)} \subseteq S
    BY DEF Cascades
  <1>3. \A e \in S : \A q \in Parents(e) \cap final : ~HasActiveChildren(q) => q \in S
    BY DEF Cascades
  <1>4. Cascades(S, T)
    BY <1>2, <1>3 DEF Cascades
  <1>5. S = R
    BY <1>1, <1>4
  <1> QED
    BY <1>5

\* Initially nothing was admitted.
LEMMA InitLInv == Init => LInv
  BY DEF Init, LInv, NoEventLost, FinalCovered

\* What every step does to the sets of LInv, put together.
LEMMA LossRule ==
  ASSUME LInv, Stored \subseteq Stored', Abandoned \subseteq Abandoned',
         admitted' \subseteq admitted \cup InDag',
         InDag \subseteq InDag' \cup Stored' \cup Abandoned'
  PROVE  NoEventLost'
  BY DEF LInv, NoEventLost

\* An adder only adds events to the DAG.
LEMMA AdderLInv ==
  ASSUME TInv, LInv, NEW a \in Adders,
         \/ \E e \in Events : Deliver(a, e)
         \/ LookInDag(a) \/ LookInCache(a) \/ LookInStore(a)
         \/ Resolve(a) \/ Write(a) \/ Retry(a)
  PROVE  LInv' /\ Grows
  <1>1. UNCHANGED <<final, stored, anchors, anchorStore, fin>>
    BY DEF Deliver, LookInDag, LookInCache, LookInStore, Resolve, Write, Retry, dag
  <1>2. Stored' = Stored /\ Abandoned' = Abandoned
    BY <1>1 DEF Stored, Abandoned
  <1>3. FinalCovered'
    BY <1>1, <1>2 DEF LInv, FinalCovered, EventsOf
  <1>4. CASE UNCHANGED <<depth, admitted>>
    <2>1. InDag' = InDag
      BY <1>4 DEF InDag
    <2> QED
      BY <1>2, <1>3, <1>4, <2>1, LossRule DEF LInv, Grows
  <1>5. CASE Write(a) /\ add[a].ev \notin InDag
    <2> DEFINE e == add[a].ev
    <2>1. /\ depth \in [Events -> Depths] /\ add[a] \in AddState
      BY DEF TInv, TypeOK
    <2>2. e \in Events /\ add[a].depth # NoDepth
      BY <2>1 DEF AddState, NoDepth
    <2>3. depth' = [depth EXCEPT ![e] = add[a].depth] /\ admitted' = admitted \cup {e}
      BY <1>5 DEF Write
    <2>4. InDag \subseteq InDag' /\ e \in InDag'
      BY <2>1, <2>2, <2>3 DEF InDag
    <2> QED
      BY <1>2, <1>3, <2>3, <2>4, LossRule DEF LInv, Grows
  <1>6. \/ UNCHANGED <<depth, admitted>>
        \/ Write(a) /\ add[a].ev \notin InDag
    BY DEF Deliver, LookInDag, LookInCache, LookInStore, Resolve, Write, Retry, dag
  <1> QED
    BY <1>4, <1>5, <1>6

\* A new anchor is being persisted from its first moment.
LEMMA FinalizeLInv ==
  ASSUME TInv, AInv, LInv, OneFinalizer, NEW p \in Finalizers,
         NEW E \in SUBSET Pending, NEW d \in 0 .. maxDepth, Finalize(p, E, d)
  PROVE  LInv' /\ Grows
  <1> DEFINE anchor == [events |-> E, depth |-> d]
  <1>1. /\ UNCHANGED <<depth, final, stored, anchorStore, admitted>>
        /\ fin[p].pc = "idle" /\ anchors' = Append(anchors, anchor)
        /\ fin' = [fin EXCEPT ![p] = [IdleFinalizer EXCEPT !.pc = "mark",
                                                           !.anchor = Len(anchors) + 1]]
    BY DEF Finalize, dag
  <1>2. fin \in [Finalizers -> FinState] /\ fin[p].anchor = 0
        /\ anchors \in Seq([events : SUBSET Events, depth : Nat])
    BY <1>1 DEF TInv, TypeOK, AInv, IdleHasNone
  <1>3. Len(anchors') = Len(anchors) + 1 /\ \A i \in 1 .. Len(anchors) : anchors'[i] = anchors[i]
    BY <1>1, <1>2
  <1>4. \A q \in Finalizers : fin'[q].anchor = Len(anchors) + 1
    BY <1>1, <1>2 DEF IdleFinalizer, OneFinalizer
  <1>5. GivenUp \subseteq GivenUp'
    BY <1>1, <1>2, <1>3, <1>4 DEF GivenUp
  <1>6. Abandoned \subseteq Abandoned'
    BY <1>3, <1>5 DEF Abandoned, GivenUp
  <1>7. Stored' = Stored /\ InDag' = InDag
    BY <1>1 DEF Stored, InDag
  <1>8. NoEventLost'
    BY <1>1, <1>6, <1>7, LossRule
  <1>9. FinalCovered'
    BY <1>1, <1>6, <1>7 DEF LInv, FinalCovered, OneFinalizer
  <1> QED
    BY <1>6, <1>7, <1>8, <1>9 DEF LInv, Grows

\* The steps of a finalizer that goes on with its anchor.
LEMMA GoOnLInv ==
  ASSUME TInv, AInv, LInv, OneFinalizer, NEW p \in Finalizers,
         fin[p].pc # "idle", UNCHANGED <<depth, anchors, admitted>>,
         NEW r \in FinState, fin' = [fin EXCEPT ![p] = r],
         r.anchor = fin[p].anchor, r.pc # "idle",
         anchorStore' \in {anchorStore, anchorStore \cup {fin[p].anchor}},
         Stored \subseteq Stored', final' \subseteq final \cup EventsOf(p)
  PROVE  LInv' /\ Grows
  <1>1. fin \in [Finalizers -> FinState]
    BY DEF TInv, TypeOK
  <1>2. \A q \in Finalizers : fin'[q] = r /\ fin'[q].anchor = fin[q].anchor
    BY <1>1 DEF OneFinalizer
  <1>3. GivenUp \subseteq GivenUp'
    BY <1>2 DEF GivenUp
  <1>4. Abandoned \subseteq Abandoned' /\ EventsOf(p)' = EventsOf(p)
    BY <1>2, <1>3, AbandonedGrows DEF EventsOf
  <1>5. NoEventLost'
    BY <1>4, LossRule DEF InDag
  <1>6. FinalCovered'
    BY <1>2, <1>4 DEF LInv, FinalCovered, OneFinalizer
  <1> QED
    BY <1>4, <1>5, <1>6 DEF LInv, Grows, InDag

\* The steps that end the work on an anchor without removing events.
LEMMA EndLInv ==
  ASSUME TInv, AInv, LInv, OneFinalizer, NEW p \in Finalizers,
         fin[p].pc # "idle", EndFinalizer(p),
         UNCHANGED <<depth, final, stored, anchors, anchorStore, admitted>>
  PROVE  LInv' /\ Grows
  <1>1. /\ Abandoned \subseteq Abandoned'
        /\ EventsOf(p) \subseteq Stored' \cup Abandoned'
    BY EndCovers
  <1>2. Stored' = Stored /\ InDag' = InDag
    BY DEF Stored, InDag
  <1>3. NoEventLost'
    BY <1>1, <1>2, LossRule
  <1>4. FinalCovered'
    BY <1>1, <1>2 DEF LInv, FinalCovered, OneFinalizer
  <1> QED
    BY <1>1, <1>2, <1>3, <1>4 DEF LInv, Grows

\* GC removes stored and given-up events only.
LEMMA GcLInv ==
  ASSUME TInv, AInv, LInv, OneFinalizer, NEW p \in Finalizers,
         NEW R \in SUBSET InDag, Gc(p, R)
  PROVE  LInv' /\ Grows
  <1>1. /\ fin[p].pc = "gc" /\ EndFinalizer(p) /\ final' = final \ R
        /\ depth' = [e \in Events |-> IF e \in R THEN NoDepth ELSE depth[e]]
        /\ UNCHANGED <<stored, anchors, anchorStore, admitted>>
    BY DEF Gc
  <1>2. /\ Abandoned \subseteq Abandoned'
        /\ EventsOf(p) \subseteq Stored' \cup Abandoned'
    BY <1>1, EndCovers
  <1>3. Stored' = Stored
    BY <1>1 DEF Stored
  <1>4. R \subseteq EventsOf(p) \cup final
    BY CascadeRemovesFinal DEF Gc
  <1>5. final \subseteq Stored' \cup Abandoned'
    BY <1>2, <1>3 DEF LInv, FinalCovered
  <1>6. InDag \subseteq InDag' \cup R
    BY <1>1 DEF InDag
  <1>7. NoEventLost'
    BY <1>1, <1>2, <1>3, <1>4, <1>5, <1>6, LossRule
  <1>8. FinalCovered'
    BY <1>1, <1>5 DEF FinalCovered
  <1> QED
    BY <1>2, <1>3, <1>4, <1>5, <1>6, <1>7, <1>8 DEF LInv, Grows

\* Every step of a finalizer.
LEMMA FinalizerLInv ==
  ASSUME TInv, AInv, LInv, OneFinalizer, NEW p \in Finalizers,
         \/ \E E \in SUBSET Pending, d \in 0 .. maxDepth : Finalize(p, E, d)
         \/ Mark(p) \/ Collect(p) \/ StoreEvents(p) \/ StoreAnchor(p)
         \/ Abandon(p) \/ FinalizeAgain(p)
         \/ \E K \in SUBSET Events : FillCache(p, K)
         \/ \E R \in SUBSET InDag : Gc(p, R)
  PROVE  LInv' /\ Grows
  <1>1. fin[p] \in FinState /\ fin \in [Finalizers -> FinState]
    BY DEF TInv, TypeOK
  <1>2. ASSUME NEW next \in {"collect", "finalize", "cache", "gc"},
               fin[p].pc # "idle", Goto(p, next),
               UNCHANGED <<depth, anchors, admitted, stored>>,
               anchorStore' \in {anchorStore, anchorStore \cup {fin[p].anchor}},
               final' \subseteq final \cup EventsOf(p)
        PROVE  LInv' /\ Grows
    <2> DEFINE r == [fin[p] EXCEPT !.pc = next]
    <2>1. r \in FinState /\ r.anchor = fin[p].anchor /\ r.pc # "idle"
      BY <1>1, <1>2 DEF FinState
    <2>2. fin' = [fin EXCEPT ![p] = r]
      BY <1>1, <1>2 DEF Goto
    <2>3. Stored \subseteq Stored'
      BY <1>2 DEF Stored
    <2> HIDE DEF r
    <2> QED
      BY <1>2, <2>1, <2>2, <2>3, GoOnLInv
  <1>3. CASE Mark(p)
    BY <1>2, <1>3 DEF Mark
  <1>4. CASE StoreAnchor(p)
    BY <1>2, <1>4 DEF StoreAnchor, dag
  <1>5. CASE FinalizeAgain(p)
    BY <1>2, <1>5 DEF FinalizeAgain
  <1>6. ASSUME NEW K \in SUBSET Events, FillCache(p, K)
        PROVE  LInv' /\ Grows
    BY <1>2, <1>6 DEF FillCache, dag
  <1>7. CASE Collect(p) /\ ~EndFinalizer(p)
    <2> DEFINE B == [e \in Events |-> IF e \in EventsOf(p) THEN depth[e] ELSE NoDepth]
               r == [fin[p] EXCEPT !.pc = "events", !.batch = B]
    <2>1. B \in [Events -> Depths]
      BY DEF TInv, TypeOK, Depths
    <2>2. /\ fin[p].pc = "collect" /\ fin' = [fin EXCEPT ![p] = r]
          /\ UNCHANGED <<depth, final, anchors, admitted, stored, anchorStore>>
      BY <1>1, <1>7 DEF Collect, dag
    <2> HIDE DEF B
    <2>3. r \in FinState /\ r.anchor = fin[p].anchor /\ r.pc # "idle"
      BY <1>1, <2>1 DEF FinState
    <2>4. Stored \subseteq Stored'
      BY <2>2 DEF Stored
    <2> HIDE DEF r
    <2> QED
      BY <2>2, <2>3, <2>4, GoOnLInv
  <1>8. CASE StoreEvents(p)
    <2> DEFINE r == [fin[p] EXCEPT !.pc = "anchor", !.batch = NoBatch]
    <2>1. /\ fin[p].pc = "events" /\ fin' = [fin EXCEPT ![p] = r]
          /\ UNCHANGED <<depth, final, anchors, admitted, anchorStore>>
      BY <1>1, <1>8 DEF StoreEvents, dag
    <2>2. NoBatch \in [Events -> Depths]
      BY DEF NoBatch, Depths
    <2>3. r \in FinState /\ r.anchor = fin[p].anchor /\ r.pc # "idle"
      BY <1>1, <2>2 DEF FinState
    <2>4. Stored \subseteq Stored'
      BY <1>8, StoreEventsAInv
    <2> HIDE DEF r
    <2> QED
      BY <2>1, <2>3, <2>4, GoOnLInv
  <1>9. CASE (Collect(p) /\ EndFinalizer(p)) \/ Abandon(p)
    <2>1. fin[p].pc # "idle" /\ EndFinalizer(p)
          /\ UNCHANGED <<depth, final, stored, anchors, anchorStore, admitted>>
      BY <1>9 DEF Collect, Abandon, dag
    <2> QED
      BY <2>1, EndLInv
  <1>10. ASSUME NEW E \in SUBSET Pending, NEW d \in 0 .. maxDepth, Finalize(p, E, d)
         PROVE  LInv' /\ Grows
    BY <1>10, FinalizeLInv
  <1>11. ASSUME NEW R \in SUBSET InDag, Gc(p, R)
         PROVE  LInv' /\ Grows
    BY <1>11, GcLInv
  <1> QED
    BY <1>3, <1>4, <1>5, <1>6, <1>7, <1>8, <1>9, <1>10, <1>11

\* The anchor of a catch-up is given up as soon as it is made.
LEMMA CatchUpGivesUp ==
  ASSUME TInv, AInv, NEW E \in SUBSET Pending, NEW d \in 0 .. maxDepth, CatchUp(E, d)
  PROVE  Abandoned' = Abandoned \cup E
  <1> DEFINE N == Len(anchors)
  <1>1. /\ UNCHANGED <<anchorStore, fin>> /\ N \in Nat /\ Len(anchors') = N + 1
        /\ anchors'[N + 1].events = E /\ \A i \in 1 .. N : anchors'[i] = anchors[i]
    BY CatchUpEffect
  <1>2. N + 1 \notin anchorStore
    BY <1>1 DEF TInv, TypeOK
  <1>3. \A q \in Finalizers : fin[q].anchor # N + 1
    BY <1>1 DEF TInv, AtWork, AInv, IdleHasNone
  <1>4. 1 .. N + 1 = (1 .. N) \cup {N + 1}
    BY <1>1
  <1>5. GivenUp' = GivenUp \cup {N + 1} /\ GivenUp \subseteq 1 .. N
    BY <1>1, <1>2, <1>3, <1>4 DEF GivenUp
  <1>6. Abandoned = UNION {anchors[i].events : i \in GivenUp}
    BY DEF Abandoned, GivenUp
  <1>7. Abandoned' = UNION {anchors'[i].events : i \in GivenUp'}
    BY DEF Abandoned, GivenUp
  <1> HIDE DEF N
  <1> QED
    BY <1>1, <1>5, <1>6, <1>7

\* A catch-up loses nothing.
LEMMA CatchUpLInv ==
  ASSUME TInv, AInv, LInv, CatchUpActs
  PROVE  LInv' /\ Grows
  <1>1. PICK E \in SUBSET Pending, d \in 0 .. maxDepth : CatchUp(E, d)
    BY DEF CatchUpActs
  <1>2. /\ UNCHANGED <<fin, admitted>> /\ InDag' = InDag /\ Stored' = Stored
        /\ final' = final \cup E
        /\ \A q \in Finalizers : fin[q].pc # "idle" => EventsOf(q)' = EventsOf(q)
    BY <1>1, CatchUpEffect
  <1>3. Abandoned' = Abandoned \cup E
    BY <1>1, CatchUpGivesUp
  <1>4. NoEventLost'
    BY <1>2, <1>3, LossRule
  <1>5. FinalCovered'
    BY <1>2, <1>3 DEF LInv, FinalCovered
  <1> QED
    BY <1>2, <1>3, <1>4, <1>5 DEF LInv, Grows

\* Every step keeps it.
LEMMA NextLInv ==
  ASSUME OneFinalizer
  PROVE  TInv /\ AInv /\ LInv /\ [Next]_vars => LInv' /\ Grows
  <1> SUFFICES ASSUME TInv, AInv, LInv, [Next]_vars PROVE LInv' /\ Grows
    OBVIOUS
  <1>1. CASE UNCHANGED vars
    BY <1>1 DEF vars, dag, LInv, NoEventLost, FinalCovered, InDag, Stored, Abandoned,
                EventsOf, Grows
  <1>2. ASSUME NEW a \in Adders,
               \/ \E e \in Events : Deliver(a, e)
               \/ LookInDag(a) \/ LookInCache(a) \/ LookInStore(a)
               \/ Resolve(a) \/ Write(a) \/ Retry(a)
        PROVE  LInv' /\ Grows
    BY <1>2, AdderLInv
  <1>3. CASE CatchUpActs
    BY <1>3, CatchUpLInv
  <1> QED
    BY <1>1, <1>2, <1>3, FinalizerLInv DEF Next, CatchUpActs

\* GC never loses an event: when one task at a time persists anchors, as the
\* router loop of a networked validator does, an admitted event is in the
\* active DAG or in the event store, unless the persistence of its anchor was
\* given up.  For any number of concurrent adders, any DAG and every cascade;
\* MC_SingleNode.cfg shows that the assumption is needed.
THEOREM NothingLost ==
  ASSUME OneFinalizer
  PROVE  Spec => []NoEventLost
  <1>1. LInv => NoEventLost
    BY DEF LInv
  <1>2. Init => LInv
    BY InitLInv
  <1>3. TInv /\ AInv /\ LInv /\ [Next]_vars => LInv'
    BY NextLInv
  <1> QED
    BY <1>1, <1>2, <1>3, AInvHolds, PTL DEF Spec

-----------------------------------------------------------------------------
(* What one step does to the adder that takes it.                          *)

\* The steps of adder a.
AdderActs(a) ==
    \/ \E e \in Events : Deliver(a, e)
    \/ LookInDag(a) \/ LookInCache(a) \/ LookInStore(a)
    \/ Resolve(a) \/ Write(a) \/ Retry(a)

\* r is adder a at the start of a first attempt for event e.
Began(a, r, e) ==
    /\ Deliver(a, e)
    /\ r.pc \in {"dag", "resolve"} /\ r.ev = e /\ r.found = <<>> /\ r.tries = 0
    /\ r.known = admitted

\* r is adder a after a layer that does not have the parent.
Passed(a, r) ==
    /\ r.found = add[a].found /\ r.tries = add[a].tries
    /\ \/ add[a].pc = "dag" /\ Wanted(a) \notin InDag /\ r.pc = "cache"
       \/ add[a].pc = "cache" /\ r.pc = "store"

\* r is adder a after a layer that has the parent.
Hit(a, r) ==
    /\ add[a].pc \in {"dag", "cache", "store"}
    /\ r.pc \in {"dag", "resolve"} /\ r.tries = add[a].tries
    /\ \E layer \in {"dag", "cache", "store"}, d \in Nat :
        /\ r.found = Append(add[a].found, [layer |-> layer, depth |-> d])
        /\ layer = "dag" => Wanted(a) \in InDag

\* r is adder a with a depth.
Resolved(a, r) ==
    add[a].pc = "resolve" /\ r.pc = "write" /\ r.found = add[a].found
        /\ r.tries = add[a].tries

\* r is adder a at the start of its next attempt.
Again(a, r) ==
    /\ add[a].pc = "write" /\ ParentGCed(a)
    /\ r.pc \in {"dag", "resolve"} /\ r.found = <<>> /\ r.tries = add[a].tries + 1

\* The same event, wanted since the same delivery.
SameEvent(a, r) == add[a].pc # "idle" /\ r.ev = add[a].ev /\ r.known = add[a].known

\* What the adder that takes a step may become.
Becomes(a, r) ==
    \/ r = IdleAdder
    \/ \E e \in Events : Began(a, r, e)
    \/ SameEvent(a, r) /\ (Passed(a, r) \/ Hit(a, r) \/ Resolved(a, r) \/ Again(a, r))

\* The outcomes of the three lookups.
LEMMA FoundBecomes ==
  ASSUME TInv, NEW a \in Adders, NEW layer \in {"dag", "cache", "store"}, NEW d \in Nat,
         add[a].pc \in {"dag", "cache", "store"}, Found(a, layer, d),
         layer = "dag" => Wanted(a) \in InDag
  PROVE  \E r \in AddState : add' = [add EXCEPT ![a] = r] /\ Becomes(a, r)
  <1> DEFINE x == add[a]
             more == Append(x.found, [layer |-> layer, depth |-> d])
             next == IF Len(x.found) + 1 = Len(ParentIds[x.ev]) THEN "resolve" ELSE "dag"
             r == [x EXCEPT !.found = more, !.depth = Larger(x.depth, d), !.pc = next]
  <1>1. x \in AddState /\ add \in [Adders -> AddState]
    BY DEF TInv, TypeOK
  <1>2. more \in Seq([layer : {"dag", "cache", "store"}, depth : Nat])
    BY <1>1 DEF AddState
  <1>3. Larger(x.depth, d) \in Nat
    BY <1>1, LargerNat DEF AddState
  <1>4. r \in AddState
    BY <1>1, <1>2, <1>3 DEF AddState
  <1>5. add' = [add EXCEPT ![a] = r]
    BY <1>1 DEF Found, AddState
  <1>6. next \in {"dag", "resolve"} /\ x.pc # "idle"
    OBVIOUS
  <1>7. r.pc = next /\ r.tries = x.tries /\ r.found = more /\ r.ev = x.ev /\ r.known = x.known
    BY <1>1 DEF AddState
  <1> HIDE DEF r, next
  <1>8. Hit(a, r)
    BY <1>6, <1>7 DEF Hit
  <1>9. SameEvent(a, r)
    BY <1>6, <1>7 DEF SameEvent
  <1> QED
    BY <1>4, <1>5, <1>8, <1>9 DEF Becomes

\* A parent that this layer lacks is looked for in the next.
LEMMA NotFoundBecomes ==
  ASSUME TInv, NEW a \in Adders, NEW next \in {"cache", "store"}, NotFound(a, next),
         \/ add[a].pc = "dag" /\ next = "cache" /\ Wanted(a) \notin InDag
         \/ add[a].pc = "cache" /\ next = "store"
  PROVE  \E r \in AddState : add' = [add EXCEPT ![a] = r] /\ Becomes(a, r)
  <1> DEFINE r == [add[a] EXCEPT !.pc = next]
  <1>1. add[a] \in AddState /\ add \in [Adders -> AddState]
    BY DEF TInv, TypeOK
  <1>2. add' = [add EXCEPT ![a] = r]
    BY DEF NotFound
  <1>3. /\ r \in AddState /\ r.pc = next /\ r.found = add[a].found
        /\ r.tries = add[a].tries /\ r.ev = add[a].ev /\ r.known = add[a].known
    BY <1>1 DEF AddState
  <1> HIDE DEF r
  <1>4. Passed(a, r) /\ SameEvent(a, r)
    BY <1>3 DEF Passed, SameEvent
  <1> QED
    BY <1>2, <1>3, <1>4 DEF Becomes

\* An adder that refuses its event is idle again.
LEMMA IdleBecomes ==
  ASSUME NEW a \in Adders, Refuse(a)
  PROVE  \E r \in AddState : add' = [add EXCEPT ![a] = r] /\ Becomes(a, r)
  BY IdleTypes DEF Refuse, Becomes

\* Every step of an adder is one of those.
LEMMA AdderBecomes ==
  ASSUME TInv, NEW a \in Adders, AdderActs(a)
  PROVE  \E r \in AddState : add' = [add EXCEPT ![a] = r] /\ Becomes(a, r)
  <1>0. add[a] \in AddState /\ add \in [Adders -> AddState]
    BY DEF TInv, TypeOK
  <1>1. ASSUME NEW e \in Events, Deliver(a, e)
        PROVE  \E r \in AddState : add' = [add EXCEPT ![a] = r] /\ Becomes(a, r)
    <2> DEFINE r == [IdleAdder EXCEPT !.pc = FirstPc(e), !.ev = e, !.known = admitted]
    <2>1. IdleAdder \in AddState /\ IdleAdder.found = <<>> /\ IdleAdder.tries = 0
      BY IdleTypes DEF IdleAdder
    <2>2. r \in AddState /\ r.found = <<>> /\ r.ev = e /\ r.pc = FirstPc(e)
          /\ r.tries = 0 /\ r.known = admitted
      BY <2>1, FirstPcTypes DEF AddState, TInv, TypeOK
    <2>3. add' = [add EXCEPT ![a] = r]
      BY <1>1 DEF Deliver
    <2> HIDE DEF r
    <2>4. Began(a, r, e)
      BY <1>1, <2>2, FirstPcTypes DEF Began
    <2> QED
      BY <2>2, <2>3, <2>4 DEF Becomes
  <1>2. CASE LookInDag(a) \/ LookInCache(a) \/ LookInStore(a)
    <2>1. add[a].pc \in {"dag", "cache", "store"}
      BY <1>2 DEF LookInDag, LookInCache, LookInStore
    <2>2. Wanted(a) \in Events
      BY <2>1, WantedEvent
    <2>3. /\ depth[Wanted(a)] \in Depths /\ cache[Wanted(a)] \in Depths
          /\ stored[Wanted(a)] \in Depths
      BY <2>2 DEF TInv, TypeOK
    <2>4. \/ \E layer \in {"dag", "cache", "store"}, d \in Nat :
               Found(a, layer, d) /\ (layer = "dag" => Wanted(a) \in InDag)
          \/ \E next \in {"cache", "store"} :
               /\ NotFound(a, next)
               /\ \/ add[a].pc = "dag" /\ next = "cache" /\ Wanted(a) \notin InDag
                  \/ add[a].pc = "cache" /\ next = "store"
          \/ Refuse(a)
      <3>1. CASE LookInDag(a)
        BY <2>2, <2>3, <3>1 DEF LookInDag, InDag, Depths
      <3>2. CASE LookInCache(a)
        BY <2>3, <3>2 DEF LookInCache, Depths
      <3>3. CASE LookInStore(a)
        BY <2>3, <3>3 DEF LookInStore, Depths
      <3> QED
        BY <1>2, <3>1, <3>2, <3>3
    <2> QED
      BY <2>1, <2>4, FoundBecomes, NotFoundBecomes, IdleBecomes
  <1>3. CASE Resolve(a) /\ ~Refuse(a)
    <2> DEFINE r == [add[a] EXCEPT !.pc = "write", !.depth = NewDepth(a)]
    <2>1. add' = [add EXCEPT ![a] = r] /\ add[a].pc = "resolve"
      BY <1>0, <1>3 DEF Resolve, AddState
    <2>2. /\ r \in AddState /\ r.pc = "write" /\ r.found = add[a].found
          /\ r.tries = add[a].tries /\ r.ev = add[a].ev /\ r.known = add[a].known
      BY <1>0, NewDepthNat DEF AddState
    <2> HIDE DEF r
    <2>3. Resolved(a, r) /\ SameEvent(a, r)
      BY <2>1, <2>2 DEF Resolved, SameEvent
    <2> QED
      BY <2>1, <2>2, <2>3 DEF Becomes
  <1>4. CASE Retry(a) /\ ~Refuse(a)
    <2> DEFINE x == add[a]
               r == [x EXCEPT !.pc = FirstPc(x.ev), !.found = <<>>, !.depth = 0,
                              !.tries = x.tries + 1]
    <2>1. add' = [add EXCEPT ![a] = r] /\ x.tries + 1 < MaxRetry
      BY <1>0, <1>4 DEF Retry, AddState
    <2>2. add[a].pc = "write" /\ ParentGCed(a)
      BY <1>4 DEF Retry
    <2>3. x.tries + 1 \in 0 .. MaxRetry - 1
      BY <1>0, <2>1 DEF AddState, MaxRetry
    <2>4. <<>> \in Seq([layer : {"dag", "cache", "store"}, depth : Nat])
      OBVIOUS
    <2>5. FirstPc(x.ev) \in {"resolve", "dag"}
      BY <1>0, FirstPcTypes DEF AddState
    <2>6. /\ r \in AddState /\ r.pc = FirstPc(x.ev) /\ r.found = <<>>
          /\ r.tries = x.tries + 1 /\ r.ev = x.ev /\ r.known = x.known
      BY <1>0, <2>3, <2>4, <2>5 DEF AddState
    <2> HIDE DEF r
    <2>7. Again(a, r) /\ SameEvent(a, r)
      BY <2>2, <2>5, <2>6 DEF Again, SameEvent
    <2> QED
      BY <2>1, <2>6, <2>7 DEF Becomes
  <1>5. CASE Refuse(a) \/ Write(a)
    BY <1>5, IdleBecomes DEF Write, Refuse
  <1> QED
    BY <1>1, <1>2, <1>3, <1>4, <1>5 DEF AdderActs

-----------------------------------------------------------------------------
(* MissingParent is never reported wrongly.                                *)

\* A parent that was admitted before the lookup and that the DAG does not have
\* any more is in the store already, or given up.
Missed ==
    \A a \in Adders :
        /\ add[a].known \subseteq admitted
        /\ add[a].pc \in {"cache", "store"} /\ Wanted(a) \in add[a].known
            => Wanted(a) \in Stored \cup Abandoned

\* Initially no adder is at work.
LEMMA InitMissed == Init => Missed
  BY DEF Init, Missed, IdleAdder

\* A step that leaves the adders alone.
LEMMA QuietMissed ==
  ASSUME Missed, UNCHANGED add, admitted \subseteq admitted', Grows
  PROVE  Missed'
  BY DEF Missed, Wanted, Grows

\* A step of an adder.
LEMMA AdderMissed ==
  ASSUME TInv, LInv, Missed, NEW a \in Adders, AdderActs(a), Grows
  PROVE  Missed'
  <1>1. add \in [Adders -> AddState] /\ add[a] \in AddState
    BY DEF TInv, TypeOK
  <1>2. PICK r \in AddState : add' = [add EXCEPT ![a] = r] /\ Becomes(a, r)
    BY AdderBecomes
  <1>3. admitted \subseteq admitted'
    BY DEF AdderActs, Deliver, LookInDag, LookInCache, LookInStore, Resolve, Write, Retry
  <1>4. \A b \in Adders : b # a => add'[b] = add[b]
    BY <1>1, <1>2
  <1>5. add'[a] = r
    BY <1>1, <1>2
  <1>6. r.known \subseteq admitted
    <2>1. CASE r = IdleAdder
      BY <2>1 DEF IdleAdder
    <2>2. CASE \E e \in Events : Began(a, r, e)
      BY <2>2 DEF Began
    <2>3. CASE SameEvent(a, r)
      BY <2>3 DEF SameEvent, Missed
    <2> QED
      BY <1>2, <2>1, <2>2, <2>3 DEF Becomes
  <1>7. r.pc \in {"cache", "store"} => Wanted(a)' = Wanted(a) /\ Passed(a, r) /\ SameEvent(a, r)
    <2>1. r.pc \in {"cache", "store"} => r # IdleAdder
      BY DEF IdleAdder
    <2>2. r.pc \in {"cache", "store"} => \A e \in Events : ~ Began(a, r, e)
      BY DEF Began
    <2>3. r.pc \in {"cache", "store"} => ~ Hit(a, r) /\ ~ Resolved(a, r) /\ ~ Again(a, r)
      BY DEF Hit, Resolved, Again
    <2>4. r.pc \in {"cache", "store"} => Passed(a, r) /\ SameEvent(a, r)
      BY <1>2, <2>1, <2>2, <2>3 DEF Becomes
    <2> QED
      BY <1>5, <2>4 DEF Wanted, Passed, SameEvent
  <1>8. ASSUME r.pc \in {"cache", "store"}, Wanted(a) \in r.known
        PROVE  Wanted(a) \in Stored' \cup Abandoned'
    <2>1. Wanted(a) \in add[a].known
      BY <1>7, <1>8 DEF SameEvent
    <2>2. CASE add[a].pc = "dag"
      <3>1. Wanted(a) \notin InDag
        BY <1>7, <1>8, <2>2 DEF Passed
      <3>2. Wanted(a) \in admitted
        BY <2>1 DEF Missed
      <3> QED
        BY <3>1, <3>2 DEF LInv, NoEventLost, Grows
    <2>3. CASE add[a].pc = "cache"
      BY <2>1, <2>3 DEF Missed, Grows
    <2> QED
      BY <1>7, <1>8, <2>2, <2>3 DEF Passed
  <1>9. \A b \in Adders : b # a => Wanted(b)' = Wanted(b)
    BY <1>4 DEF Wanted
  <1> QED
    BY <1>3, <1>4, <1>5, <1>6, <1>7, <1>8, <1>9 DEF Missed, Grows

\* The finalizers leave the adders and their history alone.
LEMMA FinalizerQuiet ==
  ASSUME NEW p \in Finalizers,
         \/ \E E \in SUBSET Pending, d \in 0 .. maxDepth : Finalize(p, E, d)
         \/ Mark(p) \/ Collect(p) \/ StoreEvents(p) \/ StoreAnchor(p)
         \/ Abandon(p) \/ FinalizeAgain(p)
         \/ \E K \in SUBSET Events : FillCache(p, K)
         \/ \E R \in SUBSET InDag : Gc(p, R)
  PROVE  UNCHANGED <<add, admitted, redeliveries>>
  BY DEF Finalize, Mark, Collect, StoreEvents, StoreAnchor, Abandon, FinalizeAgain,
         FillCache, Gc

\* And so does the catch-up task.
LEMMA CatchUpQuiet ==
  ASSUME CatchUpActs
  PROVE  InDag' = InDag /\ UNCHANGED <<add, admitted, redeliveries>>
  BY DEF CatchUpActs, CatchUp, InDag

\* Every step keeps it.
LEMMA NextMissed ==
  ASSUME OneFinalizer
  PROVE  TInv /\ AInv /\ LInv /\ Missed /\ [Next]_vars => Missed'
  <1> SUFFICES ASSUME TInv, AInv, LInv, Missed, [Next]_vars PROVE Missed'
    OBVIOUS
  <1>1. Grows
    BY NextLInv
  <1>2. CASE UNCHANGED vars
    BY <1>1, <1>2, QuietMissed DEF vars
  <1>3. ASSUME NEW a \in Adders, AdderActs(a)
        PROVE  Missed'
    BY <1>1, <1>3, AdderMissed
  <1> QED
    BY <1>1, <1>2, <1>3, FinalizerQuiet, CatchUpQuiet, QuietMissed
       DEF Next, AdderActs, CatchUpActs

\* The three layers are read without a common lock while GC moves events from
\* the DAG to the store; when one task persists, an adder that has asked the
\* DAG and the cache in vain finds every parent that was admitted before its
\* lookup began in the store, unless its anchor was given up.
THEOREM NoFalseMissingHolds ==
  ASSUME OneFinalizer
  PROVE  Spec => []NoFalseMissing
  <1>1. Missed => NoFalseMissing
    BY DEF Missed, NoFalseMissing
  <1>2. Init => LInv /\ Missed
    BY InitLInv, InitMissed
  <1>3. TInv /\ AInv /\ LInv /\ Missed /\ [Next]_vars => LInv' /\ Missed'
    BY NextLInv, NextMissed
  <1> QED
    BY <1>1, <1>2, <1>3, AInvHolds, PTL DEF Spec

-----------------------------------------------------------------------------
(* Events that are delivered once.                                         *)

\* The DAG holds admitted events; what an adder has found answers its event's
\* parents one by one, and a parent found in the DAG was admitted.
Traced ==
    /\ InDag \subseteq admitted
    /\ \A a \in Adders :
        /\ Len(add[a].found) <= Len(ParentIds[add[a].ev])
        /\ \A k \in 1 .. Len(add[a].found) :
            add[a].found[k].layer = "dag" => ParentIds[add[a].ev][k] \in admitted

\* Without redeliveries an event in flight has not been admitted, and no two
\* adders carry the same one.
Once ==
    redeliveries = 0 =>
        \A a \in Adders :
            add[a].pc # "idle" =>
                /\ add[a].ev \notin admitted
                /\ \A b \in Adders : b # a /\ add[b].pc # "idle" => add[b].ev # add[a].ev

DInv == Traced /\ Once

\* An admitted event that is not in the DAG any more.
Gone(e) == e \in admitted /\ e \notin InDag

\* The steps of finalizer p.
FinalizerActs(p) ==
    \/ \E E \in SUBSET Pending, d \in 0 .. maxDepth : Finalize(p, E, d)
    \/ Mark(p) \/ Collect(p) \/ StoreEvents(p) \/ StoreAnchor(p)
    \/ Abandon(p) \/ FinalizeAgain(p)
    \/ \E K \in SUBSET Events : FillCache(p, K)
    \/ \E R \in SUBSET InDag : Gc(p, R)

\* Initially no event has arrived.
LEMMA InitDInv == Init => DInv
  <1> SUFFICES ASSUME Init PROVE DInv
    OBVIOUS
  <1>1. InDag = {}
    BY DEF Init, InDag, NoBatch
  <1>2. \A a \in Adders : add[a] = IdleAdder
    BY DEF Init
  <1>3. Len(IdleAdder.found) = 0 /\ IdleAdder.pc = "idle" /\ IdleAdder.ev \in Events
    BY IdleTypes DEF IdleAdder, AddState
  <1>4. Len(ParentIds[IdleAdder.ev]) \in Nat
    BY <1>3, EventsAssumption
  <1> QED
    BY <1>1, <1>2, <1>3, <1>4 DEF DInv, Traced, Once

\* Finalizers add no event to the DAG.
LEMMA FinalizerShrinks ==
  ASSUME TInv, NEW p \in Finalizers, FinalizerActs(p)
  PROVE  InDag' \subseteq InDag /\ UNCHANGED <<add, admitted, redeliveries>>
  <1>1. UNCHANGED <<add, admitted, redeliveries>>
    BY FinalizerQuiet DEF FinalizerActs
  <1>2. CASE UNCHANGED depth
    BY <1>1, <1>2 DEF InDag
  <1>3. ASSUME NEW R \in SUBSET InDag, Gc(p, R)
        PROVE  InDag' \subseteq InDag
    BY <1>3 DEF Gc, InDag
  <1> QED
    BY <1>1, <1>2, <1>3 DEF FinalizerActs, Finalize, Mark, Collect, StoreEvents,
                            StoreAnchor, Abandon, FinalizeAgain, FillCache, dag

\* What an adder does to the events of the DAG.
LEMMA AdderEvents ==
  ASSUME TInv, NEW a \in Adders, AdderActs(a)
  PROVE  /\ \/ UNCHANGED <<InDag, admitted, links, depth>>
            \/ /\ Write(a) /\ add[a].ev \notin InDag
               /\ InDag' = InDag \cup {add[a].ev} /\ admitted' = admitted \cup {add[a].ev}
         /\ redeliveries' = 0 => redeliveries = 0
         /\ UNCHANGED <<final, minDepth, cache, stored, anchors, anchorStore, fin, abandoned>>
  <1>1. UNCHANGED <<final, minDepth, cache, stored, anchors, anchorStore, fin, abandoned>>
    BY DEF AdderActs, Deliver, LookInDag, LookInCache, LookInStore, Resolve, Write, Retry, dag
  <1>2. redeliveries' = 0 => redeliveries = 0
    <2>1. redeliveries \in Nat
      BY LimitsAssumption DEF TInv, TypeOK
    <2>2. (\E e \in Events : Deliver(a, e)) \/ UNCHANGED redeliveries
      BY DEF AdderActs, LookInDag, LookInCache, LookInStore, Resolve, Write, Retry
    <2>3. ASSUME NEW e \in Events, Deliver(a, e)
          PROVE  redeliveries' \in {redeliveries, redeliveries + 1}
      BY <2>3 DEF Deliver
    <2> QED
      BY <2>1, <2>2, <2>3
  <1>3. CASE UNCHANGED <<depth, admitted, links>>
    <2>1. InDag' = InDag
      BY <1>3 DEF InDag
    <2> QED
      BY <1>1, <1>2, <1>3, <2>1
  <1>4. CASE Write(a) /\ add[a].ev \notin InDag
    <2> DEFINE e == add[a].ev
    <2>1. depth \in [Events -> Depths] /\ e \in Events /\ add[a].depth # NoDepth
      BY DEF TInv, TypeOK, AddState, NoDepth
    <2>2. depth' = [depth EXCEPT ![e] = add[a].depth] /\ admitted' = admitted \cup {e}
      BY <1>4 DEF Write
    <2>3. InDag' = InDag \cup {e}
      BY <2>1, <2>2 DEF InDag
    <2> QED
      BY <1>1, <1>2, <1>4, <2>2, <2>3
  <1> QED
    BY <1>3, <1>4 DEF AdderActs, Deliver, LookInDag, LookInCache, LookInStore, Resolve,
                      Write, Retry, dag

\* A step of an adder.
LEMMA AdderDInv ==
  ASSUME TInv, DInv, NEW a \in Adders, AdderActs(a)
  PROVE  DInv'
  <1>0. add \in [Adders -> AddState] /\ add[a] \in AddState
    BY DEF TInv, TypeOK
  <1>1. PICK r \in AddState : add' = [add EXCEPT ![a] = r] /\ Becomes(a, r)
    BY AdderBecomes
  <1>2. add'[a] = r /\ \A b \in Adders : b # a => add'[b] = add[b]
    BY <1>0, <1>1
  <1>3. admitted \subseteq admitted' /\ InDag' \subseteq admitted'
    BY AdderEvents DEF DInv, Traced
  <1>4. Len(ParentIds[r.ev]) \in Nat /\ Len(ParentIds[add[a].ev]) \in Nat
    BY <1>0, <1>1, EventsAssumption DEF AddState
  <1>5. /\ Len(r.found) <= Len(ParentIds[r.ev])
        /\ \A k \in 1 .. Len(r.found) :
              r.found[k].layer = "dag" => ParentIds[r.ev][k] \in admitted
    <2>1. CASE r.found = <<>>
      <3>1. Len(r.found) = 0
        BY <2>1
      <3> QED
        BY <1>4, <3>1
    <2>2. CASE r.ev = add[a].ev /\ r.found = add[a].found
      BY <2>2 DEF DInv, Traced
    <2>3. CASE SameEvent(a, r) /\ Hit(a, r)
      <3>1. PICK layer \in {"dag", "cache", "store"} : \E d \in Nat :
              /\ r.found = Append(add[a].found, [layer |-> layer, depth |-> d])
              /\ layer = "dag" => Wanted(a) \in InDag
        BY <2>3 DEF Hit
      <3>2. PICK d \in Nat : r.found = Append(add[a].found, [layer |-> layer, depth |-> d])
        BY <3>1
      <3> DEFINE s == add[a].found
                 x == [layer |-> layer, depth |-> d]
      <3>3. s \in Seq([layer : {"dag", "cache", "store"}, depth : Nat]) /\ x.layer = layer
        BY <1>0 DEF AddState
      <3> HIDE DEF x
      <3>4. /\ Len(r.found) = Len(s) + 1 /\ r.found[Len(s) + 1] = x /\ Len(s) \in Nat
            /\ \A k \in 1 .. Len(s) : r.found[k] = s[k]
        BY <3>2, <3>3 DEF x
      <3>5. Len(s) < Len(ParentIds[add[a].ev]) /\ r.ev = add[a].ev
        BY <2>3 DEF Hit, SameEvent, TInv, Looking
      <3>6. x.layer = "dag" => ParentIds[r.ev][Len(s) + 1] \in admitted
        BY <3>1, <3>3, <3>5 DEF Wanted, DInv, Traced
      <3>7. \A k \in 1 .. Len(s) : s[k].layer = "dag" => ParentIds[r.ev][k] \in admitted
        BY <3>5 DEF DInv, Traced
      <3>8. \A k \in 1 .. Len(r.found) : k \in 1 .. Len(s) \/ k = Len(s) + 1
        BY <3>4
      <3>9. Len(r.found) <= Len(ParentIds[r.ev])
        BY <1>4, <3>4, <3>5
      <3>10. ASSUME NEW k \in 1 .. Len(r.found), r.found[k].layer = "dag"
             PROVE  ParentIds[r.ev][k] \in admitted
        <4>1. CASE k \in 1 .. Len(s)
          BY <3>4, <3>7, <3>10, <4>1
        <4>2. CASE k = Len(s) + 1
          BY <3>4, <3>6, <3>10, <4>2
        <4> QED
          BY <3>8, <4>1, <4>2
      <3> QED
        BY <3>9, <3>10
    <2> QED
      BY <1>1, <2>1, <2>2, <2>3 DEF Becomes, Began, SameEvent, Passed, Resolved, Again,
                                    IdleAdder
  <1>6. Traced'
    BY <1>2, <1>3, <1>5 DEF DInv, Traced
  <1>7. ASSUME redeliveries' = 0
        PROVE  \A b \in Adders :
                 add'[b].pc # "idle" =>
                   /\ add'[b].ev \notin admitted'
                   /\ \A c \in Adders : c # b /\ add'[c].pc # "idle" => add'[c].ev # add'[b].ev
    <2>1. redeliveries = 0
      BY <1>7, AdderEvents
    <2>2. CASE \E e \in Events : Began(a, r, e)
      <3>1. PICK e \in Events : Began(a, r, e)
        BY <2>2
      <3>2. Deliver(a, e) /\ r.ev = e /\ admitted' = admitted
        BY <3>1 DEF Began, Deliver
      <3>3. e \notin admitted /\ \A b \in Adders : add[b].pc # "idle" => add[b].ev # e
        BY <1>7, <2>1, <3>2 DEF Deliver
      <3> QED
        BY <1>2, <2>1, <3>2, <3>3 DEF DInv, Once
    <2>3. CASE r = IdleAdder /\ admitted' = admitted
      BY <1>2, <2>1, <2>3 DEF DInv, Once, IdleAdder
    <2>4. CASE Write(a) /\ admitted' = admitted \cup {add[a].ev}
      <3>1. add'[a].pc = "idle" /\ add[a].pc # "idle"
        BY <1>0, <2>4 DEF Write, IdleAdder
      <3> QED
        BY <1>2, <2>1, <2>4, <3>1 DEF DInv, Once
    <2>5. CASE SameEvent(a, r) /\ admitted' = admitted
      BY <1>2, <2>1, <2>5 DEF DInv, Once, SameEvent
    <2> QED
      BY <1>1, <2>2, <2>3, <2>4, <2>5, AdderEvents DEF Becomes
  <1> QED
    BY <1>6, <1>7 DEF DInv, Once

\* Every step keeps it.
LEMMA NextDInv == TInv /\ DInv /\ [Next]_vars => DInv'
  <1> SUFFICES ASSUME TInv, DInv, [Next]_vars PROVE DInv'
    OBVIOUS
  <1>1. CASE UNCHANGED vars
    BY <1>1 DEF vars, dag, DInv, Traced, Once, InDag
  <1>2. ASSUME NEW p \in Finalizers, FinalizerActs(p)
        PROVE  DInv'
    BY <1>2, FinalizerShrinks DEF DInv, Traced, Once
  <1>3. CASE CatchUpActs
    BY <1>3, CatchUpQuiet DEF DInv, Traced, Once
  <1> QED
    BY <1>1, <1>2, <1>3, AdderDInv DEF Next, AdderActs, FinalizerActs, CatchUpActs

\* Without redeliveries an event leaves the DAG for good.
LEMMA GoneForGood ==
  ASSUME TInv, DInv, [Next]_vars, redeliveries' = 0, NEW e, Gone(e)
  PROVE  Gone(e)'
  <1>1. CASE UNCHANGED vars
    BY <1>1 DEF vars, dag, Gone, InDag
  <1>2. ASSUME NEW p \in Finalizers, FinalizerActs(p)
        PROVE  Gone(e)'
    BY <1>2, FinalizerShrinks DEF Gone
  <1>3. ASSUME NEW a \in Adders, AdderActs(a)
        PROVE  Gone(e)'
    <2>1. CASE UNCHANGED <<InDag, admitted>>
      BY <2>1 DEF Gone
    <2>2. CASE /\ Write(a)
               /\ InDag' = InDag \cup {add[a].ev} /\ admitted' = admitted \cup {add[a].ev}
      <3>1. redeliveries = 0 /\ add[a].pc # "idle"
        BY <1>3, <2>2, AdderEvents DEF Write
      <3>2. add[a].ev \notin admitted
        BY <3>1 DEF DInv, Once
      <3> QED
        BY <2>2, <3>2 DEF Gone
    <2> QED
      BY <1>3, <2>1, <2>2, AdderEvents
  <1>4. CASE CatchUpActs
    BY <1>4, CatchUpQuiet DEF Gone
  <1> QED
    BY <1>1, <1>2, <1>3, <1>4 DEF Next, AdderActs, FinalizerActs, CatchUpActs

\* Parent k of the adder's event has left the DAG, and was not found there in
\* this attempt.
Clear(a, k) ==
    /\ Gone(ParentIds[add[a].ev][k])
    /\ k <= Len(add[a].found) => add[a].found[k].layer # "dag"

\* Every attempt that failed was the last one one of the parents could spoil.
Tired ==
    redeliveries = 0 =>
        \A a \in Adders :
            add[a].pc # "idle" /\ Len(ParentIds[add[a].ev]) <= 2 =>
                /\ add[a].tries >= 1 =>
                    \E k \in 1 .. Len(ParentIds[add[a].ev]) : Clear(a, k)
                /\ add[a].tries >= 2 =>
                    \A k \in 1 .. Len(ParentIds[add[a].ev]) : Clear(a, k)

\* A parent that is clear of its adder stays so while the adder goes on.
LEMMA ClearStays ==
  ASSUME TInv, DInv, [Next]_vars, redeliveries' = 0, NEW a \in Adders,
         add'[a].ev = add[a].ev, NEW k \in 1 .. Len(ParentIds[add[a].ev]), Clear(a, k),
         \/ add'[a].found \in {add[a].found, <<>>}
         \/ Hit(a, add'[a])
  PROVE  Clear(a, k)'
  <1> DEFINE e == ParentIds[add[a].ev][k]
             r == add'[a]
  <1>1. Gone(e) /\ Gone(e)'
    BY GoneForGood DEF Clear
  <1>2. Len(<<>>) = 0 /\ k \in Nat /\ ~(k <= 0)
    OBVIOUS
  <1>3. CASE r.found \in {add[a].found, <<>>}
    BY <1>1, <1>2, <1>3 DEF Clear, Gone
  <1>4. CASE Hit(a, r)
    <2>1. PICK layer \in {"dag", "cache", "store"} : \E d \in Nat :
            /\ r.found = Append(add[a].found, [layer |-> layer, depth |-> d])
            /\ layer = "dag" => Wanted(a) \in InDag
      BY <1>4 DEF Hit
    <2>2. PICK d \in Nat : r.found = Append(add[a].found, [layer |-> layer, depth |-> d])
      BY <2>1
    <2> DEFINE s == add[a].found
               x == [layer |-> layer, depth |-> d]
    <2>3. s \in Seq([layer : {"dag", "cache", "store"}, depth : Nat]) /\ x.layer = layer
      BY DEF AddState, TInv, TypeOK
    <2> HIDE DEF x
    <2>4. /\ Len(r.found) = Len(s) + 1 /\ r.found[Len(s) + 1] = x /\ Len(s) \in Nat
          /\ \A i \in 1 .. Len(s) : r.found[i] = s[i]
      BY <2>2, <2>3 DEF x
    <2>5. k = Len(s) + 1 => x.layer # "dag"
      BY <1>1, <2>1, <2>3 DEF Wanted, Gone
    <2>6. k \in 1 .. Len(s) => s[k].layer # "dag"
      BY <2>4 DEF Clear
    <2>7. k <= Len(r.found) => r.found[k].layer # "dag"
      <3>1. CASE k = Len(s) + 1
        BY <2>4, <2>5, <3>1
      <3>2. CASE k \in 1 .. Len(s)
        BY <2>4, <2>6, <3>2
      <3> QED
        BY <1>2, <2>4, <3>1, <3>2
    <2> QED
      BY <1>1, <2>7 DEF Clear, Gone
  <1> QED
    BY <1>3, <1>4

\* Every step keeps it.
LEMMA NextTired == TInv /\ DInv /\ Tired /\ [Next]_vars => Tired'
  <1> SUFFICES ASSUME TInv, DInv, Tired, [Next]_vars, redeliveries' = 0,
                      NEW b \in Adders, add'[b].pc # "idle",
                      Len(ParentIds[add'[b].ev]) <= 2
               PROVE  /\ add'[b].tries >= 1 =>
                          \E k \in 1 .. Len(ParentIds[add'[b].ev]) : Clear(b, k)'
                      /\ add'[b].tries >= 2 =>
                          \A k \in 1 .. Len(ParentIds[add'[b].ev]) : Clear(b, k)'
    BY DEF Tired
  <1> DEFINE r == add'[b]
             n == Len(ParentIds[add[b].ev])
  <1>0. add \in [Adders -> AddState] /\ add[b] \in AddState
    BY DEF TInv, TypeOK
  <1>1. add[b].tries \in 0 .. 2 /\ n \in Nat /\ Len(add[b].found) \in Nat
    BY <1>0, EventsAssumption DEF AddState, MaxRetry
  <1>2. redeliveries = 0
    <2>1. CASE UNCHANGED vars
      BY <2>1 DEF vars
    <2> QED
      BY <2>1, AdderEvents, FinalizerShrinks, CatchUpQuiet
         DEF Next, AdderActs, FinalizerActs, CatchUpActs
  <1>3. \/ r = add[b]
        \/ \E e \in Events : Began(b, r, e)
        \/ SameEvent(b, r) /\ (Passed(b, r) \/ Hit(b, r) \/ Resolved(b, r) \/ Again(b, r))
    <2>1. CASE UNCHANGED add
      BY <2>1
    <2>2. ASSUME NEW a \in Adders, AdderActs(a)
          PROVE  r = add[b] \/ Becomes(b, r)
      <3>1. PICK x \in AddState : add' = [add EXCEPT ![a] = x] /\ Becomes(a, x)
        BY <2>2, AdderBecomes
      <3>2. CASE a = b
        BY <1>0, <3>1, <3>2
      <3>3. CASE a # b
        BY <1>0, <3>1, <3>3
      <3> QED
        BY <3>2, <3>3
    <2>3. r # IdleAdder
      BY DEF IdleAdder
    <2>4. UNCHANGED add \/ \E a \in Adders : AdderActs(a)
      BY FinalizerShrinks, CatchUpQuiet DEF Next, AdderActs, FinalizerActs, CatchUpActs, vars
    <2> QED
      BY <2>1, <2>2, <2>3, <2>4 DEF Becomes
  <1>4. CASE \E e \in Events : Began(b, r, e)
    BY <1>4 DEF Began
  <1>5. CASE \/ r = add[b]
             \/ SameEvent(b, r) /\ (Passed(b, r) \/ Hit(b, r) \/ Resolved(b, r))
    <2>1. /\ r.ev = add[b].ev /\ r.tries = add[b].tries /\ add[b].pc # "idle"
          /\ r.found = add[b].found \/ Hit(b, r)
      BY <1>5 DEF SameEvent, Passed, Hit, Resolved
    <2>2. \A k \in 1 .. n : Clear(b, k) => Clear(b, k)'
      BY <2>1, ClearStays
    <2> QED
      BY <1>2, <2>1, <2>2 DEF Tired
  <1>6. CASE SameEvent(b, r) /\ Again(b, r)
    <2>1. /\ r.ev = add[b].ev /\ r.tries = add[b].tries + 1 /\ r.found = <<>>
          /\ add[b].pc # "idle" /\ ParentGCed(b) /\ Len(r.found) = 0
      BY <1>6 DEF SameEvent, Again
    <2>2. PICK k \in 1 .. Len(add[b].found) :
            add[b].found[k].layer = "dag" /\ ParentIds[add[b].ev][k] \notin InDag
      BY <2>1 DEF ParentGCed
    <2>3. k \in 1 .. n /\ Gone(ParentIds[add[b].ev][k]) /\ ~Clear(b, k)
      BY <1>1, <2>2 DEF DInv, Traced, Gone, Clear
    <2>4. Gone(ParentIds[add[b].ev][k])'
      <3>1. PICK e : e = ParentIds[add[b].ev][k] /\ Gone(e)
        BY <2>3
      <3>2. Gone(e)'
        BY <3>1, GoneForGood
      <3> QED
        BY <2>1, <3>1, <3>2
    <2>5. Clear(b, k)'
      <3>1. ~(k <= Len(r.found))
        BY <2>1, <2>3
      <3> QED
        BY <2>1, <2>4, <3>1 DEF Clear, Gone
    <2>6. \A i \in 1 .. n : Clear(b, i) => Clear(b, i)'
      BY <2>1, ClearStays
    <2>7. add[b].tries < 2
      BY <1>1, <1>2, <2>1, <2>3 DEF Tired
    <2>8. ASSUME add[b].tries = 1, NEW i \in 1 .. n
          PROVE  Clear(b, i)'
      <3>1. PICK j \in 1 .. n : Clear(b, j)
        BY <1>2, <2>1, <2>8 DEF Tired
      <3>2. j # k /\ Clear(b, j)'
        BY <2>3, <2>6, <3>1
      <3>3. i = j \/ i = k
        BY <1>1, <2>1, <2>3, <3>2
      <3> QED
        BY <2>5, <3>2, <3>3
    <2> QED
      BY <1>1, <2>1, <2>3, <2>5, <2>7, <2>8
  <1> QED
    BY <1>3, <1>4, <1>5, <1>6

\* MaxRetry is enough: without redeliveries the insertion of an event with at
\* most two parents never fails because GC took its parents three times.
THEOREM RetriesSufficeHolds == Spec => []RetriesSuffice
  <1>1. TInv /\ DInv /\ Tired => RetriesSuffice
    <2> SUFFICES ASSUME TInv, DInv, Tired, redeliveries = 0, NEW a \in Adders,
                        add[a].pc = "write", ParentGCed(a),
                        Len(ParentIds[add[a].ev]) <= 2
                 PROVE  add[a].tries + 1 < MaxRetry
      BY DEF RetriesSuffice
    <2>1. add[a] \in AddState
      BY DEF TInv, TypeOK
    <2>2. add[a].tries \in 0 .. 2 /\ Len(ParentIds[add[a].ev]) \in Nat
          /\ Len(add[a].found) \in Nat
      BY <2>1, EventsAssumption DEF AddState, MaxRetry
    <2>3. PICK k \in 1 .. Len(add[a].found) : add[a].found[k].layer = "dag"
      BY DEF ParentGCed
    <2>4. k \in 1 .. Len(ParentIds[add[a].ev]) /\ ~Clear(a, k)
      BY <2>2, <2>3 DEF DInv, Traced, Clear
    <2> QED
      BY <2>2, <2>4 DEF Tired, MaxRetry
  <1>2. Init => Tired
    BY DEF Init, Tired, IdleAdder
  <1> QED
    BY <1>1, <1>2, InitDInv, NextDInv, NextTired, TInvHolds, PTL DEF Spec

-----------------------------------------------------------------------------
(* No event is finalized twice.                                            *)

\* An anchor's events were admitted; until they are marked no other anchor is
\* built, and afterwards none of them is pending.
Anchored ==
    /\ \A i \in 1 .. Len(anchors) : anchors[i].events \subseteq admitted
    /\ redeliveries = 0 =>
        \A i \in 1 .. Len(anchors) :
            \/ \E p \in Finalizers : fin[p].pc = "mark" /\ fin[p].anchor = i
            \/ anchors[i].events \cap Pending = {}

JInv == Anchored /\ AnchorsDisjoint

\* A step that neither adds nor marks an anchor.
LEMMA QuietJInv ==
  ASSUME JInv, UNCHANGED anchors, admitted \subseteq admitted',
         redeliveries' = 0 =>
            /\ redeliveries = 0
            /\ Pending' \cap admitted \subseteq Pending
            /\ \A p \in Finalizers : fin[p].pc = "mark" => fin'[p] = fin[p]
  PROVE  JInv'
  <1>1. AnchorsDisjoint'
    BY DEF JInv, AnchorsDisjoint
  <1>2. Anchored'
    BY DEF JInv, Anchored
  <1> QED
    BY <1>1, <1>2 DEF JInv

\* A new anchor takes pending events, and none is being marked.
LEMMA FinalizeJInv ==
  ASSUME TInv, DInv, JInv, NEW p \in Finalizers, NEW E \in SUBSET Pending,
         NEW d \in 0 .. maxDepth, Finalize(p, E, d)
  PROVE  JInv'
  <1> DEFINE anchor == [events |-> E, depth |-> d]
             N == Len(anchors)
  <1>1. /\ UNCHANGED <<depth, final, admitted, redeliveries>>
        /\ anchors' = Append(anchors, anchor)
        /\ \A q \in Finalizers : fin[q].pc # "mark"
        /\ fin' = [fin EXCEPT ![p] = [IdleFinalizer EXCEPT !.pc = "mark", !.anchor = N + 1]]
    BY DEF Finalize, dag
  <1>2. anchors \in Seq([events : SUBSET Events, depth : Nat]) /\ N \in Nat
        /\ fin \in [Finalizers -> FinState]
    BY DEF TInv, TypeOK
  <1>3. anchor.events = E
    OBVIOUS
  <1> HIDE DEF anchor
  <1>4. /\ Len(anchors') = N + 1 /\ anchors'[N + 1] = anchor
        /\ \A i \in 1 .. N : anchors'[i] = anchors[i]
    BY <1>1, <1>2
  <1>5. \A i \in 1 .. Len(anchors') : i \in 1 .. N \/ i = N + 1
    BY <1>2, <1>4
  <1>6. fin'[p].pc = "mark" /\ fin'[p].anchor = N + 1
    BY <1>1, <1>2 DEF IdleFinalizer
  <1>7. InDag' = InDag /\ Pending' = Pending /\ E \subseteq Pending /\ Pending \subseteq admitted
    BY <1>1 DEF InDag, Pending, DInv, Traced
  <1>8. redeliveries = 0 => \A i \in 1 .. N : anchors[i].events \cap Pending = {}
    BY <1>1 DEF JInv, Anchored
  <1>9. Anchored'
    <2>1. \A i \in 1 .. Len(anchors') : anchors'[i].events \subseteq admitted'
      BY <1>1, <1>3, <1>4, <1>5, <1>7 DEF JInv, Anchored
    <2>2. ASSUME redeliveries' = 0, NEW i \in 1 .. Len(anchors')
          PROVE  \/ \E q \in Finalizers : fin'[q].pc = "mark" /\ fin'[q].anchor = i
                 \/ anchors'[i].events \cap Pending' = {}
      BY <1>1, <1>4, <1>5, <1>6, <1>7, <1>8, <2>2
    <2> QED
      BY <2>1, <2>2 DEF Anchored
  <1>10. AnchorsDisjoint'
    <2> SUFFICES ASSUME redeliveries = 0, NEW i \in 1 .. Len(anchors'),
                        NEW j \in 1 .. Len(anchors'), i # j
                 PROVE  anchors'[i].events \cap anchors'[j].events = {}
      BY <1>1 DEF AnchorsDisjoint
    <2>1. CASE i \in 1 .. N /\ j \in 1 .. N
      BY <1>4, <2>1 DEF JInv, AnchorsDisjoint
    <2>2. CASE i = N + 1 /\ j \in 1 .. N
      BY <1>3, <1>4, <1>7, <1>8, <2>2
    <2>3. CASE i \in 1 .. N /\ j = N + 1
      BY <1>3, <1>4, <1>7, <1>8, <2>3
    <2> QED
      BY <1>5, <2>1, <2>2, <2>3
  <1> QED
    BY <1>9, <1>10 DEF JInv

\* Marking leaves none of the anchor's events pending.
LEMMA MarkJInv ==
  ASSUME TInv, JInv, NEW p \in Finalizers, Mark(p)
  PROVE  JInv'
  <1>1. /\ UNCHANGED <<depth, anchors, admitted, redeliveries>> /\ fin[p].pc = "mark"
        /\ final' = final \cup (EventsOf(p) \cap InDag)
        /\ fin' = [fin EXCEPT ![p].pc = "collect"]
    BY DEF Mark, Goto
  <1>2. fin \in [Finalizers -> FinState]
    BY DEF TInv, TypeOK
  <1>3. \A q \in Finalizers : q # p => fin'[q] = fin[q]
    BY <1>1, <1>2
  <1>4. InDag' = InDag /\ Pending' \subseteq Pending /\ EventsOf(p) \cap Pending' = {}
    BY <1>1 DEF InDag, Pending
  <1>5. Anchored'
    <2>1. ASSUME redeliveries = 0, NEW i \in 1 .. Len(anchors)
          PROVE  \/ \E q \in Finalizers : fin'[q].pc = "mark" /\ fin'[q].anchor = i
                 \/ anchors[i].events \cap Pending' = {}
      <3>1. CASE fin[p].anchor = i
        BY <1>4, <3>1 DEF EventsOf
      <3>2. CASE fin[p].anchor # i
        BY <1>3, <1>4, <2>1, <3>2 DEF JInv, Anchored
      <3> QED
        BY <3>1, <3>2
    <2> QED
      BY <1>1, <2>1 DEF JInv, Anchored
  <1>6. AnchorsDisjoint'
    BY <1>1 DEF JInv, AnchorsDisjoint
  <1> QED
    BY <1>5, <1>6 DEF JInv

\* A catch-up takes pending events and leaves none of them pending.
LEMMA CatchUpJInv ==
  ASSUME TInv, DInv, JInv, NEW E \in SUBSET Pending, NEW d \in 0 .. maxDepth, CatchUp(E, d)
  PROVE  JInv'
  <1> DEFINE N == Len(anchors)
  <1>1. /\ UNCHANGED <<admitted, redeliveries, fin>> /\ N \in Nat /\ Len(anchors') = N + 1
        /\ anchors'[N + 1].events = E /\ \A i \in 1 .. N : anchors'[i] = anchors[i]
        /\ InDag' = InDag /\ final' = final \cup E
    BY CatchUpEffect
  <1>2. \A q \in Finalizers : fin[q].pc # "mark"
    BY DEF CatchUp
  <1>3. \A i \in 1 .. Len(anchors') : i \in 1 .. N \/ i = N + 1
    BY <1>1
  <1>4. Pending' = Pending \ E /\ E \subseteq Pending /\ E \subseteq admitted
    BY <1>1 DEF Pending, DInv, Traced
  <1>5. redeliveries = 0 => \A i \in 1 .. N : anchors[i].events \cap Pending = {}
    BY <1>2 DEF JInv, Anchored
  <1>6. Anchored'
    <2>1. \A i \in 1 .. Len(anchors') : anchors'[i].events \subseteq admitted'
      BY <1>1, <1>3, <1>4 DEF JInv, Anchored
    <2>2. ASSUME redeliveries' = 0, NEW i \in 1 .. Len(anchors')
          PROVE  anchors'[i].events \cap Pending' = {}
      BY <1>1, <1>3, <1>4, <1>5, <2>2
    <2> QED
      BY <2>1, <2>2 DEF Anchored
  <1>7. AnchorsDisjoint'
    <2> SUFFICES ASSUME redeliveries = 0, NEW i \in 1 .. Len(anchors'),
                        NEW j \in 1 .. Len(anchors'), i # j
                 PROVE  anchors'[i].events \cap anchors'[j].events = {}
      BY <1>1 DEF AnchorsDisjoint
    <2>1. CASE i \in 1 .. N /\ j \in 1 .. N
      BY <1>1, <2>1 DEF JInv, AnchorsDisjoint
    <2>2. CASE i = N + 1 /\ j \in 1 .. N
      BY <1>1, <1>4, <1>5, <2>2
    <2>3. CASE i \in 1 .. N /\ j = N + 1
      BY <1>1, <1>4, <1>5, <2>3
    <2> QED
      BY <1>3, <2>1, <2>2, <2>3
  <1> QED
    BY <1>6, <1>7 DEF JInv

\* Every step keeps it.
LEMMA NextJInv == TInv /\ DInv /\ JInv /\ [Next]_vars => JInv'
  <1> SUFFICES ASSUME TInv, DInv, JInv, [Next]_vars PROVE JInv'
    OBVIOUS
  <1>0. fin \in [Finalizers -> FinState]
    BY DEF TInv, TypeOK
  <1>1. CASE UNCHANGED vars
    BY <1>1, QuietJInv DEF vars, dag, Pending, InDag
  <1>2. ASSUME NEW a \in Adders, AdderActs(a)
        PROVE  JInv'
    <2>1. UNCHANGED <<anchors, fin, final>> /\ (redeliveries' = 0 => redeliveries = 0)
      BY <1>2, AdderEvents
    <2>2. CASE UNCHANGED <<InDag, admitted>>
      BY <2>1, <2>2, QuietJInv DEF Pending
    <2>3. CASE /\ Write(a)
               /\ InDag' = InDag \cup {add[a].ev} /\ admitted' = admitted \cup {add[a].ev}
      <3>1. redeliveries = 0 => add[a].ev \notin admitted
        BY <2>3 DEF Write, DInv, Once
      <3> QED
        BY <2>1, <2>3, <3>1, QuietJInv DEF Pending
    <2> QED
      BY <1>2, <2>2, <2>3, AdderEvents
  <1>3. ASSUME NEW p \in Finalizers, FinalizerActs(p), fin[p].pc # "mark", UNCHANGED anchors,
               Pending' \subseteq Pending
        PROVE  JInv'
    <2>1. UNCHANGED <<admitted, redeliveries>>
      BY <1>3, FinalizerShrinks
    <2>2. \A q \in Finalizers : q # p => fin'[q] = fin[q]
      BY <1>0, <1>3 DEF FinalizerActs, Finalize, Mark, Collect, StoreEvents, StoreAnchor,
                        Abandon, FinalizeAgain, FillCache, Gc, Goto, EndFinalizer
    <2> QED
      BY <1>3, <2>1, <2>2, QuietJInv
  <1>4. ASSUME NEW p \in Finalizers,
               \/ Collect(p) \/ StoreEvents(p) \/ StoreAnchor(p) \/ Abandon(p)
               \/ FinalizeAgain(p) \/ (\E K \in SUBSET Events : FillCache(p, K))
        PROVE  /\ fin[p].pc # "mark" /\ UNCHANGED anchors /\ Pending' \subseteq Pending
    BY <1>4 DEF Collect, StoreEvents, StoreAnchor, Abandon, FinalizeAgain, FillCache, dag,
                Pending, InDag
  <1>5. ASSUME NEW p \in Finalizers, NEW R \in SUBSET InDag, Gc(p, R)
        PROVE  /\ fin[p].pc # "mark" /\ UNCHANGED anchors /\ Pending' \subseteq Pending
    BY <1>5 DEF Gc, Pending, InDag
  <1>6. ASSUME NEW p \in Finalizers, FinalizerActs(p)
        PROVE  JInv'
    BY <1>3, <1>4, <1>5, <1>6, FinalizeJInv, MarkJInv DEF FinalizerActs
  <1> QED
    BY <1>1, <1>2, <1>6, CatchUpJInv DEF Next, AdderActs, FinalizerActs

\* An event that is delivered once is finalized by one anchor only: it stops
\* being pending under the manager's lock, before another anchor can be built,
\* and neither GC nor an insertion makes it pending again.  For any number of
\* concurrent persisters.
THEOREM AnchorsDisjointHolds == Spec => []AnchorsDisjoint
  <1>1. JInv => AnchorsDisjoint
    BY DEF JInv
  <1>2. Init => JInv
    <2>1. Len(<<>>) = 0
      OBVIOUS
    <2> QED
      BY <2>1 DEF Init, JInv, Anchored, AnchorsDisjoint
  <1> QED
    BY <1>1, <1>2, InitDInv, NextDInv, NextJInv, TInvHolds, PTL DEF Spec

-----------------------------------------------------------------------------
(* GC leaves nothing behind, when one task persists at a time.             *)

\* The children index holds pairs of events of the DAG, parent and child.
Indexed ==
    \A e, c \in Events :
        <<e, c>> \in links => e \in InDag /\ c \in InDag /\ e \in Parents(c)

\* There is no cycle in it: every set of events has one without a child in it.
Acyclic ==
    \A S \in SUBSET InDag : S # {} => \E x \in S : ChildrenOf(x) \cap S = {}

\* The events of the anchor at work stay in the DAG and are marked first; the
\* anchor is stored by the step that says so and by no other.
Working ==
    \A p \in Finalizers :
        /\ fin[p].pc = "mark" => EventsOf(p) \subseteq InDag
        /\ fin[p].pc \notin {"idle", "mark"} => EventsOf(p) \subseteq final
        /\ fin[p].pc \in {"mark", "collect", "events", "anchor"}
            => fin[p].anchor \notin anchorStore

\* A finalized event that is neither given up nor being persisted has a child.
Held ==
    \A e \in final :
        \/ e \in Abandoned
        \/ \E p \in Finalizers : fin[p].pc # "idle" /\ e \in EventsOf(p)
        \/ ChildrenOf(e) # {}

GInv == Indexed /\ Acyclic /\ Working /\ Held

\* Initially the DAG is empty.
LEMMA InitGInv == Init => GInv
  <1> SUFFICES ASSUME Init PROVE GInv
    OBVIOUS
  <1>1. InDag = {} /\ final = {} /\ links = {}
    BY DEF Init, InDag, NoBatch
  <1>2. \A p \in Finalizers : fin[p].pc = "idle"
    BY DEF Init, IdleFinalizer
  <1> QED
    BY <1>1, <1>2 DEF GInv, Indexed, Acyclic, Working, Held

\* A new event is a leaf: it closes no cycle, and the events that had a child
\* keep it.
LEMMA WriteGInv ==
  ASSUME TInv, GInv, NEW a \in Adders, Write(a), add[a].ev \notin InDag
  PROVE  GInv'
  <1>0. PICK e \in Events : e = add[a].ev
    BY DEF TInv, TypeOK, AddState
  <1>1. /\ InDag' = InDag \cup {e}
        /\ UNCHANGED <<final, anchors, anchorStore, fin>>
    <2>1. depth' = [depth EXCEPT ![e] = add[a].depth] /\ add[a].depth # NoDepth
          /\ depth \in [Events -> Depths]
      BY <1>0 DEF Write, TInv, TypeOK, AddState, NoDepth
    <2>2. InDag' = InDag \cup {e}
      BY <2>1 DEF InDag
    <2> QED
      BY <2>2 DEF Write
  <1>2. links' = links \cup {<<q, e>> : q \in Parents(e) \cap InDag} /\ e \in Events
        /\ e \notin InDag
    BY <1>0 DEF Write
  <1>3. final \subseteq InDag /\ InDag \subseteq Events
    BY DEF TInv, TypeOK, InDag
  <1>4. \A x \in Events : ChildrenOf(x) \subseteq ChildrenOf(x)'
    BY <1>2 DEF ChildrenOf
  <1>5. \A x \in Events : ChildrenOf(x)' \subseteq ChildrenOf(x) \cup {e}
    BY <1>2 DEF ChildrenOf
  <1>6. ChildrenOf(e) = {} /\ ChildrenOf(e)' \subseteq {}
    <2>1. ChildrenOf(e) = {}
      BY <1>2 DEF ChildrenOf, GInv, Indexed
    <2>2. \A c \in Events : <<e, c>> \notin links'
      BY <1>2, <2>1 DEF ChildrenOf
    <2> QED
      BY <1>2, <2>1, <2>2 DEF ChildrenOf
  <1>7. Indexed'
    <2> SUFFICES ASSUME NEW x \in Events, NEW c \in Events, <<x, c>> \in links'
                 PROVE  x \in InDag' /\ c \in InDag' /\ x \in Parents(c)
      BY DEF Indexed, Parents
    <2>1. CASE <<x, c>> \in links
      BY <1>1, <2>1 DEF GInv, Indexed
    <2>2. CASE c = e /\ x \in Parents(e) \cap InDag
      BY <1>1, <2>2
    <2> QED
      BY <1>2, <2>1, <2>2
  <1>8. Acyclic'
    <2> SUFFICES ASSUME NEW S \in SUBSET InDag', S # {}
                 PROVE  \E x \in S : ChildrenOf(x)' \cap S = {}
      BY DEF Acyclic
    <2>1. CASE e \in S
      BY <1>6, <2>1
    <2>2. CASE e \notin S
      <3>1. S \in SUBSET InDag
        BY <1>1, <2>2
      <3>2. PICK x \in S : ChildrenOf(x) \cap S = {}
        BY <3>1 DEF GInv, Acyclic
      <3>3. x \in Events
        BY <1>3, <3>1
      <3>4. ChildrenOf(x)' \cap S = {}
        BY <1>5, <2>2, <3>2, <3>3
      <3> QED
        BY <3>4
    <2> QED
      BY <2>1, <2>2
  <1>9. Working'
    BY <1>1 DEF GInv, Working, EventsOf
  <1>10. Held'
    <2>1. Abandoned' = Abandoned
      BY <1>1 DEF Abandoned
    <2> QED
      BY <1>1, <1>3, <1>4, <2>1 DEF GInv, Held, EventsOf
  <1> QED
    BY <1>7, <1>8, <1>9, <1>10 DEF GInv

\* The steps that leave the DAG's events and links alone.
LEMMA StaticGraph ==
  ASSUME GInv, UNCHANGED <<depth, links>>
  PROVE  Indexed' /\ Acyclic' /\ \A e \in Events : ChildrenOf(e)' = ChildrenOf(e)
  BY DEF GInv, Indexed, Acyclic, InDag, ChildrenOf

\* A new anchor.
LEMMA FinalizeGInv ==
  ASSUME TInv, GInv, OneFinalizer, Grows, NEW p \in Finalizers,
         NEW E \in SUBSET Pending, NEW d \in 0 .. maxDepth, Finalize(p, E, d)
  PROVE  GInv'
  <1> DEFINE anchor == [events |-> E, depth |-> d]
             r == [IdleFinalizer EXCEPT !.pc = "mark", !.anchor = Len(anchors) + 1]
  <1>1. /\ UNCHANGED <<depth, links, final, anchorStore>>
        /\ fin[p].pc = "idle" /\ anchors' = Append(anchors, anchor)
        /\ fin' = [fin EXCEPT ![p] = r]
    BY DEF Finalize, dag
  <1>2. fin \in [Finalizers -> FinState] /\ anchorStore \subseteq 1 .. Len(anchors)
        /\ anchors \in Seq([events : SUBSET Events, depth : Nat]) /\ final \subseteq Events
    BY DEF TInv, TypeOK, InDag
  <1>3. r.pc = "mark" /\ r.anchor = Len(anchors) + 1 /\ anchor.events = E
    BY DEF IdleFinalizer
  <1> HIDE DEF r, anchor
  <1>4. \A q \in Finalizers : fin'[q] = r /\ fin[q].pc = "idle"
    BY <1>1, <1>2 DEF OneFinalizer
  <1>5. anchors'[Len(anchors) + 1] = anchor /\ Len(anchors) + 1 \notin anchorStore
    BY <1>1, <1>2
  <1>6. InDag' = InDag /\ E \subseteq InDag
    BY <1>1 DEF InDag, Pending
  <1>7. Working'
    BY <1>1, <1>3, <1>4, <1>5, <1>6 DEF Working, EventsOf
  <1>8. Held'
    <2> SUFFICES ASSUME NEW e \in final
                 PROVE  e \in Abandoned' \/ ChildrenOf(e)' # {}
      BY <1>1 DEF Held
    <2> QED
      BY <1>1, <1>2, <1>4, StaticGraph DEF GInv, Held, Grows
  <1> QED
    BY <1>1, <1>7, <1>8, StaticGraph DEF GInv

\* The finalizer goes on with its anchor.
LEMMA GoOnGInv ==
  ASSUME TInv, GInv, OneFinalizer, Grows, NEW p \in Finalizers,
         fin[p].pc # "idle", UNCHANGED <<depth, links, anchors>>,
         NEW r \in FinState, fin' = [fin EXCEPT ![p] = r],
         r.anchor = fin[p].anchor, r.pc \notin {"idle", "mark"},
         \/ final' = final \cup (EventsOf(p) \cap InDag)
         \/ UNCHANGED final /\ fin[p].pc # "mark",
         \/ UNCHANGED anchorStore /\ (r.pc \in {"collect", "events", "anchor"} =>
                                        fin[p].pc \in {"mark", "collect", "events", "anchor"})
         \/ r.pc \notin {"collect", "events", "anchor"}
  PROVE  GInv'
  <1>1. fin \in [Finalizers -> FinState] /\ final \subseteq InDag /\ InDag \subseteq Events
    BY DEF TInv, TypeOK, InDag
  <1>2. \A q \in Finalizers : q = p /\ fin'[q] = r
    BY <1>1 DEF OneFinalizer
  <1>3. EventsOf(p)' = EventsOf(p)
    BY <1>2 DEF EventsOf
  <1>4. final \subseteq final' /\ final' \subseteq final \cup EventsOf(p) /\ final' \subseteq Events
    BY <1>1
  <1>5. EventsOf(p) \subseteq final'
    BY <1>1 DEF GInv, Working
  <1>6. Working'
    BY <1>2, <1>3, <1>5 DEF GInv, Working
  <1>7. Held'
    <2> SUFFICES ASSUME NEW e \in final', e \notin EventsOf(p)
                 PROVE  e \in Abandoned' \/ ChildrenOf(e)' # {}
      BY <1>2, <1>3 DEF Held
    <2>1. e \in final /\ e \in Events
      BY <1>1, <1>4
    <2>2. e \in Abandoned \/ ChildrenOf(e) # {}
      BY <1>2, <2>1 DEF GInv, Held
    <2> QED
      BY <2>1, <2>2, StaticGraph DEF Grows
  <1> QED
    BY <1>6, <1>7, StaticGraph DEF GInv

\* The attempt to persist is given up before the anchor is stored.
LEMMA EndGInv ==
  ASSUME TInv, GInv, OneFinalizer, Grows, NEW p \in Finalizers,
         fin[p].pc \in {"collect", "events", "anchor"}, EndFinalizer(p),
         UNCHANGED <<depth, links, final, anchors, anchorStore>>
  PROVE  GInv'
  <1>1. fin \in [Finalizers -> FinState] /\ final \subseteq Events
        /\ fin[p].anchor \in 1 .. Len(anchors)
    BY DEF TInv, TypeOK, InDag, AtWork
  <1>2. \A q \in Finalizers : q = p /\ fin'[q].pc = "idle" /\ fin'[q].anchor = 0
    BY <1>1 DEF OneFinalizer, EndFinalizer, IdleFinalizer
  <1>3. fin[p].anchor \notin anchorStore
    BY DEF GInv, Working
  <1>4. EventsOf(p) \subseteq Abandoned'
    <2>1. fin[p].anchor \notin {fin'[q].anchor : q \in Finalizers}
      BY <1>1, <1>2
    <2> QED
      BY <1>1, <1>3, <2>1 DEF Abandoned, EventsOf
  <1>5. Held'
    <2> SUFFICES ASSUME NEW e \in final
                 PROVE  e \in Abandoned' \/ ChildrenOf(e)' # {}
      BY DEF Held
    <2>1. e \in Abandoned \/ e \in EventsOf(p) \/ ChildrenOf(e) # {}
      BY <1>2 DEF GInv, Held
    <2> QED
      BY <1>1, <1>4, <2>1, StaticGraph DEF Grows
  <1>6. Working'
    BY <1>2 DEF Working
  <1> QED
    BY <1>5, <1>6, StaticGraph DEF GInv

\* The cascade: an event of the anchor that stays has a pending child, which
\* stays too; another finalized event that stays keeps one of its children,
\* for otherwise the removal of the last one would have reached it.
LEMMA GcGInv ==
  ASSUME TInv, GInv, OneFinalizer, Grows, NEW p \in Finalizers,
         NEW R \in SUBSET InDag, Gc(p, R)
  PROVE  GInv'
  <1> DEFINE T == EventsOf(p)
  <1>1. /\ fin[p].pc = "gc" /\ EndFinalizer(p) /\ final' = final \ R
        /\ depth' = [e \in Events |-> IF e \in R THEN NoDepth ELSE depth[e]]
        /\ links' = {l \in links : l[1] \notin R /\ l[2] \notin R}
        /\ UNCHANGED <<anchors, anchorStore>> /\ Cascades(R, T)
    BY DEF Gc
  <1>2. fin \in [Finalizers -> FinState] /\ final \subseteq InDag /\ InDag \subseteq Events
        /\ links \subseteq Events \X Events
    BY DEF TInv, TypeOK, InDag
  <1>3. \A q \in Finalizers : q = p /\ fin'[q].pc = "idle"
    BY <1>1, <1>2 DEF OneFinalizer, EndFinalizer, IdleFinalizer
  <1>4. T \subseteq final
    BY <1>1 DEF GInv, Working
  <1>5. R \subseteq final
    <2>1. R \subseteq T \cup final
      BY CascadeRemovesFinal DEF Gc
    <2> QED
      BY <1>4, <2>1
  <1>6. InDag' = InDag \ R
    BY <1>1, <1>2 DEF InDag
  <1>7. \A e, c \in Events : <<e, c>> \in links' <=> <<e, c>> \in links /\ e \notin R /\ c \notin R
    BY <1>1
  <1>8. \A e \in Events : e \notin R => ChildrenOf(e)' = ChildrenOf(e) \ R
    BY <1>7 DEF ChildrenOf
  <1>9. \A e \in Events : ChildrenOf(e)' \subseteq ChildrenOf(e)
    BY <1>7 DEF ChildrenOf
  <1>10. Indexed'
    BY <1>6, <1>7 DEF GInv, Indexed, Parents
  <1>11. Acyclic'
    <2> SUFFICES ASSUME NEW S \in SUBSET InDag', S # {}
                 PROVE  \E x \in S : ChildrenOf(x)' \cap S = {}
      BY DEF Acyclic
    <2>1. S \in SUBSET InDag
      BY <1>6
    <2>2. PICK x \in S : ChildrenOf(x) \cap S = {}
      BY <2>1 DEF GInv, Acyclic
    <2>3. x \in Events
      BY <1>2, <2>1
    <2> QED
      BY <1>9, <2>2, <2>3
  <1>12. Working'
    BY <1>3 DEF Working
  <1>13. Held'
    <2> SUFFICES ASSUME NEW e \in final, e \notin R
                 PROVE  e \in Abandoned' \/ ChildrenOf(e)' # {}
      BY <1>1 DEF Held
    <2>0. e \in InDag /\ e \in Events
      BY <1>2
    <2>1. CASE e \in T
      <3>1. HasActiveChildren(e)
        BY <1>1, <2>0, <2>1 DEF Cascades
      <3>2. PICK c \in ChildrenOf(e) : c \in Pending
        BY <3>1 DEF HasActiveChildren
      <3>3. c \notin R
        BY <1>5, <3>2 DEF Pending
      <3> QED
        BY <1>8, <2>0, <3>2, <3>3
    <2>2. CASE e \notin T /\ e \in Abandoned
      BY <2>2 DEF Grows
    <2>3. CASE e \notin T /\ e \notin Abandoned
      <3>1. PICK c : c \in ChildrenOf(e)
        BY <1>3, <2>3 DEF GInv, Held
      <3>2. c \in Events /\ e \in Parents(c)
        BY <2>0, <3>1 DEF ChildrenOf, GInv, Indexed
      <3>3. CASE ChildrenOf(e) \subseteq R
        <4>1. ~HasActiveChildren(e)
          BY <1>5, <3>3 DEF HasActiveChildren, Pending
        <4>2. c \in R
          BY <3>1, <3>3
        <4> QED
          BY <1>1, <3>2, <4>1, <4>2 DEF Cascades
      <3>4. CASE ~(ChildrenOf(e) \subseteq R)
        BY <1>8, <2>0, <3>4
      <3> QED
        BY <3>3, <3>4
    <2> QED
      BY <2>1, <2>2, <2>3
  <1> QED
    BY <1>10, <1>11, <1>12, <1>13 DEF GInv

\* Every step of a finalizer.
LEMMA FinalizerGInv ==
  ASSUME TInv, GInv, OneFinalizer, Grows, NEW p \in Finalizers, FinalizerActs(p)
  PROVE  GInv'
  <1>1. fin[p] \in FinState /\ fin \in [Finalizers -> FinState]
    BY DEF TInv, TypeOK
  <1>2. ASSUME NEW next \in {"collect", "finalize", "cache", "gc"},
               fin[p].pc # "idle", Goto(p, next), UNCHANGED <<depth, links, anchors>>,
               \/ final' = final \cup (EventsOf(p) \cap InDag)
               \/ UNCHANGED final /\ fin[p].pc # "mark",
               next = "collect" => UNCHANGED anchorStore /\ fin[p].pc = "mark"
        PROVE  GInv'
    <2> DEFINE r == [fin[p] EXCEPT !.pc = next]
    <2>1. r \in FinState /\ r.anchor = fin[p].anchor /\ r.pc = next
      BY <1>1 DEF FinState
    <2>2. fin' = [fin EXCEPT ![p] = r]
      BY <1>1, <1>2 DEF Goto
    <2> HIDE DEF r
    <2> QED
      BY <1>2, <2>1, <2>2, GoOnGInv
  <1>3. CASE Mark(p)
    BY <1>2, <1>3 DEF Mark
  <1>4. CASE StoreAnchor(p)
    BY <1>2, <1>4 DEF StoreAnchor, dag
  <1>5. CASE FinalizeAgain(p)
    BY <1>2, <1>5 DEF FinalizeAgain
  <1>6. ASSUME NEW K \in SUBSET Events, FillCache(p, K)
        PROVE  GInv'
    BY <1>2, <1>6 DEF FillCache, dag
  <1>7. CASE Collect(p) /\ ~EndFinalizer(p)
    <2> DEFINE B == [e \in Events |-> IF e \in EventsOf(p) THEN depth[e] ELSE NoDepth]
               r == [fin[p] EXCEPT !.pc = "events", !.batch = B]
    <2>1. B \in [Events -> Depths]
      BY DEF TInv, TypeOK, Depths
    <2>2. /\ fin[p].pc = "collect" /\ fin' = [fin EXCEPT ![p] = r]
          /\ UNCHANGED <<depth, links, final, anchors, anchorStore>>
      BY <1>1, <1>7 DEF Collect, dag
    <2> HIDE DEF B
    <2>3. r \in FinState /\ r.anchor = fin[p].anchor /\ r.pc = "events"
      BY <1>1, <2>1 DEF FinState
    <2> HIDE DEF r
    <2> QED
      BY <2>2, <2>3, GoOnGInv
  <1>8. CASE StoreEvents(p)
    <2> DEFINE r == [fin[p] EXCEPT !.pc = "anchor", !.batch = NoBatch]
    <2>1. /\ fin[p].pc = "events" /\ fin' = [fin EXCEPT ![p] = r]
          /\ UNCHANGED <<depth, links, final, anchors, anchorStore>>
      BY <1>1, <1>8 DEF StoreEvents, dag
    <2>2. NoBatch \in [Events -> Depths]
      BY DEF NoBatch, Depths
    <2>3. r \in FinState /\ r.anchor = fin[p].anchor /\ r.pc = "anchor"
      BY <1>1, <2>2 DEF FinState
    <2> HIDE DEF r
    <2> QED
      BY <2>1, <2>3, GoOnGInv
  <1>9. CASE (Collect(p) /\ EndFinalizer(p)) \/ Abandon(p)
    <2>1. /\ fin[p].pc \in {"collect", "events", "anchor"} /\ EndFinalizer(p)
          /\ UNCHANGED <<depth, links, final, anchors, anchorStore>>
      BY <1>9 DEF Collect, Abandon, dag
    <2> QED
      BY <2>1, EndGInv
  <1> QED
    BY <1>3, <1>4, <1>5, <1>6, <1>7, <1>8, <1>9, FinalizeGInv, GcGInv DEF FinalizerActs

\* A catch-up leaves the graph alone, and what it marks is given up.
LEMMA CatchUpGInv ==
  ASSUME TInv, AInv, GInv, CatchUpActs
  PROVE  GInv'
  <1>1. PICK E \in SUBSET Pending, d \in 0 .. maxDepth : CatchUp(E, d)
    BY DEF CatchUpActs
  <1>2. /\ UNCHANGED <<depth, links, anchorStore, fin>> /\ InDag' = InDag
        /\ final' = final \cup E /\ InDag \subseteq Events
        /\ \A q \in Finalizers : fin[q].pc # "idle" => EventsOf(q)' = EventsOf(q)
    BY <1>1, CatchUpEffect DEF InDag
  <1>3. Abandoned' = Abandoned \cup E
    BY <1>1, CatchUpGivesUp
  <1>4. Working'
    BY <1>2 DEF GInv, Working
  <1>5. Held'
    <2> SUFFICES ASSUME NEW e \in final, e \notin Abandoned'
                 PROVE  \/ \E p \in Finalizers : fin'[p].pc # "idle" /\ e \in EventsOf(p)'
                        \/ ChildrenOf(e)' # {}
      BY <1>2, <1>3 DEF Held
    <2>1. e \in Events /\ e \notin Abandoned
      BY <1>2, <1>3 DEF TInv, TypeOK
    <2>2. CASE \E p \in Finalizers : fin[p].pc # "idle" /\ e \in EventsOf(p)
      BY <1>2, <2>2
    <2>3. CASE ChildrenOf(e) # {}
      BY <1>2, <2>1, <2>3, StaticGraph
    <2> QED
      BY <2>1, <2>2, <2>3 DEF GInv, Held
  <1> QED
    BY <1>2, <1>4, <1>5, StaticGraph DEF GInv

\* Every step keeps it.
LEMMA NextGInv ==
  ASSUME OneFinalizer
  PROVE  TInv /\ AInv /\ LInv /\ GInv /\ [Next]_vars => GInv'
  <1> SUFFICES ASSUME TInv, AInv, LInv, GInv, [Next]_vars PROVE GInv'
    OBVIOUS
  <1>1. Grows
    BY NextLInv
  <1>2. CASE UNCHANGED <<depth, links, final, anchors, anchorStore, fin>>
    <2>1. Abandoned' = Abandoned /\ InDag' = InDag
      BY <1>2 DEF Abandoned, InDag
    <2>2. Held'
      BY <1>2, <2>1 DEF GInv, Held, EventsOf, ChildrenOf
    <2>3. Working'
      BY <1>2, <2>1 DEF GInv, Working, EventsOf
    <2> QED
      BY <1>2, <2>2, <2>3, StaticGraph DEF GInv
  <1>3. ASSUME NEW a \in Adders, AdderActs(a)
        PROVE  GInv'
    BY <1>2, <1>3, AdderEvents, WriteGInv
  <1> QED
    BY <1>1, <1>2, <1>3, FinalizerGInv, CatchUpGInv
       DEF Next, AdderActs, FinalizerActs, CatchUpActs, vars, dag

\* The invariants of one persisting task together.
LEMMA GInvHolds ==
  ASSUME OneFinalizer
  PROVE  Spec => [](TInv /\ GInv)
  <1>1. Init => LInv /\ GInv
    BY InitLInv, InitGInv
  <1>2. TInv /\ AInv /\ LInv /\ GInv /\ [Next]_vars => LInv' /\ GInv'
    BY NextLInv, NextGInv
  <1> QED
    BY <1>1, <1>2, AInvHolds, PTL DEF Spec

\* GC strands nothing: with one persisting task at rest, a finalized event is
\* kept in memory only for a pending or given-up descendant, for any DAG and
\* any order in which its events were inserted, finalized and removed.
THEOREM NoStrandedHolds ==
  ASSUME OneFinalizer
  PROVE  Spec => []NoStranded
  <1>1. TInv /\ GInv => NoStranded
    <2> SUFFICES ASSUME TInv, GInv, \A p \in Finalizers : fin[p].pc = "idle",
                        NEW e \in final, NEW S \in SUBSET InDag, e \in S,
                        \A x \in S : ChildrenOf(x) \subseteq S,
                        S \cap (Pending \cup Abandoned) = {}
                 PROVE  FALSE
      BY DEF NoStranded
    <2>1. PICK x \in S : ChildrenOf(x) \cap S = {}
      BY DEF GInv, Acyclic
    <2>2. x \in final /\ x \notin Abandoned
      BY DEF Pending
    <2>3. ChildrenOf(x) # {}
      BY <2>2 DEF GInv, Held
    <2> QED
      BY <2>1, <2>3
  <1> QED
    BY <1>1, GInvHolds, PTL

\* With one persisting task the events of a finalized anchor do "remain in
\* DAG.events for persistence", as engine.rs says; MC_SingleNode.cfg shows
\* that two tasks break it.
THEOREM RemainHolds ==
  ASSUME OneFinalizer
  PROVE  Spec => []RemainForPersistence
  <1>1. TInv /\ GInv => RemainForPersistence
    BY DEF TInv, TypeOK, GInv, Working, RemainForPersistence
  <1> QED
    BY <1>1, GInvHolds, PTL

-----------------------------------------------------------------------------
(* DagManager implements EventArchive, when one task persists at a time.   *)

\* The events the validator answers for.
Kept == InDag \cup Stored \cup Abandoned

\* Until the anchor at work is stored, everything that is stored was made before
\* it; and only its events are collected.
Ahead ==
    \A p \in Finalizers :
        /\ fin[p].pc \in {"mark", "collect", "events", "anchor"} =>
             \A j \in anchorStore : j < fin[p].anchor
        /\ fin[p].pc = "events" =>
             \A e \in Events : fin[p].batch[e] # NoDepth => e \in EventsOf(p)

\* A finalizer that goes on, or ends, with its anchor.
LEMMA MoveAhead ==
  ASSUME TInv, Ahead, OneFinalizer, NEW p \in Finalizers,
         NEW r \in FinState, fin' = [fin EXCEPT ![p] = r], UNCHANGED anchors,
         \/ r.pc \notin {"mark", "collect", "events", "anchor"}
         \/ /\ fin[p].pc \in {"mark", "collect", "events", "anchor"}
            /\ UNCHANGED anchorStore /\ r.anchor = fin[p].anchor
            /\ r.pc = "events" =>
                 \A e \in Events : r.batch[e] # NoDepth => e \in EventsOf(p)
  PROVE  Ahead'
  <1>1. \A q \in Finalizers : q = p /\ fin'[q] = r
    BY DEF OneFinalizer, TInv, TypeOK
  <1>2. CASE r.pc \notin {"mark", "collect", "events", "anchor"}
    BY <1>1, <1>2 DEF Ahead
  <1>3. CASE /\ fin[p].pc \in {"mark", "collect", "events", "anchor"}
             /\ UNCHANGED anchorStore /\ r.anchor = fin[p].anchor
             /\ r.pc = "events" =>
                  \A e \in Events : r.batch[e] # NoDepth => e \in EventsOf(p)
    <2>1. \A j \in anchorStore : j < r.anchor
      BY <1>3 DEF Ahead
    <2>2. EventsOf(p)' = EventsOf(p)
      BY <1>1, <1>3 DEF EventsOf
    <2> QED
      BY <1>1, <1>3, <2>1, <2>2 DEF Ahead
  <1> QED
    BY <1>2, <1>3

\* Every step of a finalizer keeps it.
LEMMA FinalizerAhead ==
  ASSUME TInv, Ahead, OneFinalizer, NEW p \in Finalizers, FinalizerActs(p)
  PROVE  Ahead'
  <1>0. fin[p] \in FinState /\ fin \in [Finalizers -> FinState]
    BY DEF TInv, TypeOK
  <1>1. ASSUME NEW next \in {"collect", "finalize", "cache", "gc"},
               Goto(p, next), UNCHANGED anchors,
               next = "collect" => fin[p].pc = "mark" /\ UNCHANGED anchorStore
        PROVE  Ahead'
    <2> DEFINE r == [fin[p] EXCEPT !.pc = next]
    <2>1. r \in FinState /\ r.anchor = fin[p].anchor /\ r.pc = next
      BY <1>0, <1>1 DEF FinState
    <2>2. fin' = [fin EXCEPT ![p] = r]
      BY <1>0, <1>1 DEF Goto
    <2> HIDE DEF r
    <2> QED
      BY <1>1, <2>1, <2>2, MoveAhead
  <1>2. ASSUME EndFinalizer(p), UNCHANGED anchors PROVE Ahead'
    BY <1>2, IdleTypes, MoveAhead DEF EndFinalizer, IdleFinalizer
  <1>3. CASE Mark(p) \/ StoreAnchor(p) \/ FinalizeAgain(p)
    BY <1>1, <1>3 DEF Mark, StoreAnchor, FinalizeAgain
  <1>4. ASSUME NEW K \in SUBSET Events, FillCache(p, K) PROVE Ahead'
    BY <1>1, <1>4 DEF FillCache
  <1>5. CASE Abandon(p)
    BY <1>2, <1>5 DEF Abandon
  <1>6. ASSUME NEW R \in SUBSET InDag, Gc(p, R) PROVE Ahead'
    BY <1>2, <1>6 DEF Gc
  <1>7. CASE StoreEvents(p)
    <2> DEFINE r == [fin[p] EXCEPT !.pc = "anchor", !.batch = NoBatch]
    <2>1. /\ fin[p].pc = "events" /\ fin' = [fin EXCEPT ![p] = r]
          /\ UNCHANGED <<anchors, anchorStore>>
      BY <1>0, <1>7 DEF StoreEvents
    <2>2. NoBatch \in [Events -> Depths]
      BY DEF NoBatch, Depths
    <2>3. r \in FinState /\ r.anchor = fin[p].anchor /\ r.pc = "anchor"
      BY <1>0, <2>2 DEF FinState
    <2> HIDE DEF r
    <2> QED
      BY <2>1, <2>3, MoveAhead
  <1>8. CASE Collect(p)
    <2>1. CASE EndFinalizer(p)
      BY <1>2, <1>8, <2>1 DEF Collect
    <2>2. CASE ~EndFinalizer(p)
      <3> DEFINE B == [e \in Events |-> IF e \in EventsOf(p) THEN depth[e] ELSE NoDepth]
                 r == [fin[p] EXCEPT !.pc = "events", !.batch = B]
      <3>1. B \in [Events -> Depths] /\ \A e \in Events : B[e] # NoDepth => e \in EventsOf(p)
        BY DEF TInv, TypeOK, Depths
      <3>2. /\ fin[p].pc = "collect" /\ fin' = [fin EXCEPT ![p] = r]
            /\ UNCHANGED <<anchors, anchorStore>>
        BY <1>0, <1>8, <2>2 DEF Collect
      <3> HIDE DEF B
      <3>3. r \in FinState /\ r.anchor = fin[p].anchor /\ r.pc = "events" /\ r.batch = B
        BY <1>0, <3>1 DEF FinState
      <3> HIDE DEF r
      <3> QED
        BY <3>1, <3>2, <3>3, MoveAhead
    <2> QED
      BY <2>1, <2>2
  <1>9. ASSUME NEW E \in SUBSET Pending, NEW d \in 0 .. maxDepth, Finalize(p, E, d)
        PROVE  Ahead'
    <2> DEFINE r == [IdleFinalizer EXCEPT !.pc = "mark", !.anchor = Len(anchors) + 1]
    <2>1. fin' = [fin EXCEPT ![p] = r] /\ UNCHANGED anchorStore
      BY <1>9 DEF Finalize
    <2>2. r.pc = "mark" /\ r.anchor = Len(anchors) + 1
      BY DEF IdleFinalizer
    <2> HIDE DEF r
    <2>3. \A q \in Finalizers : fin'[q] = r
      BY <1>0, <2>1 DEF OneFinalizer
    <2>4. \A j \in anchorStore : j < Len(anchors) + 1
      BY DEF TInv, TypeOK
    <2> QED
      BY <2>1, <2>2, <2>3, <2>4 DEF Ahead
  <1> QED
    BY <1>3, <1>4, <1>5, <1>6, <1>7, <1>8, <1>9 DEF FinalizerActs

\* Every step keeps it.
LEMMA NextAhead ==
  ASSUME OneFinalizer
  PROVE  TInv /\ Ahead /\ [Next]_vars => Ahead'
  <1> SUFFICES ASSUME TInv, Ahead, [Next]_vars PROVE Ahead'
    OBVIOUS
  <1>1. CASE UNCHANGED <<anchors, anchorStore, fin>>
    BY <1>1 DEF Ahead, EventsOf
  <1>2. ASSUME NEW a \in Adders, AdderActs(a) PROVE Ahead'
    BY <1>1, <1>2, AdderEvents
  <1>3. ASSUME NEW E \in SUBSET Pending, NEW d \in 0 .. maxDepth, CatchUp(E, d)
        PROVE  Ahead'
    <2>1. /\ UNCHANGED <<anchorStore, fin>>
          /\ \A q \in Finalizers : fin[q].pc # "idle" => EventsOf(q)' = EventsOf(q)
      BY <1>3, CatchUpEffect
    <2> QED
      BY <2>1 DEF Ahead
  <1> QED
    BY <1>1, <1>2, <1>3, FinalizerAhead DEF Next, AdderActs, FinalizerActs, vars

\* The events of the anchor at work are in the DAG.
LEMMA WorkInDag ==
  ASSUME TInv, GInv, NEW p \in Finalizers, fin[p].pc # "idle"
  PROVE  EventsOf(p) \subseteq InDag
  BY DEF TInv, TypeOK, GInv, Working

\* A finalizer that works on its anchor moves events, and keeps them all.
LEMMA KeptSame ==
  ASSUME TInv, GInv, OneFinalizer, Grows, NEW p \in Finalizers, fin[p].pc # "idle",
         UNCHANGED anchors, anchorStore \subseteq anchorStore', InDag' \subseteq InDag,
         Stored' \subseteq Stored \cup EventsOf(p)
  PROVE  Kept' = Kept
  <1>1. EventsOf(p) \subseteq InDag
    BY WorkInDag
  <1>2. \A q \in Finalizers : q = p
    BY DEF OneFinalizer
  <1>3. GivenUp' \subseteq GivenUp \cup {fin[p].anchor}
    BY <1>2 DEF GivenUp
  <1>4. Abandoned' \subseteq Abandoned \cup EventsOf(p)
    BY <1>3 DEF Abandoned, GivenUp, EventsOf
  <1>5. Kept' \subseteq Kept
    BY <1>1, <1>4 DEF Kept
  <1>6. Kept \subseteq Kept'
    BY DEF Kept, Grows
  <1> QED
    BY <1>5, <1>6

\* An event that is inserted is admitted to the archive.
LEMMA AdderArchive ==
  ASSUME TInv, NEW a \in Adders, AdderActs(a)
  PROVE  \/ \E e \in Events : Archive!Admit(e)
         \/ UNCHANGED <<Kept, Stored, anchors, anchorStore>>
  <1>1. UNCHANGED <<stored, anchors, anchorStore, fin>>
    BY AdderEvents
  <1>2. Stored' = Stored /\ Abandoned' = Abandoned
    BY <1>1 DEF Stored, Abandoned
  <1>3. CASE UNCHANGED InDag
    BY <1>1, <1>2, <1>3 DEF Kept
  <1>4. CASE InDag' = InDag \cup {add[a].ev}
    <2>1. PICK e \in Events : e = add[a].ev
      BY DEF TInv, TypeOK, AddState
    <2>2. Kept' = Kept \cup {e}
      BY <1>2, <1>4, <2>1 DEF Kept
    <2>3. Archive!Admit(e)
      BY <1>1, <1>2, <2>2 DEF Archive!Admit, Kept
    <2> QED
      BY <2>3
  <1> QED
    BY <1>3, <1>4, AdderEvents

\* A finalized CF is an anchor made of kept events.
LEMMA FinalizeArchive ==
  ASSUME TInv, AInv, OneFinalizer, NEW p \in Finalizers,
         NEW E \in SUBSET Pending, NEW d \in 0 .. maxDepth, Finalize(p, E, d)
  PROVE  Archive!MakeAnchor
  <1> DEFINE f == [events |-> E, depth |-> d]
  <1>1. /\ UNCHANGED <<depth, stored, anchorStore>> /\ E # {}
        /\ fin[p].pc = "idle" /\ anchors' = Append(anchors, f)
        /\ fin' = [fin EXCEPT ![p] = [IdleFinalizer EXCEPT !.pc = "mark",
                                                           !.anchor = Len(anchors) + 1]]
    BY DEF Finalize, dag
  <1>2. /\ fin \in [Finalizers -> FinState] /\ fin[p].anchor = 0
        /\ anchors \in Seq([events : SUBSET Events, depth : Nat])
        /\ anchorStore \subseteq 1 .. Len(anchors)
    BY <1>1 DEF TInv, TypeOK, AInv, IdleHasNone
  <1>3. f.events = E
    OBVIOUS
  <1> HIDE DEF f
  <1>4. /\ Len(anchors) \in Nat /\ Len(anchors') = Len(anchors) + 1
        /\ \A i \in 1 .. Len(anchors) : anchors'[i] = anchors[i]
        /\ anchors'[Len(anchors) + 1] = f
    BY <1>1, <1>2
  <1>5. \A q \in Finalizers : q = p /\ fin'[q].anchor = Len(anchors) + 1 /\ fin[q].anchor = 0
    BY <1>1, <1>2 DEF IdleFinalizer, OneFinalizer
  <1>6. GivenUp' = GivenUp /\ GivenUp \subseteq 1 .. Len(anchors)
    <2>1. GivenUp = (1 .. Len(anchors)) \ anchorStore
      BY <1>4, <1>5 DEF GivenUp
    <2>2. GivenUp' = (1 .. Len(anchors)) \ anchorStore
      BY <1>1, <1>4, <1>5 DEF GivenUp
    <2> QED
      BY <2>1, <2>2
  <1>7. Abandoned' = Abandoned
    <2>1. Abandoned = UNION {anchors[i].events : i \in GivenUp}
      BY DEF Abandoned, GivenUp
    <2>2. Abandoned' = UNION {anchors'[i].events : i \in GivenUp'}
      BY DEF Abandoned, GivenUp
    <2> QED
      BY <1>4, <1>6, <2>1, <2>2
  <1>8. Stored' = Stored /\ InDag' = InDag /\ E \subseteq InDag
    BY <1>1 DEF Stored, InDag, Pending
  <1>9. Kept' = Kept /\ E \subseteq Kept
    BY <1>7, <1>8 DEF Kept
  <1> QED
    BY <1>1, <1>3, <1>4, <1>8, <1>9 DEF Archive!MakeAnchor, Kept

\* A catch-up makes an anchor too.
LEMMA CatchUpArchive ==
  ASSUME TInv, AInv, NEW E \in SUBSET Pending, NEW d \in 0 .. maxDepth, CatchUp(E, d)
  PROVE  Archive!MakeAnchor
  <1>1. /\ UNCHANGED anchorStore /\ InDag' = InDag /\ Stored' = Stored
        /\ E \subseteq InDag /\ E # {}
        /\ Len(anchors') = Len(anchors) + 1
        /\ anchors' = Append(anchors, anchors'[Len(anchors) + 1])
        /\ anchors'[Len(anchors) + 1].events = E
    BY CatchUpEffect
  <1>2. Abandoned' = Abandoned \cup E
    BY CatchUpGivesUp
  <1>3. Kept' = Kept /\ E \subseteq Kept
    BY <1>1, <1>2 DEF Kept
  <1> QED
    BY <1>1, <1>3 DEF Archive!MakeAnchor, Kept

\* The events of the anchor are stored together.
LEMMA StoreEventsArchive ==
  ASSUME TInv, AInv, GInv, Ahead, OneFinalizer, Grows, NEW p \in Finalizers, StoreEvents(p)
  PROVE  \E i \in 1 .. Len(anchors) : Archive!SaveEvents(i)
  <1> DEFINE i == fin[p].anchor
  <1>1. /\ fin[p].pc = "events" /\ UNCHANGED <<depth, anchors, anchorStore>>
        /\ stored' = [e \in Events |-> IF fin[p].batch[e] # NoDepth
                                       THEN fin[p].batch[e] ELSE stored[e]]
    BY DEF StoreEvents, dag
  <1>2. i \in 1 .. Len(anchors) /\ \A j \in anchorStore : j < i
    BY <1>1 DEF Ahead, TInv, AtWork
  <1>3. EventsOf(p) \subseteq InDag /\ InDag \subseteq Events
    BY <1>1, WorkInDag DEF InDag
  <1>4. \A e \in Events : fin[p].batch[e] # NoDepth <=> e \in EventsOf(p)
    BY <1>1, <1>3 DEF AInv, BatchCovers, Ahead
  <1>5. Stored' = Stored \cup EventsOf(p)
    BY <1>1, <1>3, <1>4 DEF Stored
  <1>6. Kept' = Kept
    <2>1. InDag' \subseteq InDag
      BY <1>1 DEF InDag
    <2> QED
      BY <1>1, <1>5, <2>1, KeptSame
  <1>7. Archive!SaveEvents(i)
    BY <1>1, <1>2, <1>5, <1>6 DEF Archive!SaveEvents, Archive!Open, EventsOf, Kept
  <1> QED
    BY <1>2, <1>7

\* Storing the anchor seals it.
LEMMA StoreAnchorArchive ==
  ASSUME TInv, AInv, GInv, Ahead, OneFinalizer, Grows, NEW p \in Finalizers, StoreAnchor(p)
  PROVE  \E i \in 1 .. Len(anchors) : Archive!Seal(i)
  <1> DEFINE i == fin[p].anchor
  <1>1. /\ fin[p].pc = "anchor" /\ UNCHANGED <<depth, anchors, stored>>
        /\ anchorStore' = anchorStore \cup {i}
    BY DEF StoreAnchor, dag
  <1>2. i \in 1 .. Len(anchors) /\ \A j \in anchorStore : j < i
    BY <1>1 DEF Ahead, TInv, AtWork
  <1>3. EventsOf(p) \subseteq Stored
    BY <1>1 DEF AInv, BatchCovers
  <1>4. Stored' = Stored /\ InDag' = InDag
    BY <1>1 DEF Stored, InDag
  <1>5. Kept' = Kept
    BY <1>1, <1>4, KeptSame
  <1>6. Archive!Seal(i)
    BY <1>1, <1>2, <1>3, <1>4, <1>5 DEF Archive!Seal, Archive!Open, EventsOf, Kept
  <1> QED
    BY <1>2, <1>6

\* The other steps of a finalizer do not show.
LEMMA RestArchive ==
  ASSUME TInv, GInv, OneFinalizer, Grows, NEW p \in Finalizers,
         \/ Mark(p) \/ Collect(p) \/ Abandon(p) \/ FinalizeAgain(p)
         \/ \E K \in SUBSET Events : FillCache(p, K)
         \/ \E R \in SUBSET InDag : Gc(p, R)
  PROVE  UNCHANGED <<Kept, Stored, anchors, anchorStore>>
  <1>1. fin[p].pc # "idle" /\ UNCHANGED <<stored, anchors, anchorStore>>
    BY DEF Mark, Collect, Abandon, FinalizeAgain, FillCache, Gc
  <1>2. InDag' \subseteq InDag
    BY FinalizerShrinks DEF FinalizerActs
  <1>3. Stored' = Stored
    BY <1>1 DEF Stored
  <1>4. Kept' = Kept
    BY <1>1, <1>2, <1>3, KeptSame
  <1> QED
    BY <1>1, <1>3, <1>4

\* Every step is a step of the archive or none.
LEMMA StepArchive ==
  ASSUME OneFinalizer
  PROVE  TInv /\ AInv /\ LInv /\ GInv /\ Ahead /\ [Next]_vars
           => [Archive!Next]_(Archive!archiveVars)
  <1> SUFFICES ASSUME TInv, AInv, LInv, GInv, Ahead, [Next]_vars
               PROVE  Archive!Next \/ UNCHANGED <<Kept, Stored, anchors, anchorStore>>
    BY DEF Archive!archiveVars, Kept
  <1>0. Grows
    BY NextLInv
  <1>1. CASE UNCHANGED vars
    BY <1>1 DEF vars, dag, Kept, InDag, Stored, Abandoned
  <1>2. ASSUME NEW a \in Adders, AdderActs(a)
        PROVE  Archive!Next \/ UNCHANGED <<Kept, Stored, anchors, anchorStore>>
    <2>1. \/ \E e \in Events : Archive!Admit(e)
          \/ UNCHANGED <<Kept, Stored, anchors, anchorStore>>
      BY <1>2, AdderArchive
    <2> QED
      BY <2>1 DEF Archive!Next
  <1>3. ASSUME NEW p \in Finalizers, FinalizerActs(p)
        PROVE  Archive!Next \/ UNCHANGED <<Kept, Stored, anchors, anchorStore>>
    <2>1. ASSUME NEW E \in SUBSET Pending, NEW d \in 0 .. maxDepth, Finalize(p, E, d)
          PROVE  Archive!MakeAnchor
      BY <2>1, FinalizeArchive
    <2>2. ASSUME StoreEvents(p) PROVE \E i \in 1 .. Len(anchors) : Archive!SaveEvents(i)
      BY <1>0, <2>2, StoreEventsArchive
    <2>3. ASSUME StoreAnchor(p) PROVE \E i \in 1 .. Len(anchors) : Archive!Seal(i)
      BY <1>0, <2>3, StoreAnchorArchive
    <2>4. ASSUME \/ Mark(p) \/ Collect(p) \/ Abandon(p) \/ FinalizeAgain(p)
                 \/ \E K \in SUBSET Events : FillCache(p, K)
                 \/ \E R \in SUBSET InDag : Gc(p, R)
          PROVE  UNCHANGED <<Kept, Stored, anchors, anchorStore>>
      BY <1>0, <2>4, RestArchive
    <2> QED
      BY <1>3, <2>1, <2>2, <2>3, <2>4 DEF FinalizerActs, Archive!Next
  <1>4. ASSUME NEW E \in SUBSET Pending, NEW d \in 0 .. maxDepth, CatchUp(E, d)
        PROVE  Archive!Next
    BY <1>4, CatchUpArchive DEF Archive!Next
  <1> QED
    BY <1>1, <1>2, <1>3, <1>4 DEF Next, AdderActs, FinalizerActs

\* The DAG, its cache, the store and the persistence path implement EventArchive
\* when one task persists at a time, while the catch-up task finalizes anchors
\* beside it: for any DAG, any number of adders and every cascade, what was
\* admitted is kept until it is durable or its anchor given up, and the anchors
\* that are stored are stored in the order they were made, each after its events.
THEOREM DagImplementsArchive ==
  ASSUME OneFinalizer
  PROVE  Spec => ImplementsArchive
  <1>1. Init => Archive!Init
    BY DEF Init, Archive!Init, InDag, Stored, Abandoned, NoBatch
  <1>2. Init => LInv /\ GInv /\ Ahead
    <2>1. Init => Ahead
      BY DEF Init, Ahead, IdleFinalizer
    <2> QED
      BY <2>1, InitLInv, InitGInv
  <1>3. TInv /\ AInv /\ LInv /\ GInv /\ Ahead /\ [Next]_vars => LInv' /\ GInv' /\ Ahead'
    BY NextLInv, NextGInv, NextAhead
  <1>4. TInv /\ AInv /\ LInv /\ GInv /\ Ahead /\ [Next]_vars
          => [Archive!Next]_(Archive!archiveVars)
    BY StepArchive
  <1> QED
    BY <1>1, <1>2, <1>3, <1>4, AInvHolds, PTL DEF Spec, ImplementsArchive, Archive!Spec
=============================================================================
