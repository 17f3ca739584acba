----------------------------- MODULE DagManager -----------------------------
(***************************************************************************)
(* The event DAG of one validator: DagManager (consensus/src/             *)
(* dag_manager.rs) over the active DAG (dag.rs), the cache of recently     *)
(* finalized events (recent_cache.rs) and the event store, together with   *)
(* the persistence path that moves events from one to the other            *)
(* (setu-validator/src/persistence.rs).                                    *)
(*                                                                         *)
(* Three kinds of task run concurrently and hold the DAG lock only for the   *)
(* length of one step below:                                               *)
(*   - adders, add_event_with_retry: look up every parent in the DAG, then *)
(*     the cache, then the store, compute a depth, and insert the event;   *)
(*   - finalizers, which finalize an anchor and persist it: the ONE router *)
(*     loop of a validator in a network, any submit_event task of a        *)
(*     single-node validator;                                              *)
(*   - the catch-up task of a validator in a network, which finalizes      *)
(*     anchors beside the router and leaves them unpersisted.              *)
(*                                                                         *)
(* Events to finalize are any of the pending ones, since the fold policy   *)
(* may defer some.  The tips of the DAG are read by statistics only and    *)
(* are left out, and so is the warm-up mode, which nothing switches on.    *)
(* The cache evicts by recency; here it may evict any of the older events. *)
(***************************************************************************)
EXTENDS Integers, FiniteSets, Sequences

CONSTANTS Events,
          ParentIds,         \* parent_ids of each event
          Adders, Finalizers,
          CacheCapacity,
          MaxCrossCfDepth,
          MaxAnchors,        \* bound: anchors finalized
          MaxRedeliveries,   \* bound: second deliveries of an event
          MaxAbandoned       \* bound: anchors that are never persisted

ASSUME EventsAssumption ==
    /\ IsFiniteSet(Events) /\ Events # {}
    /\ ParentIds \in [Events -> Seq(Events)]
ASSUME LimitsAssumption ==
    /\ CacheCapacity \in Nat \ {0} /\ MaxCrossCfDepth \in Nat
    /\ MaxAnchors \in Nat /\ MaxRedeliveries \in Nat /\ MaxAbandoned \in Nat

NoDepth == -1
Depths == Nat \cup {NoDepth}

\* Mutant: one attempt fewer.
RetryLimitTwo == 2

MaxRetry == 3

VARIABLES
    depth,        \* depth of the events in the active DAG, NoDepth elsewhere
    links,        \* the children index: pairs <<parent, child>>
    final,        \* events of the DAG with status Finalized; the rest pend
    maxDepth,     \* Dag.max_depth
    minDepth,     \* DagManager.min_depth, the depth floor
    cache,        \* depths in the recent cache
    stored,       \* depths in the event store
    anchors,      \* the anchors finalized, in order
    anchorStore,  \* which of them are durably stored
    add,          \* state of each adder
    fin,          \* state of each finalizer
    admitted,     \* history: events that were ever inserted
    redeliveries, abandoned  \* how much of each bound is used

dag == <<depth, links, final, maxDepth>>
vars == <<dag, minDepth, cache, stored, anchors, anchorStore, add, fin,
          admitted, redeliveries, abandoned>>

InDag == {e \in Events : depth[e] # NoDepth}

Pending == InDag \ final

Parents(e) == {ParentIds[e][k] : k \in 1 .. Len(ParentIds[e])}

Larger(m, n) == IF m >= n THEN m ELSE n

NoBatch == [e \in Events |-> NoDepth]

IdleAdder == [pc |-> "idle", ev |-> CHOOSE e \in Events : TRUE, found |-> <<>>,
              depth |-> 0, tries |-> 0, known |-> {}]

IdleFinalizer == [pc |-> "idle", anchor |-> 0, batch |-> NoBatch]

Init ==
    /\ depth = NoBatch /\ links = {} /\ final = {} /\ maxDepth = 0
    /\ minDepth = 0
    /\ cache = NoBatch /\ stored = NoBatch
    /\ anchors = <<>> /\ anchorStore = {}
    /\ add = [a \in Adders |-> IdleAdder]
    /\ fin = [p \in Finalizers |-> IdleFinalizer]
    /\ admitted = {} /\ redeliveries = 0 /\ abandoned = 0

-----------------------------------------------------------------------------
(* add_event_with_retry.                                                   *)

\* Where an attempt starts: at the first parent, if there is one.
FirstPc(e) == IF ParentIds[e] = <<>> THEN "resolve" ELSE "dag"

\* An event arrives, by submission or from the network; senders may repeat
\* an event that was refused, and a few that were, or are being, accepted.
Deliver(a, e) ==
    LET seen == admitted \cup {add[x].ev : x \in {y \in Adders : add[y].pc # "idle"}} IN
    /\ add[a].pc = "idle"
    /\ e \in seen => redeliveries < MaxRedeliveries
    /\ redeliveries' = IF e \in seen THEN redeliveries + 1 ELSE redeliveries
    /\ add' = [add EXCEPT ![a] = [IdleAdder EXCEPT !.pc = FirstPc(e), !.ev = e,
                                                   !.known = admitted]]
    /\ UNCHANGED <<dag, minDepth, cache, stored, anchors, anchorStore, fin,
                   admitted, abandoned>>

\* The parent that adder a is looking for.
Wanted(a) == ParentIds[add[a].ev][Len(add[a].found) + 1]

\* The parent is found in a layer, max_parent_depth grows: on to the next one,
\* or to the depth of the event.
Found(a, layer, d) ==
    add' = [add EXCEPT
              ![a].found = Append(@, [layer |-> layer, depth |-> d]),
              ![a].depth = Larger(@, d),
              ![a].pc = IF Len(add[a].found) + 1 = Len(ParentIds[add[a].ev])
                        THEN "resolve" ELSE "dag"]

NotFound(a, next) == add' = [add EXCEPT ![a].pc = next]

Refuse(a) == add' = [add EXCEPT ![a] = IdleAdder]

LookInDag(a) ==
    /\ add[a].pc = "dag"
    /\ \/ Wanted(a) \in InDag /\ Found(a, "dag", depth[Wanted(a)])
       \/ Wanted(a) \notin InDag /\ NotFound(a, "cache")
    /\ UNCHANGED <<dag, minDepth, cache, stored, anchors, anchorStore, fin,
                   admitted, redeliveries, abandoned>>

LookInCache(a) ==
    /\ add[a].pc = "cache"
    /\ \/ cache[Wanted(a)] # NoDepth /\ Found(a, "cache", cache[Wanted(a)])
       \/ cache[Wanted(a)] = NoDepth /\ NotFound(a, "store")
    /\ UNCHANGED <<dag, minDepth, cache, stored, anchors, anchorStore, fin,
                   admitted, redeliveries, abandoned>>

\* The last layer: without the parent the event is refused (MissingParent).
LookInStore(a) ==
    /\ add[a].pc = "store"
    /\ \/ stored[Wanted(a)] # NoDepth /\ Found(a, "store", stored[Wanted(a)])
       \/ stored[Wanted(a)] = NoDepth /\ Refuse(a)
    /\ UNCHANGED <<dag, minDepth, cache, stored, anchors, anchorStore, fin,
                   admitted, redeliveries, abandoned>>

\* One more than max_parent_depth; an event without parents goes below
\* everything the DAG has ever held, or to 0 when that is nothing.
RawDepth(a) ==
    IF add[a].found # <<>> THEN add[a].depth + 1
    ELSE IF InDag = {} /\ maxDepth = 0 THEN 0 ELSE maxDepth + 1

NewDepth(a) == Larger(RawDepth(a), minDepth)

TooOld(a) ==
    \E k \in 1 .. Len(add[a].found) :
        /\ add[a].found[k].layer # "dag"
        /\ NewDepth(a) - add[a].found[k].depth > MaxCrossCfDepth

Resolve(a) ==
    /\ add[a].pc = "resolve"
    /\ \/ TooOld(a) /\ Refuse(a)
       \/ ~TooOld(a) /\ add' = [add EXCEPT ![a].pc = "write", ![a].depth = NewDepth(a)]
    /\ UNCHANGED <<dag, minDepth, cache, stored, anchors, anchorStore, fin,
                   admitted, redeliveries, abandoned>>

\* A parent that was found in the DAG has left it since.
ParentGCed(a) ==
    \E k \in 1 .. Len(add[a].found) :
        add[a].found[k].layer = "dag" /\ ParentIds[add[a].ev][k] \notin InDag

\* Phase 3, under the write lock: insert, unless the event is there already.
Write(a) ==
    LET e == add[a].ev IN
    /\ add[a].pc = "write" /\ ~ParentGCed(a)
    /\ \/ /\ e \notin InDag
          /\ depth' = [depth EXCEPT ![e] = add[a].depth]
          /\ links' = links \cup {<<p, e>> : p \in Parents(e) \cap InDag}
          /\ maxDepth' = Larger(maxDepth, add[a].depth)
          /\ admitted' = admitted \cup {e}
       \/ e \in InDag /\ UNCHANGED <<depth, links, maxDepth, admitted>>
    /\ add' = [add EXCEPT ![a] = IdleAdder]
    /\ UNCHANGED <<final, minDepth, cache, stored, anchors, anchorStore, fin,
                   redeliveries, abandoned>>

\* ParentGCed starts the lookup again, MaxRetry times in all.
Retry(a) ==
    /\ add[a].pc = "write" /\ ParentGCed(a)
    /\ \/ /\ add[a].tries + 1 < MaxRetry
          /\ add' = [add EXCEPT ![a].pc = FirstPc(add[a].ev), ![a].found = <<>>,
                                ![a].depth = 0, ![a].tries = @ + 1]
       \/ add[a].tries + 1 >= MaxRetry /\ Refuse(a)
    /\ UNCHANGED <<dag, minDepth, cache, stored, anchors, anchorStore, fin,
                   admitted, redeliveries, abandoned>>

-----------------------------------------------------------------------------
(* Finalizing an anchor and persisting it.                                 *)

EventsOf(p) == anchors[fin[p].anchor].events

Goto(p, next) == fin' = [fin EXCEPT ![p].pc = next]

EndFinalizer(p) == fin' = [fin EXCEPT ![p] = IdleFinalizer]

\* A CF reaches finality: the floor rises above the anchor.  The manager is
\* locked until the events are marked.  d is max_depth when the CF was built.
Finalize(p, E, d) ==
    /\ Len(anchors) < MaxAnchors
    /\ fin[p].pc = "idle" /\ \A q \in Finalizers : fin[q].pc # "mark"
    /\ E # {} /\ d <= maxDepth /\ \A e \in E : depth[e] <= d
    /\ anchors' = Append(anchors, [events |-> E, depth |-> d])
    /\ minDepth' = Larger(minDepth, d + 1)
    /\ fin' = [fin EXCEPT ![p] = [IdleFinalizer EXCEPT !.pc = "mark",
                                                       !.anchor = Len(anchors) + 1]]
    /\ UNCHANGED <<dag, cache, stored, anchorStore, add, admitted, redeliveries, abandoned>>

\* Mutant: the events stay pending until the anchor is persisted.
MarkNothing(p) ==
    /\ fin[p].pc = "mark"
    /\ Goto(p, "collect")
    /\ UNCHANGED <<dag, minDepth, cache, stored, anchors, anchorStore,
                   add, admitted, redeliveries, abandoned>>

\* mark_anchor_events_finalized_in_active_dag.
Mark(p) ==
    /\ fin[p].pc = "mark"
    /\ final' = final \cup (EventsOf(p) \cap InDag)
    /\ Goto(p, "collect")
    /\ UNCHANGED <<depth, links, maxDepth, minDepth, cache, stored, anchors,
                   anchorStore, add, admitted, redeliveries, abandoned>>

\* The events are copied out of the DAG; one that is missing ends the attempt.
Collect(p) ==
    /\ fin[p].pc = "collect"
    /\ \/ /\ EventsOf(p) \subseteq InDag
          /\ fin' = [fin EXCEPT ![p].pc = "events",
                                ![p].batch = [e \in Events |-> IF e \in EventsOf(p)
                                                 THEN depth[e] ELSE NoDepth]]
       \/ ~(EventsOf(p) \subseteq InDag) /\ EndFinalizer(p)
    /\ UNCHANGED <<dag, minDepth, cache, stored, anchors, anchorStore,
                   add, admitted, redeliveries, abandoned>>

\* store_batch_with_depth: the depth of a known event is written again.
StoreEvents(p) ==
    /\ fin[p].pc = "events"
    /\ stored' = [e \in Events |-> IF fin[p].batch[e] # NoDepth
                                   THEN fin[p].batch[e] ELSE stored[e]]
    /\ fin' = [fin EXCEPT ![p].pc = "anchor", ![p].batch = NoBatch]
    /\ UNCHANGED <<dag, minDepth, cache, anchors, anchorStore,
                   add, admitted, redeliveries, abandoned>>

\* The anchor, the commit marker, comes last.
StoreAnchor(p) ==
    /\ fin[p].pc = "anchor"
    /\ anchorStore' = anchorStore \cup {fin[p].anchor}
    /\ Goto(p, "finalize")
    /\ UNCHANGED <<dag, minDepth, cache, stored, anchors,
                   add, admitted, redeliveries, abandoned>>

\* Mutant: a failed event batch does not stop the anchor.
AbandonUnnoticed(p) ==
    /\ fin[p].pc \in {"collect", "events", "anchor"}
    /\ abandoned < MaxAbandoned
    /\ abandoned' = abandoned + 1
    /\ fin' = [fin EXCEPT ![p].pc = "anchor", ![p].batch = NoBatch]
    /\ UNCHANGED <<dag, minDepth, cache, stored, anchors, anchorStore,
                   add, admitted, redeliveries>>

\* A write fails: nothing tries again.
Abandon(p) ==
    /\ fin[p].pc \in {"collect", "events", "anchor"}
    /\ abandoned < MaxAbandoned
    /\ abandoned' = abandoned + 1
    /\ EndFinalizer(p)
    /\ UNCHANGED <<dag, minDepth, cache, stored, anchors, anchorStore,
                   add, admitted, redeliveries>>

\* The catch-up task applies a CF with receive_finalized_cf, whatever the
\* finalizers are doing: the floor rises and the events are marked, but the
\* caller drops the anchor.  One step, because the manager is locked throughout
\* and what may fall in between, Resolve and Gc, could as well come after it
\* or before.
CatchUp(E, d) ==
    /\ Len(anchors) < MaxAnchors /\ abandoned < MaxAbandoned
    /\ \A q \in Finalizers : fin[q].pc # "mark"
    /\ E # {} /\ d <= maxDepth /\ \A e \in E : depth[e] <= d
    /\ anchors' = Append(anchors, [events |-> E, depth |-> d])
    /\ minDepth' = Larger(minDepth, d + 1)
    /\ final' = final \cup E
    /\ abandoned' = abandoned + 1
    /\ UNCHANGED <<depth, links, maxDepth, cache, stored, anchorStore, add, fin,
                   admitted, redeliveries>>

-----------------------------------------------------------------------------
(* on_anchor_finalized.                                                    *)

\* update_min_depth and finalize_events, once more.
FinalizeAgain(p) ==
    /\ fin[p].pc = "finalize"
    /\ minDepth' = Larger(minDepth, anchors[fin[p].anchor].depth + 1)
    /\ final' = final \cup (EventsOf(p) \cap InDag)
    /\ Goto(p, "cache")
    /\ UNCHANGED <<depth, links, maxDepth, cache, stored, anchors, anchorStore,
                   add, admitted, redeliveries, abandoned>>

Cached == {e \in Events : cache[e] # NoDepth}

\* Mutant: put never evicts.
KeptInCacheUnbounded(K, new) == K = Cached \cup new

\* K is what the cache may hold after put has been called for the events new.
KeptInCache(K, new) ==
    /\ K \subseteq Cached \cup new
    /\ Cardinality(K) <= CacheCapacity
    /\ K # Cached \cup new => Cardinality(K) = CacheCapacity
    /\ K \subseteq new \/ new \subseteq K

\* The anchor's events that are still in the DAG enter the cache.
FillCache(p, K) ==
    LET new == EventsOf(p) \cap InDag IN
    /\ fin[p].pc = "cache"
    /\ KeptInCache(K, new)
    /\ cache' = [e \in Events |-> IF e \notin K THEN NoDepth
                                  ELSE IF e \in new THEN depth[e] ELSE cache[e]]
    /\ Goto(p, "gc")
    /\ UNCHANGED <<dag, minDepth, stored, anchors, anchorStore,
                   add, admitted, redeliveries, abandoned>>

ChildrenOf(e) == {c \in Events : <<e, c>> \in links}

HasActiveChildren(e) == ChildrenOf(e) \cap Pending # {}

\* Mutant: a parent is queued for removal whatever its status.
CascadesAnyStatus(R, T) ==
    /\ {e \in T \cap InDag : ~HasActiveChildren(e)} \subseteq R
    /\ \A e \in R : \A q \in Parents(e) \cap InDag : ~HasActiveChildren(q) => q \in R

\* R contains the removable targets and, with an event, its removable parents.
Cascades(R, T) ==
    /\ {e \in T \cap InDag : ~HasActiveChildren(e)} \subseteq R
    /\ \A e \in R : \A q \in Parents(e) \cap final : ~HasActiveChildren(q) => q \in R

\* Mutant: "simple mode", the returned parents are ignored.
GcWithoutCascade(p, R) ==
    /\ fin[p].pc = "gc"
    /\ R = {e \in EventsOf(p) \cap InDag : ~HasActiveChildren(e)}
    /\ depth' = [e \in Events |-> IF e \in R THEN NoDepth ELSE depth[e]]
    /\ links' = {l \in links : l[1] \notin R /\ l[2] \notin R}
    /\ final' = final \ R
    /\ EndFinalizer(p)
    /\ UNCHANGED <<maxDepth, minDepth, cache, stored, anchors, anchorStore,
                   add, admitted, redeliveries, abandoned>>

\* gc_finalized_events removes the smallest such set.
Gc(p, R) ==
    /\ fin[p].pc = "gc"
    /\ Cascades(R, EventsOf(p))
    /\ \A S \in SUBSET R : Cascades(S, EventsOf(p)) => S = R
    /\ depth' = [e \in Events |-> IF e \in R THEN NoDepth ELSE depth[e]]
    /\ links' = {l \in links : l[1] \notin R /\ l[2] \notin R}
    /\ final' = final \ R
    /\ EndFinalizer(p)
    /\ UNCHANGED <<maxDepth, minDepth, cache, stored, anchors, anchorStore,
                   add, admitted, redeliveries, abandoned>>

Next ==
    \/ \E a \in Adders :
        \/ \E e \in Events : Deliver(a, e)
        \/ LookInDag(a) \/ LookInCache(a) \/ LookInStore(a)
        \/ Resolve(a)
        \/ Write(a)
        \/ Retry(a)
    \/ \E p \in Finalizers :
        \/ \E E \in SUBSET Pending, d \in 0 .. maxDepth : Finalize(p, E, d)
        \/ Mark(p)
        \/ Collect(p) \/ StoreEvents(p) \/ StoreAnchor(p)
        \/ Abandon(p)
        \/ FinalizeAgain(p)
        \/ \E K \in SUBSET Events : FillCache(p, K)
        \/ \E R \in SUBSET InDag : Gc(p, R)
    \/ \E E \in SUBSET Pending, d \in 0 .. maxDepth : CatchUp(E, d)

Spec == Init /\ [][Next]_vars

-----------------------------------------------------------------------------
(* Properties.                                                             *)

AddState == [pc : {"idle", "dag", "cache", "store", "resolve", "write"},
             ev : Events, found : Seq([layer : {"dag", "cache", "store"}, depth : Nat]),
             depth : Nat, tries : 0 .. MaxRetry - 1, known : SUBSET Events]

FinState == [pc : {"idle", "mark", "collect", "events", "anchor", "finalize",
                   "cache", "gc"},
             anchor : 0 .. MaxAnchors, batch : [Events -> Depths]]

\* One type invariant for the whole state.
TypeOK ==
    /\ depth \in [Events -> Depths] /\ links \subseteq Events \X Events
    /\ final \subseteq InDag
    /\ maxDepth \in Nat /\ minDepth \in Nat
    /\ cache \in [Events -> Depths] /\ stored \in [Events -> Depths]
    /\ Cardinality(Cached) <= CacheCapacity
    /\ anchors \in Seq([events : SUBSET Events, depth : Nat])
    /\ anchorStore \subseteq 1 .. Len(anchors)
    /\ add \in [Adders -> AddState] /\ fin \in [Finalizers -> FinState]
    /\ admitted \subseteq Events
    /\ redeliveries \in 0 .. MaxRedeliveries /\ abandoned \in 0 .. MaxAbandoned

\* Events of anchors that were finalized and that nothing will persist any more.
Abandoned ==
    UNION {anchors[i].events :
             i \in (1 .. Len(anchors)) \ (anchorStore \cup {fin[p].anchor : p \in Finalizers})}

Stored == {e \in Events : stored[e] # NoDepth}

\* No admitted event disappears: until it is in the store it stays in the
\* DAG, whatever GC cascades over it, adders and finalizers interleaving
\* (events of an anchor that was given up excepted).
NoEventLost == admitted \subseteq InDag \cup Stored \cup Abandoned

\* "Events are written BEFORE the anchor; if ANY event fails critically,
\* anchor is NOT written": a stored anchor has all its events in the store.
\* With one finalizer ImplementsArchive below implies it.
AnchorComplete == \A i \in anchorStore : anchors[i].events \subseteq Stored

\* The three layers are read one after the other while events move from the
\* first to the others; still MissingParent is never reported for a parent
\* that was admitted before the lookup began.
NoFalseMissing ==
    \A a \in Adders :
        add[a].pc = "store" /\ Wanted(a) \in add[a].known
            => Wanted(a) \in Stored \cup Abandoned

\* Parents leave the DAG for good, so an event with two parents never uses up
\* its MaxRetry attempts (add_event_with_retry never ends with ParentGCed).
RetriesSuffice ==
    redeliveries = 0 =>
        \A a \in Adders :
            add[a].pc = "write" /\ ParentGCed(a) /\ Len(ParentIds[add[a].ev]) <= 2
                => add[a].tries + 1 < MaxRetry

\* Memory is reclaimed: once no finalizer is at work, a finalized event of a
\* stored anchor is still in the DAG only if a pending or abandoned event
\* descends from it (gc_finalized_events; every set of events that contains e
\* and is closed under children has one).
NoStranded ==
    (\A p \in Finalizers : fin[p].pc = "idle") =>
        \A i \in anchorStore : \A e \in anchors[i].events \cap final :
            \A S \in SUBSET InDag :
                e \in S /\ (\A x \in S : ChildrenOf(x) \subseteq S)
                    => S \cap (Pending \cup Abandoned) # {}

\* An event delivered once belongs to at most one anchor, although the anchor
\* is persisted long after it was finalized
\* (mark_anchor_events_finalized_in_active_dag).
AnchorsDisjoint ==
    redeliveries = 0 =>
        \A i, j \in 1 .. Len(anchors) :
            i # j => anchors[i].events \cap anchors[j].events = {}

Archive == INSTANCE EventArchive WITH
               kept <- InDag \cup Stored \cup Abandoned,
               durable <- Stored, sealed <- anchorStore

\* Although events wander from the DAG over the cache to the store while adders
\* look them up, and GC cascades over them, each step is one of EventArchive or
\* none: nothing that was kept is dropped, an anchor is made of kept events,
\* its events are stored before it, and anchors are stored in their order.
ImplementsArchive == Archive!Spec

\* What engine.rs says of the events of a finalized anchor: they "remain in
\* DAG.events for persistence".
RemainForPersistence ==
    \A p \in Finalizers : fin[p].pc = "collect" => EventsOf(p) \subseteq InDag
=============================================================================
