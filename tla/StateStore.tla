----------------------------- MODULE StateStore -----------------------------
(***************************************************************************)
(* What one consensus frame does to the state: the sort, the stale-read    *)
(* check and the writes of GlobalStateManager::apply_committed_events      *)
(* (storage/src/state/manager.rs), and the strict same-key policy by which *)
(* AnchorBuilder::prepare_build chooses the events of a frame              *)
(* (consensus/src/anchor_builder.rs).                                      *)
(*                                                                         *)
(* A store maps every key to a value or None.  Trees and subnets are left  *)
(* out: a key stands for a (subnet, object) pair, and a root for the store *)
(* it commits to.  A result is [ok, changes]; a change is [key, old, new]: *)
(*   old # None, new # None   update          old = None, new # None create *)
(*   old # None, new = None   delete          old = new = None  a delete   *)
(*                                            whose old value was lost.    *)
(***************************************************************************)
EXTENDS Integers, Sequences, FiniteSets

CONSTANTS Keys, None,
          Txs,           \* the events
          LogicalTime,   \* vlc_snapshot.logical_time of each
          Rank           \* the lexicographic order of their ids

ASSUME OrderAssumption ==
    /\ IsFiniteSet(Txs) /\ IsFiniteSet(Keys)
    /\ LogicalTime \in [Txs -> Nat] /\ Rank \in [Txs -> Nat]
    /\ \A s, t \in Txs : Rank[s] = Rank[t] => s = t

\* Inv-gamma-Sort: logical time, then event id.
Before(s, t) ==
    \/ LogicalTime[s] < LogicalTime[t]
    \/ LogicalTime[s] = LogicalTime[t] /\ Rank[s] < Rank[t]

Sorted(E) ==
    CHOOSE s \in [1 .. Cardinality(E) -> E] :
        \A i, j \in DOMAIN s : i < j => s[i] # s[j] /\ Before(s[i], s[j])

-----------------------------------------------------------------------------
(* One event.                                                              *)

\* Indices of the first n changes that write k.
WritesOf(changes, n, k) == {j \in 1 .. n : changes[j].key = k}

Last(J) == CHOOSE j \in J : \A i \in J : i <= j

\* pending_writes over the state: what the first n changes leave at k.
Shadow(store, changes, n, k) ==
    LET J == WritesOf(changes, n, k)
    IN  IF J = {} THEN store[k] ELSE changes[Last(J)].new

\* Mutant: only a create is checked against the state.
ConflictOfCreates(store, changes, i) ==
    changes[i].old = None /\ changes[i].new # None
        /\ Shadow(store, changes, i - 1, changes[i].key) # None

\* An old value that is no longer current, or a create of what exists.
Conflict(store, changes, i) ==
    LET c == changes[i]
        current == Shadow(store, changes, i - 1, c.key)
    IN  \/ c.old # None /\ current # c.old
        \/ c.old = None /\ c.new # None /\ (current # None \/ store[c.key] # None)

Stale(store, changes) == \E i \in DOMAIN changes : Conflict(store, changes, i)

\* The keys of apply_execution_result are written one change after the other.
Written(store, changes) == [k \in Keys |-> Shadow(store, changes, Len(changes), k)]

Verdict(store, r) ==
    CASE ~r.ok -> "failed"
      [] r.ok /\ Stale(store, r.changes) -> "stale"
      [] OTHER -> "applied"

\* Skip the whole event, or write all of it.
ApplyOne(store, r) ==
    IF Verdict(store, r) = "applied" THEN Written(store, r.changes) ELSE store

-----------------------------------------------------------------------------
(* A frame.                                                                *)

\* The store before each event of the frame, and after the last.
StoresOf(store, es, result) ==
    LET at[n \in 0 .. Len(es)] ==
            IF n = 0 THEN store ELSE ApplyOne(at[n - 1], result[es[n]])
    IN  at

ApplyCommittedEvents(store, E, result) ==
    StoresOf(store, Sorted(E), result)[Cardinality(E)]

\* StateApplySummary: the verdict on each event of the frame.
Summary(store, E, result) ==
    LET es == Sorted(E)
        at == StoresOf(store, es, result)
    IN  [t \in E |-> LET n == CHOOSE i \in DOMAIN es : es[i] = t
                     IN  Verdict(at[n - 1], result[t])]

\* collect_event_write_keys: a failed event claims nothing.
WriteKeys(r) ==
    IF r.ok THEN {r.changes[i].key : i \in DOMAIN r.changes} ELSE {}

\* The events kept of the first n: those that touch no key already claimed.
KeptOf(es, result) ==
    LET kept[n \in 0 .. Len(es)] ==
            IF n = 0 THEN {}
            ELSE LET claimed == UNION {WriteKeys(result[t]) : t \in kept[n - 1]}
                 IN  IF WriteKeys(result[es[n]]) \cap claimed = {}
                     THEN kept[n - 1] \cup {es[n]} ELSE kept[n - 1]
    IN  kept[Len(es)]

\* Mutant: events are only counted, never deferred.
FoldWithoutPolicy(E, result, max) ==
    {t \in E : Cardinality({s \in E : Before(s, t)}) < max}

\* apply_strict_same_key_fold_policy, then the capacity of a frame.
Fold(E, result, max) ==
    LET kept == KeptOf(Sorted(E), result)
    IN  {t \in kept : Cardinality({s \in kept : Before(s, t)}) < max}
=============================================================================
