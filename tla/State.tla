------------------------------- MODULE State -------------------------------
(***************************************************************************)
(* The state of one validator between a request and its finality:          *)
(* GlobalStateManager behind SharedStateManager (storage/src/state), the   *)
(* speculative overlay, the outcome tracker and the version watchers, and  *)
(* the paths that write them: requests (setu-validator/src/network),       *)
(* AnchorBuilder::prepare_build, commit_build, apply_follower_finalized_cf *)
(* and classify_finalization (consensus/src).                              *)
(*                                                                         *)
(* Requests and waiters run beside the writer.  The writer holds the       *)
(* consensus manager and goes through apply, publish, record and clear.    *)
(* A value is Genesis, or <<t, i>> for what change i of event t wrote:     *)
(* object versions only grow, so no value is ever written twice.           *)
(***************************************************************************)
EXTENDS StateStore, VersionWatcher

CONSTANTS Genesis,          \* the value of a key at genesis
          GenesisKeys,
          Ops,              \* what each event does: <<[key, kind], ...>>
          Staging,          \* Move and governance events stage an overlay
          OverlayReaders,   \* events made from reads through the overlay
          Owners, OwnerOf,  \* the owner recorded in each value
          Target,           \* the object the waiters wait for
          FinalReaders,     \* waiters that read finalized state only
          MaxEventsPerCf,
          MaxDiscards, MaxCommitFailures, MaxRedeliveries    \* bounds

VARIABLES pc,          \* where each request is
          seen,        \* the snapshot its OverlayView holds
          result,      \* its ExecutionResult
          pending,     \* events in the DAG that are not finalized
          build,       \* the leader's PendingAnchorBuild
          smt,         \* the write GlobalStateManager
          index,       \* owner_object_index
          snapshot,    \* read_snapshot
          overlay,     \* SpeculativeOverlay, all stacks in order of staging
          depth,       \* anchor_depth
          outcome,     \* DashMapOutcomeSink
          writer,      \* the CF being applied, and how far
          discarded,   \* history: events whose overlay an error path cleared
          effects,     \* history: how often each event was written
          faults       \* how often each bounded fault happened

requestVars == <<pc, seen, result>>
writeVars == <<pending, build, smt, index, depth, discarded, effects, faults>>
readVars == <<snapshot, overlay, outcome>>
vars == <<requestVars, writeVars, readVars, writer, watcherVars>>

Values == {Genesis} \cup UNION {{<<t, i>> : i \in DOMAIN Ops[t]} : t \in Txs}
Stores == [Keys -> Values \cup {None}]
Changes == [key : Keys, old : Values \cup {None}, new : Values \cup {None}]
Results == [ok : BOOLEAN, changes : Seq(Changes)]
Verdicts == {"applied", "stale", "failed"}

Idle == [pc |-> "idle"]
WritesKey(t) == {Ops[t][i].key : i \in DOMAIN Ops[t]}

ASSUME StateAssumption ==
    /\ \A t \in Txs : Ops[t] \in Seq([key : Keys, kind : {"update", "create", "delete", "blindDelete"}])
    /\ GenesisKeys \subseteq Keys /\ Staging \subseteq OverlayReaders /\ OverlayReaders \subseteq Txs /\ Target \in Keys
    /\ FinalReaders \subseteq Waiters
    /\ OwnerOf \in [Values -> Owners] /\ None \notin Values \cup Txs \cup Verdicts
    /\ None \notin Results
    /\ \A t \in Txs : \A i \in DOMAIN Ops[t] : Genesis # <<t, i>>
    /\ MaxEventsPerCf \in Nat \ {0}
    /\ MaxDiscards \in Nat /\ MaxCommitFailures \in Nat /\ MaxRedeliveries \in Nat

GenesisStore == [k \in Keys |-> IF k \in GenesisKeys THEN Genesis ELSE None]

Init ==
    /\ pc = [t \in Txs |-> "start"]
    /\ seen = [t \in Txs |-> None]
    /\ result = [t \in Txs |-> None]
    /\ pending = {} /\ build = None
    /\ smt = GenesisStore /\ snapshot = GenesisStore
    /\ index = {<<OwnerOf[Genesis], k>> : k \in GenesisKeys}
    /\ overlay = << >>
    /\ depth = 0
    /\ outcome = [t \in Txs |-> None]
    /\ writer = Idle
    /\ discarded = {} /\ effects = [t \in Txs |-> 0]
    /\ faults = [discard |-> 0, commit |-> 0, redeliver |-> 0]
    /\ InitWatcher

-----------------------------------------------------------------------------
(* Reading.                                                                *)

\* OverlayView: the top of the key's stack, else the snapshot.
ViewOf(store, k) ==
    LET S == {i \in DOMAIN overlay : overlay[i].key = k}
    IN  IF S = {} THEN store[k] ELSE overlay[Last(S)].value

-----------------------------------------------------------------------------
(* A request.                                                              *)

LoadView(t) ==
    /\ pc[t] = "start"
    /\ pc' = [pc EXCEPT ![t] = "viewed"]
    /\ seen' = [seen EXCEPT ![t] = snapshot]
    /\ UNCHANGED <<result, writeVars, readVars, writer, watcherVars>>

\* The changes an execution that sees this store reports, one after the other.
ChangeFrom(store, t, i) ==
    LET op == Ops[t][i]
        J == {j \in 1 .. i - 1 : Ops[t][j].key = op.key}
        now == IF J = {} THEN store[op.key]
               ELSE IF Ops[t][Last(J)].kind \in {"delete", "blindDelete"} THEN None
               ELSE <<t, Last(J)>>
    IN  [key |-> op.key,
         old |-> IF op.kind \in {"create", "blindDelete"} THEN None ELSE now,
         new |-> IF op.kind \in {"delete", "blindDelete"} THEN None ELSE <<t, i>>]

ResultFrom(store, t, ok) ==
    [ok |-> ok,
     changes |-> [i \in DOMAIN Ops[t] |-> ChangeFrom(store, t, i)]]

\* Updating or deleting an object that is not there is an error of the request.
Runs(store, t) ==
    \A i \in DOMAIN Ops[t] :
        Ops[t][i].kind \in {"update", "delete"} => ChangeFrom(store, t, i).old # None

\* The overlay is read now, the snapshot is the one that was loaded.  Transfers
\* read through the overlay too, and stage nothing.  A Move call that fails is
\* never submitted; other events may carry a failure.
Execute(t, ok) ==
    /\ pc[t] = "viewed"
    /\ LET view == [k \in Keys |-> IF t \in OverlayReaders THEN ViewOf(seen[t], k) ELSE seen[t][k]]
       IN  IF Runs(view, t) /\ (ok \/ t \notin Staging)
           THEN /\ result' = [result EXCEPT ![t] = ResultFrom(view, t, ok)]
                /\ pc' = [pc EXCEPT ![t] = "executed"]
           ELSE /\ pc' = [pc EXCEPT ![t] = "refused"]
                /\ UNCHANGED result
    /\ UNCHANGED <<seen, writeVars, readVars, writer, watcherVars>>

\* Mutant: every event stages an overlay, also one that reads without it.
SubmitStagesAll(t) ==
    /\ pc[t] = "executed"
    /\ pc' = [pc EXCEPT ![t] = "submitted"]
    /\ pending' = pending \cup {t}
    /\ UNCHANGED <<seen, result, build, smt, index, depth, discarded, effects, faults,
                   readVars, writer, watcherVars>>

\* submit_executed_event: into the DAG.
Submit(t) ==
    /\ pc[t] = "executed"
    /\ pc' = [pc EXCEPT ![t] = IF t \in Staging THEN "submitted" ELSE "done"]
    /\ pending' = pending \cup {t}
    /\ UNCHANGED <<seen, result, build, smt, index, depth, discarded, effects, faults,
                   readVars, writer, watcherVars>>

Entries(t) ==
    [i \in DOMAIN result[t].changes |->
        [tx |-> t, key |-> result[t].changes[i].key, value |-> result[t].changes[i].new]]

\* stage_overlay, after the event has been submitted.
Stage(t) ==
    /\ pc[t] = "submitted"
    /\ pc' = [pc EXCEPT ![t] = "done"]
    /\ overlay' = overlay \o Entries(t)
    /\ UNCHANGED <<seen, result, writeVars, snapshot, outcome, writer, watcherVars>>

\* A peer delivers an event again after it was finalized and collected.
Redeliver(t) ==
    /\ outcome[t] # None /\ t \notin pending
    /\ faults.redeliver < MaxRedeliveries
    /\ faults' = [faults EXCEPT !.redeliver = @ + 1]
    /\ pending' = pending \cup {t}
    /\ UNCHANGED <<requestVars, build, smt, index, depth, discarded, effects,
                   readVars, writer, watcherVars>>

-----------------------------------------------------------------------------
(* The writer.                                                             *)

\* The overlay without the entries of E, the others in their order.
Cleared(E) ==
    LET kept[n \in 0 .. Len(overlay)] ==
            IF n = 0 THEN << >>
            ELSE IF overlay[n].tx \in E THEN kept[n - 1] ELSE Append(kept[n - 1], overlay[n])
    IN  kept[Len(overlay)]

\* prepare_build: fold what no other CF holds, compute the root on a clone.
PrepareBuild(held_) ==
    LET E == Fold(pending \ held_, result, MaxEventsPerCf) IN
    /\ writer = Idle /\ build = None /\ E # {}
    /\ build' = [events |-> E, depth |-> depth,
                 root |-> ApplyCommittedEvents(smt, E, result)]
    /\ UNCHANGED <<requestVars, pending, smt, index, depth, discarded, effects, faults,
                   readVars, writer, watcherVars>>

\* The CF is rejected or times out; its events stay pending.
DropBuild ==
    /\ writer = Idle /\ build # None
    /\ build' = None
    /\ faults.discard < MaxDiscards
    /\ faults' = [faults EXCEPT !.discard = @ + 1]
    /\ UNCHANGED <<requestVars, pending, smt, index, depth, discarded, effects,
                   readVars, writer, watcherVars>>

\* Mutant: an update does not take the key from its previous owner.
IndexAfterAddOnly(ix, store, r) ==
    IF Verdict(store, r) # "applied" THEN ix
    ELSE ix \cup {<<OwnerOf[r.changes[i].new], r.changes[i].key>> :
            i \in {j \in DOMAIN r.changes : r.changes[j].new # None}}

\* Index pairs an applied event removes and adds, change by change: the pair of
\* the change's old value (of the stored one if a delete lost it) goes, the
\* pair of its new value comes.
IndexAfter(ix, store, r) ==
    LET at[n \in 0 .. Len(r.changes)] ==
            IF n = 0 THEN ix
            ELSE LET c == r.changes[n]
                     old == IF c.old = None /\ c.new = None
                            THEN Shadow(store, r.changes, n - 1, c.key) ELSE c.old
                     less == IF old = None THEN at[n - 1]
                             ELSE at[n - 1] \ {<<OwnerOf[old], c.key>>}
                 IN  IF c.new = None THEN less ELSE less \cup {<<OwnerOf[c.new], c.key>>}
    IN  IF Verdict(store, r) = "applied" THEN at[Len(r.changes)] ELSE ix

\* The index after a frame, event by event in the order of the frame.
IndexOf(ix, store, E) ==
    LET es == Sorted(E)
        stores == StoresOf(store, es, result)
        at[n \in 0 .. Len(es)] ==
            IF n = 0 THEN ix ELSE IndexAfter(at[n - 1], stores[n - 1], result[es[n]])
    IN  at[Len(es)]

\* apply_committed_events on the write GSM; waiters of every key named by a
\* successful event are woken, whether or not the event was applied.
Apply(E) ==
    LET verdicts == Summary(smt, E, result) IN
    /\ smt' = ApplyCommittedEvents(smt, E, result)
    /\ index' = IndexOf(index, smt, E)
    /\ effects' = [t \in Txs |-> IF t \in E /\ verdicts[t] = "applied"
                                 THEN effects[t] + 1 ELSE effects[t]]
    /\ writer' = [pc |-> "applied", events |-> E, verdicts |-> verdicts]
    /\ IF \E t \in E : Target \in WriteKeys(result[t]) THEN NotifySlot ELSE UNCHANGED notified
    /\ UNCHANGED <<wpc, held, slot, count, global, raced>>

\* The failing ends of both paths: the overlay is cleared, nothing else.
Discard(E) ==
    /\ faults.discard < MaxDiscards
    /\ faults' = [faults EXCEPT !.discard = @ + 1]
    /\ discarded' = discarded \cup E
    /\ overlay' = Cleared(E)
    /\ UNCHANGED <<smt, index, effects, writer, watcherVars>>

\* classify_finalization, leader: commit the build if no CF was committed since
\* it was prepared, else check its root like a follower.  The overlay is
\* cleared on that way too.
CommitBuild ==
    /\ writer = Idle /\ build # None
    /\ build' = None
    /\ IF build.depth = depth
       THEN Apply(build.events) /\ UNCHANGED <<overlay, discarded, faults>>
       ELSE IF ApplyCommittedEvents(smt, build.events, result) = build.root
            THEN /\ Apply(build.events)
                 /\ overlay' = Cleared(build.events)
                 /\ discarded' = discarded \cup build.events
                 /\ UNCHANGED faults
            ELSE Discard(build.events)
    /\ UNCHANGED <<requestVars, pending, depth, snapshot, outcome>>

Disjoint(E) ==
    \A s, t \in E : s # t => WriteKeys(result[s]) \cap WriteKeys(result[t]) = {}

\* classify_finalization, follower: a CF another validator folded from events
\* this one knows, with the root this one computes, or with another.
FollowCf(E, rootMatches) ==
    /\ writer = Idle
    /\ E # {} /\ E \subseteq pending /\ Cardinality(E) <= MaxEventsPerCf /\ Disjoint(E)
    /\ IF rootMatches
       THEN Apply(E) /\ UNCHANGED <<overlay, discarded, faults>>
       ELSE Discard(E)
    /\ UNCHANGED <<requestVars, pending, build, depth, snapshot, outcome>>

\* guard.commit fails: the writes stay in memory, unpublished, without outcome.
CommitFails ==
    /\ writer.pc = "applied"
    /\ faults.commit < MaxCommitFailures
    /\ faults' = [faults EXCEPT !.commit = @ + 1]
    /\ discarded' = discarded \cup writer.events
    /\ overlay' = Cleared(writer.events)
    /\ writer' = Idle
    /\ UNCHANGED <<requestVars, pending, build, smt, index, depth, effects,
                   snapshot, outcome, watcherVars>>

\* Mutant: the overlay is cleared before the snapshot is published.
PublishAfterClear ==
    /\ writer.pc = "applied"
    /\ IF \E i \in DOMAIN overlay : overlay[i].tx \in writer.events
       THEN overlay' = Cleared(writer.events) /\ writer' = writer /\ UNCHANGED snapshot
       ELSE writer' = [writer EXCEPT !.pc = "published"] /\ snapshot' = smt /\ UNCHANGED overlay
    /\ UNCHANGED <<requestVars, writeVars, outcome, watcherVars>>

PublishSnapshot ==
    /\ writer.pc = "applied"
    /\ writer' = [writer EXCEPT !.pc = "published"]
    /\ snapshot' = smt
    /\ UNCHANGED <<requestVars, writeVars, overlay, outcome, watcherVars>>

IngestOutcomes ==
    /\ writer.pc = "published"
    /\ writer' = [writer EXCEPT !.pc = "recorded"]
    /\ outcome' = [t \in Txs |-> IF t \in writer.events THEN writer.verdicts[t] ELSE outcome[t]]
    /\ UNCHANGED <<requestVars, writeVars, snapshot, overlay, watcherVars>>

\* Mutant: depth is left as it was.
FinishWithoutDepth ==
    /\ writer.pc = "recorded"
    /\ overlay' = Cleared(writer.events)
    /\ pending' = pending \ writer.events
    /\ writer' = Idle
    /\ UNCHANGED <<requestVars, build, smt, index, depth, discarded, effects, faults,
                   snapshot, outcome, watcherVars>>

\* clear_overlay_events, then the builder's metadata; the events are final.
Finish ==
    /\ writer.pc = "recorded"
    /\ overlay' = Cleared(writer.events)
    /\ depth' = depth + 1
    /\ pending' = pending \ writer.events
    /\ writer' = Idle
    /\ UNCHANGED <<requestVars, build, smt, index, discarded, effects, faults,
                   snapshot, outcome, watcherVars>>

-----------------------------------------------------------------------------
(* A waiter reads the object: finalized state, or with the overlay.        *)

Resolved(w) ==
    LET v == IF w \in FinalReaders THEN snapshot[Target] ELSE ViewOf(snapshot, Target)
    IN  v \notin {None, Genesis}

WaiterStep(w) ==
    /\ WatcherStep(w) \/ Check(w, Resolved(w), w \in FinalReaders /\ writer.pc = "applied")
    /\ UNCHANGED <<requestVars, writeVars, readVars, writer>>

Next ==
    \/ \E t \in Txs : LoadView(t) \/ Submit(t) \/ Stage(t) \/ Redeliver(t)
    \/ \E t \in Txs, ok \in BOOLEAN : Execute(t, ok)
    \/ \E F \in SUBSET Txs : PrepareBuild(F)
    \/ \E E \in SUBSET Txs, match \in BOOLEAN : FollowCf(E, match)
    \/ DropBuild \/ CommitBuild \/ CommitFails
    \/ PublishSnapshot \/ IngestOutcomes \/ Finish
    \/ \E w \in Waiters : WaiterStep(w)

Spec == Init /\ [][Next]_vars

-----------------------------------------------------------------------------
(* Properties.                                                             *)

TypeOK ==
    /\ pc \in [Txs -> {"start", "viewed", "executed", "refused", "submitted", "done"}]
    /\ seen \in [Txs -> Stores \cup {None}]
    /\ result \in [Txs -> Results \cup {None}]
    /\ pending \in SUBSET Txs
    /\ build \in [events : SUBSET Txs, depth : Nat, root : Stores] \cup {None}
    /\ smt \in Stores /\ snapshot \in Stores
    /\ index \in SUBSET (Owners \X Keys)
    /\ overlay \in Seq([tx : Staging, key : Keys, value : Values \cup {None}])
    /\ depth \in Nat
    /\ outcome \in [Txs -> Verdicts \cup {None}]
    /\ writer.pc \in {"idle", "applied", "published", "recorded"}
    /\ writer # Idle => /\ writer.events \in SUBSET Txs
                        /\ writer.verdicts \in [writer.events -> Verdicts]
    /\ discarded \in SUBSET Txs /\ effects \in [Txs -> Nat]
    /\ faults \in [discard : 0 .. MaxDiscards, commit : 0 .. MaxCommitFailures,
                   redeliver : 0 .. MaxRedeliveries]
    /\ WatcherTypeOK

\* commit_build, the follower path, the sorted fold with its shadow map and the
\* outcome tracker implement the serial store: an event is judged against the
\* state before its frame and written whole or not at all, readers only see
\* whole frames, and a verdict is true and comes after the state it speaks of.
Serial == INSTANCE SerialState WITH
    Genesis <- GenesisStore,
    store <- smt,
    published <- snapshot,
    batch <- IF writer.pc \in {"applied", "published"} THEN writer.verdicts ELSE << >>
ImplementsSerial == Serial!Spec

\* Nobody else has put a write of k on its way.
Unrivalled(t, k) ==
    \A s \in Txs \ {t} : k \notin WritesKey(s) \/ pc[s] \in {"start", "viewed", "executed", "refused"}

LastWrite(t, k) ==
    result[t].changes[Last({i \in DOMAIN Ops[t] : Ops[t][i].key = k})].new

\* Once a Move call has answered, its writes stay readable (load_overlay_view)
\* through apply, publish, record and clear, unless its event turned out stale,
\* an error path (SnapshotMismatch, RootMismatch, a failed commit) cleared its
\* overlay first, or somebody else writes the same object.
ReadYourWrites ==
    \A t \in Staging : \A k \in WritesKey(t) :
        pc[t] = "done" /\ outcome[t] # "stale" /\ t \notin discarded /\ Unrivalled(t, k)
            => ViewOf(snapshot, k) = LastWrite(t, k)

\* No event creates k: it exists since genesis or never.
NeverCreated(k) == \A t \in Txs : \A i \in DOMAIN Ops[t] : Ops[t][i] # [key |-> k, kind |-> "create"]

\* An event that states the version it replaces takes effect once, also when it
\* is delivered again after GC and finalized a second time, or applied again
\* after its commit failed: the stale-read check of apply_committed_events.
\* The object must not be one that events create: the check compares values,
\* and a create that is delivered again brings the replaced value back.
EffectOnce ==
    \A t \in Txs :
        (\E i \in DOMAIN Ops[t] : /\ Ops[t][i].kind \in {"update", "delete"}
                                  /\ NeverCreated(Ops[t][i].key))
            => effects[t] <= 1

\* owner_object_index, maintained change by change and never rebuilt while the
\* node runs, lists exactly the live objects under their current owners.
IndexExact == index = {<<OwnerOf[smt[k]], k>> : k \in {j \in Keys : smt[j] # None}}

\* A build whose snapshot still passes verify_snapshot commits to the root that
\* it declared to the followers, as long as no commit failed on the way.
BuildKeepsRoot ==
    build # None /\ writer = Idle /\ build.depth = depth /\ faults.commit = 0
        => ApplyCommittedEvents(smt, build.events, result) = build.root

\* Invariant F-A of anchor_builder.rs: when a CF has reached its terminal state,
\* no overlay entry of its events is left to poison reads.
OverlayCleared ==
    \A t \in Txs : outcome[t] # None /\ t \notin pending /\ writer = Idle
        => \A i \in DOMAIN overlay : overlay[i].tx # t

\* "Pre-arm BEFORE re-reading state - eliminates lost-wakeup race": a request
\* for a finalized version is not left waiting for one it can already read.
\* Two windows stay open, and the invariant names them: apply_committed_events
\* notifies before publish_snapshot, and a slot may be swept from the registry
\* between a request's lookup of it and its count.
\* A failed commit is left out as well: it notified of what it did not publish,
\* and a later CF publishes that without another word.
NoLostWakeup ==
    \A w \in FinalReaders :
        Parked(w) /\ writer = Idle /\ faults.commit = 0 /\ Resolved(w)
            => w \in raced \/ held[w] # slot
=============================================================================
