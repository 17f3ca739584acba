----------------------------- MODULE Consensus -----------------------------
(***************************************************************************)
(* The consensus protocol of a multi-validator Setu network:              *)
(* ConsensusEngine (consensus/src/engine.rs), ConsensusManager             *)
(* (folder.rs) and the deferred-commit half of AnchorBuilder               *)
(* (anchor_builder.rs), driven by the tasks a validator really runs:       *)
(*                                                                         *)
(*   - the message router, ONE loop that handles one network event at a   *)
(*     time, to the end of persisting what the event finalized             *)
(*     (network_adapter/router.rs);                                        *)
(*   - the tasks that may create a ConsensusFrame (CF) at any moment:      *)
(*     submitted events and the heartbeat;                                 *)
(*   - the catch-up task, which runs beside the router                     *)
(*     (startup_catchup.rs);                                               *)
(*   - the maintenance task that drops timed-out CFs.                      *)
(*                                                                         *)
(* A CF is named by its index in cfs, the order of creation.  Its hash     *)
(* covers a timestamp, so two CFs are never the same.  The anchor chain    *)
(* root of a validator is hash(before-root in the anchor, anchor), so it   *)
(* is determined by the last anchor applied and is named by that CF.       *)
(* The global state is the set of events applied to it: an event that is   *)
(* applied a second time finds its old values gone and is skipped, and     *)
(* events chosen for one CF write different keys, so a set is exact; the   *)
(* state root is that set (the hash is taken to be injective).             *)
(*                                                                         *)
(* A commit may fail in the store after the write GSM has taken the        *)
(* events; nothing takes them out again, and the CF is discarded.  torn    *)
(* records the validators in that condition.                               *)
(*                                                                         *)
(* An event that v has finalized is not chosen again: the one way back     *)
(* into the DAG, a redelivery after GC, is in DagManager.  finalized_cfs   *)
(* is pruned to the latest ones by the code and never within MaxCfs here.  *)
(*                                                                         *)
(* Votes always approve ("in MVP, we always approve valid CFs"), and the   *)
(* validator set is fixed.  Messages are never lost for good, may be       *)
(* delivered in any order, more than once, or never.                       *)
(***************************************************************************)
EXTENDS Integers, FiniteSets, Sequences

CONSTANTS N,                   \* number of validators
          ContiguousRounds,    \* rounds a proposer keeps its turn
          Events,              \* the events that may enter the DAG
          MaxCfs,              \* bound: CFs ever created
          MaxTimeouts,         \* bound: expiries of pending CFs, all validators
          MaxPersistFailures,  \* bound: failed persist_finalized_anchor calls
          MaxCatchUps,         \* bound: runs of the catch-up task
          MaxCommitFailures    \* bound: failed GlobalStateManager.commit calls

ASSUME NAssumption == N \in Nat /\ N > 1
ASSUME RoundsAssumption == ContiguousRounds \in Nat \ {0}
ASSUME BoundsAssumption ==
    /\ MaxCfs \in Nat /\ MaxTimeouts \in Nat
    /\ MaxPersistFailures \in Nat /\ MaxCatchUps \in Nat
    /\ MaxCommitFailures \in Nat

\* Validators in the order of their sorted ids.
Validators == 0 .. N - 1

\* Mutant: the strict majority loses its + 1.
QuorumOffByOne == (N * 2) \div 3

Quorum == (N * 2) \div 3 + 1

\* The round-robin proposer of round r.
Proposer(r) == (r \div ContiguousRounds) % N

\* The chain root before any anchor.
Genesis == 0

Ids == 1 .. MaxCfs

VARIABLES
    cfs,          \* the CFs created so far
    sentVotes,    \* vote broadcasts: pairs <<validator, CF>>
    sentFinal,    \* CFFinalized broadcasts
    round,        \* ValidatorSet.current_round of each validator
    chain,        \* AnchorBuilder.last_anchor_chain_root
    gsm,          \* the write GlobalStateManager
    done,         \* events marked Finalized in the active DAG
    pending,      \* ConsensusManager.pending_cfs
    votes,        \* votes inside the pending CFs, and buffered_votes
    finalized,    \* ConsensusManager.finalized_cfs
    lastFailure,  \* ConsensusManager.last_apply_failure, Genesis when None
    completions,  \* pending_completions: CF and the round it finalized in
    torn,         \* history: validators whose write GSM holds a CF that failed to commit
    anchorStore,  \* anchors durably stored
    cfStore,      \* finalized CFs durably indexed
    pc,           \* what the router loop is doing
    cur,          \* the CF the router is working on
    catching,     \* the catch-up task is running
    applying,     \* the CF the catch-up task is applying, Genesis when none
    timeouts, persistFailures, catchUps, commitFailures  \* how much of each bound is used

net == <<cfs, sentVotes, sentFinal>>
folder == <<chain, gsm, done, pending, votes, finalized, lastFailure, completions, torn>>
store == <<anchorStore, cfStore>>
router == <<pc, cur>>
catchup == <<catching, applying>>
budget == <<timeouts, persistFailures, catchUps, commitFailures>>

vars == <<net, round, folder, store, router, catchup, budget>>

Created == 1 .. Len(cfs)

CfRecord == [round : Nat, proposer : Validators, prev : Nat,
             events : SUBSET Events, root : SUBSET Events]

Completion == [cf : Ids, expected : Nat]

\* One type invariant for the whole state.
TypeOK ==
    /\ cfs \in Seq(CfRecord) /\ Len(cfs) <= MaxCfs
    /\ sentVotes \subseteq Validators \X Ids
    /\ sentFinal \subseteq Ids
    /\ round \in [Validators -> Nat]
    /\ chain \in [Validators -> Ids \cup {Genesis}]
    /\ gsm \in [Validators -> SUBSET Events]
    /\ done \in [Validators -> SUBSET Events]
    /\ pending \in [Validators -> SUBSET Ids]
    /\ votes \in [Validators -> SUBSET (Validators \X Ids)]
    /\ finalized \in [Validators -> Seq(Ids)]
    /\ lastFailure \in [Validators -> Ids \cup {Genesis}]
    /\ completions \in [Validators -> SUBSET Completion]
    /\ torn \subseteq Validators
    /\ anchorStore \in [Validators -> SUBSET Ids]
    /\ cfStore \in [Validators -> SUBSET Ids]
    /\ pc \in [Validators -> {"idle", "cf", "final", "persist", "complete"}]
    /\ cur \in [Validators -> Ids \cup {Genesis}]
    /\ catching \in [Validators -> BOOLEAN]
    /\ applying \in [Validators -> Ids \cup {Genesis}]
    /\ timeouts \in 0 .. MaxTimeouts
    /\ persistFailures \in 0 .. MaxPersistFailures
    /\ catchUps \in 0 .. MaxCatchUps
    /\ commitFailures \in 0 .. MaxCommitFailures

Init ==
    /\ cfs = <<>> /\ sentVotes = {} /\ sentFinal = {}
    /\ round = [v \in Validators |-> 0]
    /\ chain = [v \in Validators |-> Genesis]
    /\ gsm = [v \in Validators |-> {}]
    /\ done = [v \in Validators |-> {}]
    /\ pending = [v \in Validators |-> {}]
    /\ votes = [v \in Validators |-> {}]
    /\ finalized = [v \in Validators |-> <<>>]
    /\ lastFailure = [v \in Validators |-> Genesis]
    /\ completions = [v \in Validators |-> {}]
    /\ torn = {}
    /\ anchorStore = [v \in Validators |-> {}]
    /\ cfStore = [v \in Validators |-> {}]
    /\ pc = [v \in Validators |-> "idle"]
    /\ cur = [v \in Validators |-> Genesis]
    /\ catching = [v \in Validators |-> FALSE]
    /\ applying = [v \in Validators |-> Genesis]
    /\ timeouts = 0 /\ persistFailures = 0 /\ catchUps = 0 /\ commitFailures = 0

-----------------------------------------------------------------------------
(* ConsensusManager: what it knows of a CF.                                *)

\* finalized_cfs as a set.
FinalizedCfs(v) == {finalized[v][k] : k \in 1 .. Len(finalized[v])}

HasCf(v, i) == i \in pending[v] \cup FinalizedCfs(v)

\* pending_builds: the pending CFs this validator prepared itself.
Builds(v) == {i \in pending[v] : cfs[i].proposer = v}

\* collect_in_flight_event_ids: pending_builds and pending_cf_events together.
InFlight(v) == UNION {cfs[i].events : i \in pending[v]}

VotersOf(vs, i) == {w \in Validators : <<w, i>> \in vs}

HasQuorum(vs, i) == Cardinality(VotersOf(vs, i)) >= Quorum

-----------------------------------------------------------------------------
(* AnchorBuilder.                                                          *)

\* The base a CF was prepared on is still the local one (verify_snapshot).
SnapshotMatches(v, i) == chain[v] = cfs[i].prev

\* Mutant: the follower applies without comparing roots.
RootUnchecked(v, i) == TRUE

\* apply_follower_finalized_cf: the root of the state with the CF's events
\* applied equals the declared root.
RootMatches(v, i) == gsm[v] \cup cfs[i].events = cfs[i].root

\* The CF passes the checks made before the write GSM is touched: commit_build
\* for the CF's own builder; on a snapshot mismatch, and for every other
\* validator, the follower path with its root check.
ApplySucceeds(v, i) ==
    \/ i \in Builds(v) /\ SnapshotMatches(v, i)
    \/ RootMatches(v, i)

\* The follower's list of events may be short (MissingEvents) when the DAG has
\* finalized one of them with another CF and collected it; a builder has its own.
MayMissEvents(v, i) == i \notin Builds(v) /\ cfs[i].events \cap done[v] # {}

\* The write GSM takes the events: apply_committed_events.
Apply(v, i) == gsm' = [gsm EXCEPT ![v] = @ \cup cfs[i].events]

\* A CF that reached quorum is applied and queued for completion:
\* classify_finalization with handle_finalization.  A torn state is whole again
\* when it is the one the CF declares.
Commit(v, i) ==
    /\ ApplySucceeds(v, i)
    /\ Apply(v, i)
    /\ done' = [done EXCEPT ![v] = @ \cup cfs[i].events]
    /\ chain' = [chain EXCEPT ![v] = i]
    /\ finalized' = [finalized EXCEPT ![v] = Append(@, i)]
    /\ lastFailure' = [lastFailure EXCEPT ![v] = Genesis]
    /\ completions' = [completions EXCEPT
                         ![v] = @ \cup {[cf |-> i, expected |-> round[v]]}]
    /\ torn' = IF RootMatches(v, i) THEN torn \ {v} ELSE torn
    /\ UNCHANGED commitFailures

\* GlobalStateManager.commit fails after apply_committed_events: ApplyFailed,
\* with the events left in the write GSM and the chain root where it was.
CommitFails(v, i) ==
    /\ ApplySucceeds(v, i)
    /\ commitFailures < MaxCommitFailures
    /\ commitFailures' = commitFailures + 1
    /\ Apply(v, i)
    /\ lastFailure' = [lastFailure EXCEPT ![v] = i]
    /\ torn' = torn \cup {v}
    /\ UNCHANGED <<done, chain, finalized, completions>>

\* Mutant: the root is verified on the write GSM itself instead of a clone.
DiscardKeepsEvents(v, i) ==
    /\ ~ApplySucceeds(v, i)
    /\ Apply(v, i)
    /\ lastFailure' = [lastFailure EXCEPT ![v] = i]
    /\ UNCHANGED <<done, chain, finalized, completions, torn, commitFailures>>

\* ApplyFailed before the write GSM is touched: the CF is discarded, its events
\* stay pending in the DAG.
Discard(v, i) ==
    /\ ~ApplySucceeds(v, i) \/ MayMissEvents(v, i)
    /\ lastFailure' = [lastFailure EXCEPT ![v] = i]
    /\ UNCHANGED <<gsm, done, chain, finalized, completions, torn, commitFailures>>

Decide(v, i) == Commit(v, i) \/ CommitFails(v, i) \/ Discard(v, i)

\* The CF leaves pending_cfs with its votes.
Forget(v, i, vs) ==
    /\ pending' = [pending EXCEPT ![v] = @ \ {i}]
    /\ votes' = [votes EXCEPT ![v] = {p \in vs : p[2] # i}]

\* classify_finalization of CF i at v, once its votes are vs: quorum, else
\* timeout, else still pending.
Classify(v, i, vs) ==
    \/ /\ HasQuorum(vs, i)
       /\ Decide(v, i)
       /\ Forget(v, i, vs)
       /\ UNCHANGED timeouts
    \/ /\ ~HasQuorum(vs, i)
       /\ timeouts < MaxTimeouts
       /\ timeouts' = timeouts + 1
       /\ Forget(v, i, vs)
       /\ UNCHANGED <<gsm, done, chain, finalized, lastFailure, completions, torn,
                      commitFailures>>
    \/ /\ ~HasQuorum(vs, i)
       /\ pending' = [pending EXCEPT ![v] = @ \cup {i}]
       /\ votes' = [votes EXCEPT ![v] = vs]
       /\ UNCHANGED <<gsm, done, chain, finalized, lastFailure, completions, torn,
                      commitFailures, timeouts>>

\* The router goes on to persist what its event has just finalized.
RouterAfter(v, i) ==
    \/ /\ finalized' # finalized
       /\ pc' = [pc EXCEPT ![v] = "persist"]
       /\ cur' = [cur EXCEPT ![v] = i]
    \/ /\ finalized' = finalized
       /\ pc' = [pc EXCEPT ![v] = "idle"]
       /\ cur' = [cur EXCEPT ![v] = Genesis]

-----------------------------------------------------------------------------
(* Proposing.                                                              *)

\* The pending events that no open CF holds; prepare_build keeps some of them
\* (the fold policy and the size limit defer the others).
Selectable(v) == Events \ (done[v] \cup InFlight(v))

\* prepare_build: the CF declares its base and the state root it leads to.
PreparedCf(v, r, E) ==
    [round |-> r, proposer |-> v, prev |-> chain[v], events |-> E, root |-> gsm[v] \cup E]

\* finalize_pending_build, and the proposer's own vote: the CF becomes pending.
OpenBuild(v, cf) ==
    LET i == Len(cfs) + 1 IN
    /\ cfs' = Append(cfs, cf)
    /\ pending' = [pending EXCEPT ![v] = @ \cup {i}]
    /\ votes' = [votes EXCEPT ![v] = @ \cup {<<v, i>>}]
    /\ sentVotes' = sentVotes \cup {<<v, i>>}

\* Mutant: can_start_new_pending_build is not consulted.
TryCreateCfUnguarded(v, r, E) ==
    /\ Len(cfs) < MaxCfs
    /\ r <= round[v] /\ Proposer(r) = v
    /\ E # {} /\ E \subseteq Selectable(v)
    /\ OpenBuild(v, PreparedCf(v, r, E))
    /\ UNCHANGED <<sentFinal, round, chain, gsm, done, finalized, lastFailure,
                   completions, torn, store, router, catchup, budget>>

\* try_create_cf and try_create_cf_heartbeat.  The round is read and the
\* proposer checked under a lock that is dropped before the manager is
\* locked, so a delayed task may still use any earlier round that was v's.
TryCreateCf(v, r, E) ==
    /\ Len(cfs) < MaxCfs
    /\ r <= round[v] /\ Proposer(r) = v
    /\ Builds(v) = {}
    /\ E # {} /\ E \subseteq Selectable(v)
    /\ OpenBuild(v, PreparedCf(v, r, E))
    /\ UNCHANGED <<sentFinal, round, chain, gsm, done, finalized, lastFailure,
                   completions, torn, store, router, catchup, budget>>

-----------------------------------------------------------------------------
(* The router: a proposal.  Every check is made before the events are      *)
(* fetched; only has_cf is repeated after that await.                      *)

StartReceiveCf(v, i) ==
    /\ pc[v] = "idle" /\ v # cfs[i].proposer
    /\ Proposer(cfs[i].round) = cfs[i].proposer
    /\ cfs[i].round = round[v]
    /\ SnapshotMatches(v, i)
    /\ ~HasCf(v, i)
    /\ pc' = [pc EXCEPT ![v] = "cf"]
    /\ cur' = [cur EXCEPT ![v] = i]
    /\ UNCHANGED <<net, round, folder, store, catchup, budget>>

\* The votes inside a CF once it is received: the buffered ones, the embedded
\* vote of the proposer and this validator's own.
VotesAtReceipt(v, i) == votes[v] \cup {<<cfs[i].proposer, i>>, <<v, i>>}

\* The events are there: the CF becomes pending, v votes, and it is classified.
FinishReceiveCf(v) ==
    LET i == cur[v] IN
    /\ pc[v] = "cf" /\ ~HasCf(v, i)
    /\ Classify(v, i, VotesAtReceipt(v, i))
    /\ RouterAfter(v, i)
    /\ sentVotes' = sentVotes \cup {<<v, i>>}
    /\ UNCHANGED <<cfs, sentFinal, round, store, catchup, persistFailures, catchUps>>

\* The fetch fails for good, or another task has got the CF meanwhile.
DropReceived(v) ==
    /\ pc[v] \in {"cf", "final"}
    /\ pc' = [pc EXCEPT ![v] = "idle"]
    /\ cur' = [cur EXCEPT ![v] = Genesis]
    /\ UNCHANGED <<net, round, folder, store, catchup, budget>>

-----------------------------------------------------------------------------
(* The router: a vote.                                                     *)

\* A vote for a CF that is not pending is buffered, and a second vote of the
\* same validator changes nothing.  The code buffers a vote for a CF that is
\* already finalized too; nothing reads it again, so votes does not hold it.
ReceiveVote(v, w, i) ==
    /\ pc[v] = "idle" /\ v # w /\ i \notin FinalizedCfs(v)
    /\ <<w, i>> \in sentVotes \ votes[v]
    /\ \/ /\ i \in pending[v]
          /\ Classify(v, i, votes[v] \cup {<<w, i>>})
          /\ RouterAfter(v, i)
       \/ /\ i \notin pending[v]
          /\ votes' = [votes EXCEPT ![v] = @ \cup {<<w, i>>}]
          /\ UNCHANGED <<chain, gsm, done, pending, finalized, lastFailure,
                         completions, torn, router, timeouts, commitFailures>>
    /\ UNCHANGED <<net, round, store, catchup, persistFailures, catchUps>>

-----------------------------------------------------------------------------
(* A CF some validator has finalized.  Its votes hold a quorum, and they   *)
(* are merged into the pending CF, so the classification is "finalize".    *)

FinalizedCheck(v, i) == i \notin FinalizedCfs(v) /\ SnapshotMatches(v, i)

ApplyFinalized(v, i) ==
    /\ Decide(v, i)
    /\ Forget(v, i, votes[v])

StartReceiveFinalized(v, i) ==
    /\ pc[v] = "idle" /\ i \in sentFinal
    /\ FinalizedCheck(v, i)
    /\ pc' = [pc EXCEPT ![v] = "final"]
    /\ cur' = [cur EXCEPT ![v] = i]
    /\ UNCHANGED <<net, round, folder, store, catchup, budget>>

FinishReceiveFinalized(v) ==
    LET i == cur[v] IN
    /\ pc[v] = "final" /\ i \notin FinalizedCfs(v)
    /\ ApplyFinalized(v, i)
    /\ RouterAfter(v, i)
    /\ UNCHANGED <<net, round, store, catchup, timeouts, persistFailures, catchUps>>

-----------------------------------------------------------------------------
(* The router: persist_finalized_anchor, then complete_pending_finalizations. *)

\* pending_persist_cfs: the finalized CFs that are not indexed yet.
Unindexed(v) == FinalizedCfs(v) \ cfStore[v]

\* C is what gets indexed; a CF whose write fails stays queued, and the anchor
\* is stored all the same while that CF has retries left.
Persist(v, C) ==
    /\ pc[v] = "persist"
    /\ C # Unindexed(v) => persistFailures < MaxPersistFailures
    /\ persistFailures' = IF C = Unindexed(v) THEN persistFailures ELSE persistFailures + 1
    /\ cfStore' = [cfStore EXCEPT ![v] = @ \cup C]
    /\ anchorStore' = [anchorStore EXCEPT ![v] = @ \cup {cur[v]}]
    /\ pc' = [pc EXCEPT ![v] = "complete"]
    /\ UNCHANGED <<net, round, folder, cur, catchup, timeouts, catchUps, commitFailures>>

\* Mutant: a failed persist is treated like a finished one.
PersistFailsUnnoticed(v, C) ==
    /\ pc[v] = "persist"
    /\ persistFailures < MaxPersistFailures
    /\ persistFailures' = persistFailures + 1
    /\ cfStore' = [cfStore EXCEPT ![v] = @ \cup C]
    /\ pc' = [pc EXCEPT ![v] = "complete"]
    /\ UNCHANGED <<net, round, folder, anchorStore, cur, catchup, timeouts, catchUps, commitFailures>>

\* The events are not stored, or a CF is out of retries, or the anchor is not
\* stored.  "(will retry)": the loop takes the next message.
PersistFails(v, C) ==
    /\ pc[v] = "persist"
    /\ persistFailures < MaxPersistFailures
    /\ persistFailures' = persistFailures + 1
    /\ cfStore' = [cfStore EXCEPT ![v] = @ \cup C]
    /\ pc' = [pc EXCEPT ![v] = "idle"]
    /\ cur' = [cur EXCEPT ![v] = Genesis]
    /\ UNCHANGED <<net, round, folder, anchorStore, catchup, timeouts, catchUps, commitFailures>>

\* Mutant: the slot is cleared before the CF is broadcast from it.
CompleteClearedFirst(v) ==
    /\ pc[v] = "complete"
    /\ \E e \in completions[v] :
         /\ e.cf = cur[v]
         /\ completions' = [completions EXCEPT ![v] = @ \ {e}]
         /\ round' = [round EXCEPT ![v] = IF @ = e.expected THEN @ + 1 ELSE @]
    /\ cur' = [cur EXCEPT ![v] = Genesis]
    /\ sentFinal' = sentFinal \cup {cur'[v]}
    /\ pc' = [pc EXCEPT ![v] = "idle"]
    /\ UNCHANGED <<cfs, sentVotes, chain, gsm, done, pending, votes, finalized,
                   lastFailure, torn, store, catchup, budget>>

\* Only the entries whose anchor is persisted leave the queue: each CF is
\* broadcast and the round advances if nothing has advanced it meanwhile.
Complete(v) ==
    /\ pc[v] = "complete"
    /\ \E e \in completions[v] :
         /\ e.cf = cur[v]
         /\ completions' = [completions EXCEPT ![v] = @ \ {e}]
         /\ round' = [round EXCEPT ![v] = IF @ = e.expected THEN @ + 1 ELSE @]
    /\ sentFinal' = sentFinal \cup {cur[v]}
    /\ pc' = [pc EXCEPT ![v] = "idle"]
    /\ cur' = [cur EXCEPT ![v] = Genesis]
    /\ UNCHANGED <<cfs, sentVotes, chain, gsm, done, pending, votes, finalized,
                   lastFailure, torn, store, catchup, budget>>

-----------------------------------------------------------------------------
(* The catch-up task pulls CFs that a peer has indexed and this validator  *)
(* has not, and applies them with receive_finalized_cf; nothing persists   *)
(* or completes them.  It runs at startup, when the router already serves  *)
(* messages.  A CF from a later round asks for it too (NeedsCatchUp), but  *)
(* the router is given no client for it and drops the CF.                  *)

StartCatchUp(v) ==
    /\ ~catching[v]
    /\ catchUps < MaxCatchUps
    /\ catchUps' = catchUps + 1
    /\ catching' = [catching EXCEPT ![v] = TRUE]
    /\ UNCHANGED <<net, round, folder, store, router, applying, timeouts, persistFailures,
                   commitFailures>>

StartCatchUpApply(v, w, i) ==
    /\ catching[v] /\ applying[v] = Genesis
    /\ i \in cfStore[w] \ cfStore[v]
    /\ FinalizedCheck(v, i)
    /\ applying' = [applying EXCEPT ![v] = i]
    /\ UNCHANGED <<net, round, folder, store, router, catching, budget>>

\* Mutant: is_finalized_cf is not asked again under the write lock.
FinishCatchUpApplyUnchecked(v) ==
    LET i == applying[v] IN
    /\ i # Genesis
    /\ ApplyFinalized(v, i)
    /\ applying' = [applying EXCEPT ![v] = Genesis]
    /\ UNCHANGED <<net, round, store, router, catching, timeouts, persistFailures, catchUps>>

FinishCatchUpApply(v) ==
    LET i == applying[v] IN
    /\ i # Genesis
    /\ \/ i \notin FinalizedCfs(v) /\ ApplyFinalized(v, i)
       \/ i \in FinalizedCfs(v) /\ UNCHANGED <<folder, commitFailures>>
    /\ applying' = [applying EXCEPT ![v] = Genesis]
    /\ UNCHANGED <<net, round, store, router, catching, timeouts, persistFailures, catchUps>>

\* In sync, out of budget, or an error of the source, of the fetch or of a
\* chain root that does not match.
EndCatchUp(v) ==
    /\ catching[v]
    /\ catching' = [catching EXCEPT ![v] = FALSE]
    /\ applying' = [applying EXCEPT ![v] = Genesis]
    /\ UNCHANGED <<net, round, folder, store, router, budget>>

-----------------------------------------------------------------------------
\* cleanup_timeout_cfs, from the maintenance task.
CleanupTimeout(v, i) ==
    /\ i \in pending[v]
    /\ timeouts < MaxTimeouts
    /\ timeouts' = timeouts + 1
    /\ Forget(v, i, votes[v])
    /\ lastFailure' = [lastFailure EXCEPT ![v] = IF @ = i THEN Genesis ELSE @]
    /\ UNCHANGED <<net, round, chain, gsm, done, finalized, completions, torn, store,
                   router, catchup, persistFailures, catchUps, commitFailures>>

Next ==
    \E v \in Validators :
        \/ \E r \in 0 .. round[v], E \in SUBSET Events : TryCreateCf(v, r, E)
        \/ \E i \in Created : StartReceiveCf(v, i)
        \/ FinishReceiveCf(v)
        \/ DropReceived(v)
        \/ \E w \in Validators, i \in Created : ReceiveVote(v, w, i)
        \/ \E i \in Created : StartReceiveFinalized(v, i)
        \/ FinishReceiveFinalized(v)
        \/ \E C \in SUBSET Unindexed(v) : Persist(v, C)
        \/ \E C \in SUBSET Unindexed(v) : PersistFails(v, C)
        \/ Complete(v)
        \/ StartCatchUp(v)
        \/ \E w \in Validators, i \in Created : StartCatchUpApply(v, w, i)
        \/ FinishCatchUpApply(v)
        \/ EndCatchUp(v)
        \/ \E i \in Created : CleanupTimeout(v, i)

Spec == Init /\ [][Next]_vars

-----------------------------------------------------------------------------
(* Properties.                                                             *)

\* The state root committed by the anchor with chain root i.
RootAt(i) == IF i = Genesis THEN {} ELSE cfs[i].root

\* Two validators with the same anchor chain root have the same global state,
\* whichever of the leader path, the fallback and the follower path brought
\* each of them there, however many rival CFs were in flight and whoever else
\* proposed from a torn state.  It is not so for a validator whose own store
\* failed in GlobalStateManager.commit: that one keeps the events of the
\* discarded CF until it commits a CF whose declared root it reaches.
StateRootAgreement ==
    \A v, w \in Validators \ torn : chain[v] = chain[w] => gsm[v] = gsm[w]

\* No validator finalizes a CF unless more than two thirds of all validators
\* voted for it, whether it counted the votes itself (check_quorum), replayed buffered
\* ones, or took the CF from a peer's notification or store.
QuorumBacked ==
    \A v \in Validators : \A i \in FinalizedCfs(v) :
        3 * Cardinality(VotersOf(sentVotes, i)) > 2 * N

\* At most one open pending_build per proposer, with every interleaving of
\* submit_event tasks, heartbeat, timeouts and late votes
\* (can_start_new_pending_build, "BUG-010 Step 2").
OneOpenBuild == \A v \in Validators : Cardinality(Builds(v)) <= 1

\* Proposals form a line: no two CFs were prepared on the same base.
NoRivals == \A i, j \in Created : cfs[i].prev = cfs[j].prev => i = j

Prefix(s, t) == Len(s) <= Len(t) /\ \A k \in 1 .. Len(s) : s[k] = t[k]

\* As long as no two CFs were prepared on one base, all validators finalize
\* the same CFs in the same order, none twice and no event in two of them,
\* although proposals, votes and finalized CFs arrive in any order, catch-up
\* runs beside the router and the chain check of receive_cf is not repeated.
LinearAgreement ==
    NoRivals =>
        \A v, w \in Validators :
            /\ Prefix(finalized[v], finalized[w]) \/ Prefix(finalized[w], finalized[v])
            /\ \A k, l \in 1 .. Len(finalized[v]) :
                  k # l => cfs[finalized[v][k]].events \cap cfs[finalized[v][l]].events = {}

\* A CF is announced as finalized only after some validator has durably
\* stored its anchor, whatever persist failures and catch-up runs came before
\* (mark_anchor_persisted: "no CF broadcast without prior anchor persist").
\* ImplementsTree below implies it.
BroadcastAfterPersist ==
    \A i \in sentFinal : \E v \in Validators : i \in anchorStore[v]

\* The round of a running validator never exceeds the number of anchors it
\* has stored: recover_from_storage, which restarts with round = number of
\* anchors, never moves a validator back to a round it has left.
RoundBackedByAnchors ==
    \A v \in Validators : round[v] <= Cardinality(anchorStore[v])

Tree == INSTANCE AnchorTree WITH
            Nodes <- Validators,
            Quorums <- {Q \in SUBSET Validators : 3 * Cardinality(Q) > 2 * N},
            frames <- cfs, ballots <- sentVotes,
            line <- finalized, ledger <- gsm, torn <- torn, announced <- sentFinal,
            durable <- UNION {anchorStore[v] : v \in Validators}

\* Whatever the leader path, the fallback, the follower path, the router and
\* the catch-up task do, each step of the network is one step of AnchorTree or
\* none: a validator only ever appends to its finalized CFs, each with the
\* votes of more than two thirds, on its own tip when nobody forked, and ending
\* in the declared root unless an earlier commit failed in its store; what a
\* failed commit leaves behind is the events of such a CF and nothing else; CFs
\* are announced after they are stored.
ImplementsTree == Tree!Spec

\* What folder.rs says of the follower path: "CFs finalize in Leader commit
\* order, so the write GSM base state always matches what the Leader computed
\* against", so applying a CF with a quorum never fails.
BaseAlwaysMatches == \A v \in Validators : lastFailure[v] = Genesis

\* What router.rs says of catch-up: afterwards a fresh CF's "round matches the
\* post-catch-up local view", so an idle validator that is not catching up is
\* in the round that follows its finalized anchors.
RoundMatchesView ==
    \A v \in Validators :
        pc[v] = "idle" /\ ~catching[v] => round[v] = Len(finalized[v])
=============================================================================
