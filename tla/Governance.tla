----------------------------- MODULE Governance -----------------------------
(***************************************************************************)
(* Governance on one validator: proposals, the agent's callback, the poll  *)
(* and timeout task, system subnet registrations, their finality, the      *)
(* projector of finalized events, and a restart with DAG replay            *)
(* (setu-validator/src/governance, network/service.rs, dag_replay.rs and   *)
(* main.rs; crates/setu-governance).                                       *)
(*                                                                         *)
(* Every submitted event is a transaction of its own: the Propose event of *)
(* proposal p is p itself.  The state holds the status of each proposal,   *)
(* one parameter that an approved proposal inserts, the resource           *)
(* parameters (the changes made to them) and one subnet registration.      *)
(* Frames hold one event here; State.tla has the others.                   *)
(***************************************************************************)
EXTENDS StateStore, Functions

CONSTANTS Proposals,
          Foreign,         \* those another validator accepted
          Decisions,       \* Execute events
          Registrations,   \* RegisterSystemSubnet events
          Effect,          \* the key an approved proposal changes
          Param, Resource, Subnet,
          MaxRestarts      \* bound

ASSUME GovernanceAssumption ==
    /\ Txs = Proposals \cup Decisions \cup Registrations
    /\ Proposals \cap Decisions = {} /\ Proposals \cap Registrations = {}
    /\ Decisions \cap Registrations = {}
    /\ Keys = Proposals \cup {Param, Resource, Subnet}
    /\ Param # Resource /\ Param # Subnet /\ Resource # Subnet
    /\ {Param, Resource, Subnet} \cap Proposals = {}
    /\ Foreign \subseteq Proposals
    /\ Effect \in [Proposals -> {Param, Resource}]
    /\ None \notin Txs \cup {"pending", "approved", "rejected"}
    /\ None \notin Nat /\ \A S \in SUBSET Proposals : None # S
    /\ MaxRestarts \in Nat

VARIABLES pc,         \* the handler of each event: "start", "submitted", "done"
          about,      \* the proposal a decision is about
          byLoop,     \* the decision the poll task is submitting, or None
          polled,     \* proposals of its snapshot of all_pending
          result,     \* the ExecutionResult of each event
          depth,      \* its DAG depth on this validator, 0 before it arrives
          maxDepth,
          pendingGov, \* pending_governance: the token epoch of each, or None
          decided,    \* decided_proposals: what the status request answers
          epoch,      \* tokens are made anew by every start
          calls,      \* <<proposal, epoch>> given to the agent
          overlay,    \* events staged in the speculative overlay, in order
          dag,        \* events that are not final
          smt,        \* finalized state
          unsaved,    \* final and committed, their persistence still to come, in order
          missed,     \* final and committed, never to be announced in this epoch
          store,      \* events in the event store
          todo,       \* final events the projector has not seen, in order
          applied,    \* history: events whose outcome is Applied
          tracker,    \* proposal_tracker
          registry,   \* SystemSubnetRegistry: the registration, None for bootstrap
          lost,       \* in flight or unsaved at a crash: peers may still have them
          stranded    \* history: proposals with a stale Execute, or a lost Propose

handlerVars == <<pc, about, byLoop, polled>>
serviceVars == <<pendingGov, decided, epoch, calls, overlay, tracker, registry>>
ledgerVars == <<smt, unsaved, missed, store, applied, lost, stranded>>
vars == <<handlerVars, result, depth, maxDepth, serviceVars, dag, ledgerVars, todo>>

Init ==
    /\ pc = [t \in Txs |-> "start"]
    /\ about = [d \in Decisions |-> None]
    /\ byLoop = None /\ polled = {}
    /\ result = [t \in Txs |-> None]
    /\ depth = [t \in Txs |-> 0] /\ maxDepth = 0
    /\ pendingGov = [p \in Proposals |-> None]
    /\ decided = [p \in Proposals |-> None]
    /\ epoch = 0 /\ calls = {} /\ overlay = << >>
    /\ dag = {} /\ smt = [k \in Keys |-> None]
    /\ unsaved = << >> /\ missed = {} /\ store = {} /\ todo = << >> /\ applied = {}
    /\ tracker = {} /\ registry = None
    /\ lost = {} /\ stranded = {}

-----------------------------------------------------------------------------
(* What the events do.                                                     *)

Change(k, o, n) == [key |-> k, old |-> o, new |-> n]

\* get_subnet_object: the newest staged change of the key, else the state.
View(k) ==
    LET S == {i \in DOMAIN overlay : k \in WriteKeys(result[overlay[i]])}
        r == result[overlay[Last(S)]]
    IN  IF S = {} THEN smt[k] ELSE Shadow(smt, r.changes, Len(r.changes), k)

\* Mutant: resource parameters always start from the defaults.
EffectChangeFromDefaults(p, now) ==
    IF Effect[p] = Resource THEN Change(Resource, now, {p}) ELSE Change(Param, None, p)

\* materialize_effects: resource parameters are read and written back, the
\* other effects are inserts.
EffectChange(p, now) ==
    IF Effect[p] = Resource
    THEN Change(Resource, now, (IF now = None THEN {} ELSE now) \cup {p})
    ELSE Change(Param, None, p)

\* execute_propose, and execute_decision by way of transition and
\* EffectExecutor::execute: a rejection changes the proposal alone.
ProposeResult(p) == [ok |-> TRUE, changes |-> <<Change(p, None, "pending")>>]

ExecuteResult(p, approved, now) ==
    [ok |-> TRUE,
     changes |-> IF approved
                 THEN <<Change(p, "pending", "approved"), EffectChange(p, now)>>
                 ELSE <<Change(p, "pending", "rejected")>>]

\* execute_register_system_subnet: an update of what is finalized, or a create.
RegisterResult(g) == [ok |-> TRUE, changes |-> <<Change(Subnet, smt[Subnet], g)>>]

\* Mutant: the first event without parents is taken for genesis.
EnterDagAsGenesis(t, r) ==
    /\ dag' = dag \cup {t}
    /\ result' = [result EXCEPT ![t] = r]
    /\ depth' = [depth EXCEPT ![t] = maxDepth]
    /\ maxDepth' = maxDepth + 1

\* The event enters the DAG.  It has no parents, so its depth is the largest.
EnterDag(t, r) ==
    /\ dag' = dag \cup {t}
    /\ result' = [result EXCEPT ![t] = r]
    /\ depth' = [depth EXCEPT ![t] = maxDepth + 1]
    /\ maxDepth' = maxDepth + 1

-----------------------------------------------------------------------------
(* Handlers.  A refused submission leaves everything as it was.            *)

\* governance_propose_handler up to the end of add_event_to_dag, and after it.
Propose(p) ==
    /\ p \in Proposals \ Foreign /\ pc[p] = "start"
    /\ EnterDag(p, ProposeResult(p))
    /\ pc' = [pc EXCEPT ![p] = "submitted"]
    /\ UNCHANGED <<about, byLoop, polled, serviceVars, ledgerVars, todo>>

SettlePropose(p) ==
    /\ p \in Proposals /\ pc[p] = "submitted"
    /\ pc' = [pc EXCEPT ![p] = "done"]
    /\ pendingGov' = [pendingGov EXCEPT ![p] = epoch]
    /\ overlay' = Append(overlay, p)
    /\ calls' = calls \cup {<<p, epoch>>}
    /\ UNCHANGED <<about, byLoop, polled, result, depth, maxDepth, decided, epoch, tracker, registry, dag,
                   ledgerVars, todo>>

\* A proposal that cannot be read yet is taken for pending.
Undecided(p) == View(p) \in {None, "pending"}

\* execute_decision by way of prepare_execute or prepare_timeout_execute.
Decide(d, p, approved) ==
    /\ d \in Decisions /\ pc[d] = "start" /\ Undecided(p)
    /\ EnterDag(d, ExecuteResult(p, approved, View(Resource)))
    /\ pc' = [pc EXCEPT ![d] = "submitted"]
    /\ about' = [about EXCEPT ![d] = p]
    /\ UNCHANGED <<serviceVars, ledgerVars, todo>>

\* Mutant: the pending entry is consumed first, and the submission fails.
CallbackConsumes(d, p, e, approved) ==
    /\ <<p, e>> \in calls /\ pendingGov[p] = e
    /\ pendingGov' = [pendingGov EXCEPT ![p] = None]
    /\ IF pc[d] = "start" THEN pc' = [pc EXCEPT ![d] = "done"] ELSE UNCHANGED pc
    /\ UNCHANGED <<about, byLoop, polled, result, depth, maxDepth, decided, epoch, calls, overlay, tracker,
                   registry, dag, ledgerVars, todo>>

\* governance_callback_handler: the token must be the one of the pending entry.
Callback(d, p, e, approved) ==
    /\ <<p, e>> \in calls /\ pendingGov[p] = e
    /\ Decide(d, p, approved)
    /\ UNCHANGED <<byLoop, polled>>

\* The poll task takes all_pending and goes through it, one after the other.
PollTick ==
    /\ byLoop = None /\ polled = {}
    /\ polled' = {p \in Proposals : pendingGov[p] # None}
    /\ polled' # {}
    /\ UNCHANGED <<pc, about, byLoop, result, depth, maxDepth, serviceVars, dag, ledgerVars, todo>>

\* No result yet, or an error: the next one.
PollNothing(p) ==
    /\ byLoop = None /\ p \in polled
    /\ polled' = polled \ {p}
    /\ UNCHANGED <<pc, about, byLoop, result, depth, maxDepth, serviceVars, dag, ledgerVars, todo>>

PollResult(d, p, approved) ==
    /\ byLoop = None /\ p \in polled /\ pendingGov[p] # None
    /\ polled' = polled \ {p} /\ byLoop' = d
    /\ Decide(d, p, approved)

\* The timeout asks no token: the entry may have been removed meanwhile.
PollTimeout(d, p) ==
    /\ byLoop = None /\ p \in polled
    /\ polled' = polled \ {p} /\ byLoop' = d
    /\ Decide(d, p, FALSE)

\* After add_event_to_dag: remove_pending, record_decided, then the overlay.
SettleExecute(d) ==
    /\ d \in Decisions /\ pc[d] = "submitted"
    /\ pc' = [pc EXCEPT ![d] = "done"]
    /\ pendingGov' = [pendingGov EXCEPT ![about[d]] = None]
    /\ decided' = [decided EXCEPT ![about[d]] = result[d].changes[1].new]
    /\ overlay' = Append(overlay, d)
    /\ byLoop' = IF byLoop = d THEN None ELSE byLoop
    /\ UNCHANGED <<about, polled, result, depth, maxDepth, epoch, calls, tracker, registry, dag,
                   ledgerVars, todo>>

\* governance_register_system_subnet_handler.
Register(g) ==
    /\ g \in Registrations /\ pc[g] = "start"
    /\ EnterDag(g, RegisterResult(g))
    /\ pc' = [pc EXCEPT ![g] = "submitted"]
    /\ UNCHANGED <<about, byLoop, polled, serviceVars, ledgerVars, todo>>

SettleRegister(g) ==
    /\ g \in Registrations /\ pc[g] = "submitted"
    /\ pc' = [pc EXCEPT ![g] = "done"]
    /\ overlay' = Append(overlay, g)
    /\ UNCHANGED <<about, byLoop, polled, result, depth, maxDepth, pendingGov, decided, epoch, calls, tracker,
                   registry, dag, ledgerVars, todo>>

\* Events of another validator arrive, in any order.  It decides on proposals
\* that it accepted, and after a restart on every open one: DAG replay gives it
\* those of this validator too, once their Propose events have reached it.
ArrivePropose(p) ==
    /\ p \in Foreign /\ pc[p] = "start"
    /\ EnterDag(p, ProposeResult(p))
    /\ pc' = [pc EXCEPT ![p] = "done"]
    /\ UNCHANGED <<about, byLoop, polled, serviceVars, ledgerVars, todo>>

ArriveExecute(d, p, approved) ==
    /\ d \in Decisions /\ pc[d] = "start" /\ (p \in Foreign \/ pc[p] # "start")
    /\ EnterDag(d, ExecuteResult(p, approved, smt[Resource]))
    /\ pc' = [pc EXCEPT ![d] = "done"]
    /\ about' = [about EXCEPT ![d] = p]
    /\ UNCHANGED <<byLoop, polled, serviceVars, ledgerVars, todo>>

-----------------------------------------------------------------------------
(* Finality, projection, restart.                                          *)

\* The overlay without t, the others in their order.
Cleared(t) ==
    LET kept[n \in 0 .. Len(overlay)] ==
            IF n = 0 THEN << >>
            ELSE IF overlay[n] = t THEN kept[n - 1] ELSE Append(kept[n - 1], overlay[n])
    IN  kept[Len(overlay)]

\* A CF with the event is applied and committed; the overlay is cleared.
Finalize(t) ==
    /\ t \in dag
    /\ dag' = dag \ {t}
    /\ smt' = ApplyOne(smt, result[t])
    /\ applied' = IF Verdict(smt, result[t]) = "applied" THEN applied \cup {t} ELSE applied
    /\ stranded' = IF t \in Decisions /\ t \notin applied' THEN stranded \cup {about[t]} ELSE stranded
    /\ overlay' = Cleared(t)
    /\ unsaved' = Append(unsaved, t)
    /\ UNCHANGED <<handlerVars, result, depth, maxDepth, pendingGov, decided, epoch, calls, tracker, registry,
                   missed, store, lost, todo>>

\* persist_finalized_anchor, then the CF is announced to the projector.
Persist ==
    /\ unsaved # << >>
    /\ unsaved' = Tail(unsaved)
    /\ store' = store \cup {Head(unsaved)}
    /\ todo' = Append(todo, Head(unsaved))
    /\ UNCHANGED <<handlerVars, result, depth, maxDepth, serviceVars, dag, smt, missed, applied, lost,
                   stranded>>

\* The same fails, before or after the events were stored, or does not happen
\* at all (a CF of the catch-up task): the CF is not announced, and the CFs
\* after it go on.
Miss(saved) ==
    /\ unsaved # << >>
    /\ unsaved' = Tail(unsaved)
    /\ missed' = missed \cup {Head(unsaved)}
    /\ store' = IF saved THEN store \cup {Head(unsaved)} ELSE store
    /\ UNCHANGED <<handlerVars, result, depth, maxDepth, serviceVars, dag, smt, applied, lost, stranded,
                   todo>>

\* What is final and not in the event store.
Unstored == (Range(unsaved) \cup missed) \ store

\* Mutant: side effects are applied whatever became of the event.
ProjectAnything ==
    /\ todo # << >>
    /\ todo' = Tail(todo)
    /\ LET t == Head(todo) IN
       /\ tracker' = IF t \in Proposals THEN tracker \cup {t}
                     ELSE IF t \in Decisions THEN tracker \ {about[t]} ELSE tracker
       /\ registry' = IF t \in Registrations THEN t ELSE registry
    /\ UNCHANGED <<handlerVars, result, depth, maxDepth, pendingGov, decided, epoch, calls, overlay, dag,
                   ledgerVars>>

\* apply_live_finalized_side_effects of an event that was applied.
Project ==
    /\ todo # << >>
    /\ todo' = Tail(todo)
    /\ LET t == Head(todo) IN
       /\ tracker' = IF t \notin applied THEN tracker
                     ELSE IF t \in Proposals THEN tracker \cup {t}
                     ELSE IF t \in Decisions THEN tracker \ {about[t]} ELSE tracker
       /\ registry' = IF t \in applied \cap Registrations THEN t ELSE registry
    /\ UNCHANGED <<handlerVars, result, depth, maxDepth, pendingGov, decided, epoch, calls, overlay, dag,
                   ledgerVars>>

\* Mutant: Execute events are passed over.
ReplayedProposes == {p \in Proposals : p \in store}

\* replay_all in order of depth: an Execute event takes out what a Propose
\* event before it put in, applied or not.
Replayed ==
    {p \in Proposals : p \in store /\
        \A d \in Decisions : d \in store /\ about[d] = p => depth[d] < depth[p]}

\* apply_replay_event registers the registration that is the finalized one.
ReplayedRegistry ==
    IF \E g \in Registrations : g \in store /\ smt[Subnet] = g THEN smt[Subnet] ELSE None

\* A crash, and the start after it: what is committed and stored remains, the
\* proposals that replay finds open are pending again under new tokens.
Restart ==
    /\ epoch < MaxRestarts
    /\ epoch' = epoch + 1
    /\ lost' = lost \cup dag \cup Unstored
    /\ stranded' = stranded \cup ((dag \cup Unstored) \cap Proposals)
    /\ dag' = {} /\ unsaved' = << >> /\ missed' = {} /\ todo' = << >>
    /\ overlay' = << >> /\ tracker' = {} /\ decided' = [p \in Proposals |-> None]
    /\ registry' = ReplayedRegistry
    /\ pendingGov' = [p \in Proposals |-> IF p \in Replayed THEN epoch' ELSE None]
    /\ calls' = calls \cup {<<p, epoch'>> : p \in Replayed}
    /\ pc' = [t \in Txs |-> IF pc[t] = "submitted" THEN "done" ELSE pc[t]]
    /\ byLoop' = None /\ polled' = {}
    /\ UNCHANGED <<about, result, depth, maxDepth, smt, store, applied>>

\* A peer still has an event that the crash lost.
Redeliver(t) ==
    /\ t \in lost
    /\ lost' = lost \ {t}
    /\ EnterDag(t, result[t])
    /\ UNCHANGED <<handlerVars, serviceVars, smt, unsaved, missed, store, applied, stranded, todo>>

Next ==
    \/ \E p \in Proposals : \/ Propose(p) \/ SettlePropose(p) \/ ArrivePropose(p)
                            \/ PollNothing(p)
    \/ \E d \in Decisions, p \in Proposals, approved \in BOOLEAN :
           \/ \E e \in 0 .. epoch : Callback(d, p, e, approved)
           \/ PollResult(d, p, approved)
           \/ ArriveExecute(d, p, approved)
    \/ \E d \in Decisions, p \in Proposals : PollTimeout(d, p)
    \/ \E d \in Decisions : SettleExecute(d)
    \/ \E g \in Registrations : Register(g) \/ SettleRegister(g)
    \/ PollTick \/ Persist \/ Project \/ Restart
    \/ \E saved \in BOOLEAN : Miss(saved)
    \/ \E t \in Txs : Finalize(t) \/ Redeliver(t)

Spec == Init /\ [][Next]_vars

-----------------------------------------------------------------------------
(* Properties.                                                             *)

\* What a key may hold.
ValuesAt(k) ==
    {None} \cup (IF k \in Proposals THEN {"pending", "approved", "rejected"}
                 ELSE IF k = Param THEN Proposals
                 ELSE IF k = Resource THEN SUBSET Proposals
                 ELSE Registrations)

ResultOK(r) ==
    /\ r.ok /\ Len(r.changes) \in 1 .. 2
    /\ \A i \in DOMAIN r.changes :
           /\ r.changes[i].key \in Keys
           /\ r.changes[i].old \in ValuesAt(r.changes[i].key)
           /\ r.changes[i].new \in ValuesAt(r.changes[i].key)

TypeOK ==
    /\ pc \in [Txs -> {"start", "submitted", "done"}]
    /\ about \in [Decisions -> Proposals \cup {None}]
    /\ byLoop \in Decisions \cup {None} /\ polled \in SUBSET Proposals
    /\ \A t \in Txs : IF depth[t] = 0 THEN result[t] = None ELSE ResultOK(result[t])
    /\ depth \in [Txs -> Nat] /\ maxDepth \in Nat
    /\ epoch \in 0 .. MaxRestarts
    /\ pendingGov \in [Proposals -> (0 .. epoch) \cup {None}]
    /\ decided \in [Proposals -> {"approved", "rejected", None}]
    /\ calls \in SUBSET (Proposals \X (0 .. epoch))
    /\ overlay \in Seq(Txs) /\ todo \in Seq(Txs)
    /\ dag \in SUBSET Txs /\ unsaved \in Seq(Txs)
    /\ missed \in SUBSET Txs /\ store \in SUBSET Txs
    /\ applied \in SUBSET Txs /\ lost \in SUBSET Txs
    /\ DOMAIN smt = Keys /\ \A k \in Keys : smt[k] \in ValuesAt(k)
    /\ tracker \in SUBSET Proposals /\ stranded \in SUBSET Proposals
    /\ registry \in Registrations \cup {None}

\* A proposal is decided once: callbacks, polls, timeouts, other validators and
\* redelivered events may all submit an Execute of it, and the stale-read check
\* lets one through (ProposalStateMachine::transition only sees what was read).
\* ImplementsBook below implies it.
DecidedOnce ==
    [][\A p \in Proposals : smt[p] \in {"approved", "rejected"} => smt'[p] = smt[p]]_vars

\* The effect of a proposal and its verdict go together: every approved change
\* of the resource parameters is in them, although two decisions may have read
\* the same parameters, and nothing else is.
EffectsMatchVerdicts ==
    LET approvedFor(k) == {p \in Proposals : Effect[p] = k /\ smt[p] = "approved"} IN
    /\ approvedFor(Resource) = IF smt[Resource] = None THEN {} ELSE smt[Resource]
    /\ approvedFor(Param) = {smt[Param]} \ {None}

\* An own proposal that is finally pending is in pending_governance, where the
\* timeout finds it, or its Execute event is under way.  Two things strand it:
\* an Execute that turned out stale, and a crash before its Propose event is in
\* the event store (check_takeover_candidates, meant for that, is never called).
\* pc = "submitted" also excuses a propose handler that is dropped between the
\* submission and register_pending.
NoneStranded ==
    \A p \in Proposals \ (Foreign \cup stranded) :
        smt[p] = "pending" => \/ pendingGov[p] # None
                              \/ pc[p] = "submitted"
                              \/ \E d \in dag : d \in Decisions /\ about[d] = p

\* DAG replay brings back only proposals that are still to be decided, unless
\* an applied event is not in the event store: a crash, this one or an earlier
\* one, came between the two, the persistence failed, or a catch-up applied it.
\* The depths it goes by survive a crash: recover_from_storage restores the
\* largest one as the floor of those to come.
RestoredUndecided ==
    [][epoch' # epoch /\ applied \subseteq store =>
         \A p \in Proposals \ (Foreign \cup stranded) :
             pendingGov'[p] # None => smt[p] = "pending"]_vars

\* Until the first crash the projector leaves the tracker with exactly the
\* pending proposals and the registry with the finalized registration.  It says
\* nothing once a CF has gone unannounced: its persistence failed, or it came by
\* catch-up, and then its side effects are never applied.
ProjectionExact ==
    epoch = 0 /\ todo = << >> /\ unsaved = << >> /\ missed = {} =>
        /\ tracker = {p \in Proposals : smt[p] = "pending"}
        /\ registry = smt[Subnet]

Book == INSTANCE ProposalBook WITH
            Joins <- {p \in Proposals : Effect[p] = Resource},
            status <- [p \in Proposals |-> smt[p]],
            resources <- IF smt[Resource] = None THEN {} ELSE smt[Resource],
            inserted <- smt[Param], subnet <- smt[Subnet]

\* Callbacks, polls, timeouts and other validators decide on what they read
\* earlier, two at a time, and a crash loses and redelivers their events; yet
\* the finalized state moves like ProposalBook: a verdict and its effect in one
\* step, on the parameters of that moment, once for each proposal.
ImplementsBook == Book!Spec
=============================================================================
