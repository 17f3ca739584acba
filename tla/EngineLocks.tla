---------------------------- MODULE EngineLocks ----------------------------
(***************************************************************************)
(* The locks of ConsensusEngine (consensus/src/engine.rs) and the order in *)
(* which its methods take them: dag and consensus_manager, which are       *)
(* nested in both directions, and vlc, which try_create_cf keeps while it  *)
(* waits for the other two.  Each method is the sequence of lock steps of  *)
(* its source; what it does between two of them is left out.  Locks that   *)
(* cannot be part of a cycle are left out: the holders of validator_set    *)
(* and of the queues wait for nothing, and private_key and broadcaster are *)
(* written only at startup, by a task that holds no other lock.            *)
(*                                                                         *)
(* The locks are tokio::sync::RwLock, which serves its waiters in order of *)
(* arrival: a reader that arrives after a waiting writer waits for it.     *)
(***************************************************************************)
EXTENDS Integers, Sequences, FiniteSets

CONSTANTS Tasks,      \* tasks that call the engine
          MayCall     \* the methods each task calls

Locks == {"dag", "manager", "vlc"}

Step == [op : {"read", "write", "drop"}, lock : Locks]

Read(l) == [op |-> "read", lock |-> l]
TakeWrite(l) == [op |-> "write", lock |-> l]
Drop(l) == [op |-> "drop", lock |-> l]

\* A lock held within one block.
Reading(l) == <<Read(l), Drop(l)>>
Writing(l) == <<TakeWrite(l), Drop(l)>>

-----------------------------------------------------------------------------
(* The methods.  Those that finalize mark the events in the DAG while they *)
(* hold the manager.                                                       *)

\* Mutant: the DAG is locked before the manager, as receive_cf does.
TryCreateCfDagFirst(finalizes) ==
    <<Read("vlc"), Read("dag"), TakeWrite("manager"), Drop("dag")>>
        \o (IF finalizes THEN Writing("dag") ELSE <<>>)
        \o <<Drop("manager"), Drop("vlc")>>

\* try_create_cf and try_create_cf_heartbeat; with one validator the CF is
\* finalized at once.
TryCreateCf(finalizes) ==
    <<Read("vlc"), TakeWrite("manager")>> \o Reading("dag")
        \o (IF finalizes THEN Writing("dag") ELSE <<>>)
        \o <<Drop("manager"), Drop("vlc")>>

\* add_event and receive_event_from_network: the clock, the parents, the
\* insertion, and then try_create_cf.
AddEvent(finalizes) ==
    Writing("vlc") \o Reading("dag") \o Writing("dag") \o TryCreateCf(finalizes)

\* ensure_cf_events_available: the clock, the parents, the insertion, and a
\* second look, for one event that is missing.
EnsureCfEvents(fetches) ==
    Reading("dag")
        \o (IF fetches THEN Writing("vlc") \o Reading("dag") \o Writing("dag")
                              \o Reading("dag") ELSE <<>>)

\* receive_cf and receive_finalized_cf: the chain root and the CF are looked
\* up before the events are fetched.
ReceiveCf(fetches, finalizes) ==
    Reading("manager") \o Reading("manager") \o EnsureCfEvents(fetches)
        \o <<Read("dag"), TakeWrite("manager"), Drop("dag")>>
        \o (IF finalizes THEN Writing("dag") ELSE <<>>)
        \o <<Drop("manager")>>

ReceiveVote(finalizes) ==
    <<TakeWrite("manager")>>
        \o (IF finalizes THEN Writing("dag") ELSE <<>>)
        \o <<Drop("manager")>>

\* persist_finalized_anchor: collect the events, mark the anchor persisted,
\* then on_anchor_finalized.
Persist == Reading("dag") \o Writing("manager") \o Writing("dag")
               \o Reading("dag") \o Writing("dag")

RunPeriodicMaintenance == Writing("manager")

Script(m) ==
    CASE m = "add_event" -> AddEvent(FALSE)
      [] m = "add_event_final" -> AddEvent(TRUE)
      [] m = "heartbeat" -> TryCreateCf(FALSE)
      [] m = "heartbeat_final" -> TryCreateCf(TRUE)
      [] m = "receive_cf" -> ReceiveCf(TRUE, FALSE)
      [] m = "receive_cf_final" -> ReceiveCf(FALSE, TRUE)
      [] m = "receive_vote" -> ReceiveVote(FALSE)
      [] m = "receive_vote_final" -> ReceiveVote(TRUE)
      [] m = "persist" -> Persist
      [] m = "maintenance" -> RunPeriodicMaintenance

\* The two methods that hold the DAG while they wait for the manager.
CfMethods == {"receive_cf", "receive_cf_final"}

Methods == CfMethods \cup {"add_event", "add_event_final", "heartbeat", "heartbeat_final",
                           "receive_vote", "receive_vote_final", "persist", "maintenance"}

ASSUME MethodsAssumption == MayCall \in [Tasks -> SUBSET Methods]

-----------------------------------------------------------------------------
VARIABLES todo,     \* the lock steps each task has left; empty when idle
          queue,    \* waiting requests of each lock, in order of arrival
          holders   \* the requests each lock has granted

vars == <<todo, queue, holders>>

Request == [task : Tasks, op : {"read", "write"}]

Init ==
    /\ todo = [t \in Tasks |-> <<>>]
    /\ queue = [l \in Locks |-> <<>>]
    /\ holders = [l \in Locks |-> {}]

Waiting(t) == \E l \in Locks : \E k \in 1 .. Len(queue[l]) : queue[l][k].task = t

Busy(t) == todo[t] # <<>>

Call(t, m) ==
    /\ ~Busy(t)
    /\ todo' = [todo EXCEPT ![t] = Script(m)]
    /\ UNCHANGED <<queue, holders>>

\* read().await or write().await: the task joins the queue.
Ask(t) ==
    LET s == Head(todo[t]) IN
    /\ Busy(t) /\ ~Waiting(t) /\ s.op # "drop"
    /\ queue' = [queue EXCEPT ![s.lock] = Append(@, [task |-> t, op |-> s.op])]
    /\ UNCHANGED <<todo, holders>>

\* Mutant: a reader is let in whoever holds the lock.
CompatibleReader(r, H) == H = {} \/ r.op = "read"

Compatible(r, H) == H = {} \/ (r.op = "read" /\ \A h \in H : h.op = "read")

\* Mutant: a reader overtakes waiting writers.
GrantUnfair(l) ==
    \E k \in 1 .. Len(queue[l]) :
        LET r == queue[l][k] IN
        /\ Compatible(r, holders[l])
        /\ r.op = "read" \/ \A j \in 1 .. Len(queue[l]) : queue[l][j].op = "write"
        /\ holders' = [holders EXCEPT ![l] = @ \cup {r}]
        /\ queue' = [queue EXCEPT ![l] = SelectSeq(@, LAMBDA x : x # r)]
        /\ todo' = [todo EXCEPT ![r.task] = Tail(@)]

\* The first waiter gets the lock as soon as the holders allow it.
Grant(l) ==
    /\ queue[l] # <<>>
    /\ LET r == Head(queue[l]) IN
       /\ Compatible(r, holders[l])
       /\ holders' = [holders EXCEPT ![l] = @ \cup {r}]
       /\ queue' = [queue EXCEPT ![l] = Tail(@)]
       /\ todo' = [todo EXCEPT ![r.task] = Tail(@)]

\* A guard is dropped.
Release(t) ==
    LET s == Head(todo[t]) IN
    /\ Busy(t) /\ s.op = "drop"
    /\ holders' = [holders EXCEPT ![s.lock] = {h \in @ : h.task # t}]
    /\ todo' = [todo EXCEPT ![t] = Tail(@)]
    /\ UNCHANGED queue

Next ==
    \/ \E t \in Tasks :
        \/ \E m \in MayCall[t] : Call(t, m)
        \/ Ask(t)
        \/ Release(t)
    \/ \E l \in Locks : Grant(l)

Spec == Init /\ [][Next]_vars

\* The executor polls every task that can go on, and a lock wakes its first
\* waiter; whether a method is called at all is up to the environment.
Fairness ==
    /\ \A t \in Tasks : WF_vars(Ask(t)) /\ WF_vars(Release(t))
    /\ \A l \in Locks : WF_vars(Grant(l))

FairSpec == Spec /\ Fairness

-----------------------------------------------------------------------------
(* Properties.                                                             *)

\* One type invariant for the whole state; a writer holds its lock alone.
TypeOK ==
    /\ todo \in [Tasks -> Seq(Step)]
    /\ queue \in [Locks -> Seq(Request)]
    /\ holders \in [Locks -> SUBSET Request]
    /\ \A l \in Locks : \A h \in holders[l] : h.op = "write" => holders[l] = {h}

\* No set of tasks waits for one another: while some task is in a method, some
\* task in a method can go on.  handle_finalization claims as much: it is
\* written "to avoid potential deadlock from holding multiple write locks".
NoDeadlock ==
    (\E t \in Tasks : Busy(t)) =>
        \/ \E t \in Tasks : Busy(t) /\ ~Waiting(t)
        \/ \E l \in Locks : queue[l] # <<>> /\ Compatible(Head(queue[l]), holders[l])

\* Every call of the engine returns, also that of a writer among a stream of
\* readers, because the locks are served in order of arrival.
EveryCallReturns == \A t \in Tasks : Busy(t) ~> ~Busy(t)
=============================================================================
