--------------------------- MODULE VersionWatcher ---------------------------
(***************************************************************************)
(* The long-poll waiters of one object: WatcherRegistry and WaitGuard of   *)
(* storage/src/state/version_watcher.rs, driven by the loop of             *)
(* wait_move_object_min_version (setu-validator/src/network/service.rs).   *)
(*                                                                         *)
(* Every atomic counter operation is a step of its own.  A slot of the     *)
(* registry is named after the waiter that created it.                     *)
(***************************************************************************)
EXTENDS Integers, FiniteSets

CONSTANTS Waiters, NoSlot,
          PerObjectCap, GlobalCap    \* WatcherCaps

ASSUME WatcherAssumption ==
    /\ IsFiniteSet(Waiters) /\ NoSlot \notin Waiters
    /\ PerObjectCap \in Nat /\ GlobalCap \in Nat

VARIABLES wpc,        \* where each request is
          held,       \* the slot its guard holds
          notified,   \* its Notified future has been woken
          slot,       \* the object's entry of per_object
          count,      \* ObjectSlot.waiters
          global,     \* global_count
          raced       \* history: its last read fell between notify and publish

watcherVars == <<wpc, held, notified, slot, count, global, raced>>

\* The steps between the two operations on each counter.
Reserved == {"reserved", "held", "uncount", "refund", "waiting", "armed",
             "parked", "leaving", "left"}
Counted == {"uncount", "waiting", "armed", "parked", "leaving"}
Parked(w) == wpc[w] = "parked" /\ ~notified[w]

InitWatcher ==
    /\ wpc = [w \in Waiters |-> "start"]
    /\ held = [w \in Waiters |-> NoSlot]
    /\ notified = [w \in Waiters |-> FALSE]
    /\ slot = NoSlot
    /\ count = [w \in Waiters |-> 0]
    /\ global = 0
    /\ raced = {}

-----------------------------------------------------------------------------
(* register                                                                *)

Reserve(w) ==
    /\ wpc[w] = "start"
    /\ global' = global + 1
    /\ wpc' = [wpc EXCEPT ![w] = IF global >= GlobalCap THEN "refund" ELSE "reserved"]
    /\ UNCHANGED <<held, notified, slot, count, raced>>

GetSlot(w) ==
    /\ wpc[w] = "reserved"
    /\ slot' = IF slot = NoSlot THEN w ELSE slot
    /\ held' = [held EXCEPT ![w] = slot']
    /\ wpc' = [wpc EXCEPT ![w] = "held"]
    /\ UNCHANGED <<notified, count, global, raced>>

Count(w) ==
    /\ wpc[w] = "held"
    /\ count' = [count EXCEPT ![held[w]] = @ + 1]
    /\ wpc' = [wpc EXCEPT ![w] =
                 IF count[held[w]] >= PerObjectCap THEN "uncount" ELSE "waiting"]
    /\ UNCHANGED <<held, notified, slot, global, raced>>

Uncount(w) ==
    /\ wpc[w] = "uncount"
    /\ count' = [count EXCEPT ![held[w]] = @ - 1]
    /\ wpc' = [wpc EXCEPT ![w] = "refund"]
    /\ UNCHANGED <<held, notified, slot, global, raced>>

\* Mutant: the refused request keeps its share of the global cap.
RefundNothing(w) ==
    /\ wpc[w] = "refund"
    /\ wpc' = [wpc EXCEPT ![w] = "gone"]
    /\ UNCHANGED <<held, notified, slot, count, global, raced>>

Refund(w) ==
    /\ wpc[w] = "refund"
    /\ global' = global - 1
    /\ wpc' = [wpc EXCEPT ![w] = "gone"]
    /\ UNCHANGED <<held, notified, slot, count, raced>>

-----------------------------------------------------------------------------
(* The loop of the request                                                 *)

Arm(w) ==
    /\ wpc[w] = "waiting"
    /\ notified' = [notified EXCEPT ![w] = FALSE]
    /\ wpc' = [wpc EXCEPT ![w] = "armed"]
    /\ UNCHANGED <<held, slot, count, global, raced>>

\* The object is read after the future was made.
Check(w, resolved, unpublished) ==
    /\ wpc[w] = "armed"
    /\ wpc' = [wpc EXCEPT ![w] = IF resolved THEN "leaving" ELSE "parked"]
    /\ raced' = IF unpublished THEN raced \cup {w} ELSE raced \ {w}
    /\ UNCHANGED <<held, notified, slot, count, global>>

Wake(w) ==
    /\ wpc[w] = "parked" /\ notified[w]
    /\ wpc' = [wpc EXCEPT ![w] = "waiting"]
    /\ UNCHANGED <<held, notified, slot, count, global, raced>>

\* The deadline, or a client that disconnects.
TimeOut(w) ==
    /\ wpc[w] = "parked"
    /\ wpc' = [wpc EXCEPT ![w] = "leaving"]
    /\ UNCHANGED <<held, notified, slot, count, global, raced>>

\* Mutant: a clone applies, and a clone has no watcher.
NotifySlotOfClone == UNCHANGED notified

\* notify_objects: the slot that is in the registry now.
NotifySlot ==
    notified' = [w \in Waiters |->
                   notified[w] \/ (/\ slot # NoSlot /\ held[w] = slot
                                   /\ wpc[w] \in {"armed", "parked"})]

-----------------------------------------------------------------------------
(* Drop of the guard                                                       *)

Leave(w) ==
    /\ wpc[w] = "leaving"
    /\ count' = [count EXCEPT ![held[w]] = @ - 1]
    /\ wpc' = [wpc EXCEPT ![w] = "left"]
    /\ UNCHANGED <<held, notified, slot, global, raced>>

LeaveGlobal(w) ==
    /\ wpc[w] = "left"
    /\ global' = global - 1
    /\ wpc' = [wpc EXCEPT ![w] = "sweep"]
    /\ UNCHANGED <<held, notified, slot, count, raced>>

\* The slot it left is looked at first.
SeeEmpty(w) ==
    /\ wpc[w] = "sweep"
    /\ wpc' = [wpc EXCEPT ![w] = IF count[held[w]] = 0 THEN "remove" ELSE "gone"]
    /\ UNCHANGED <<held, notified, slot, count, global, raced>>

\* remove_if looks at the slot it finds, which may not be the one it left.
Sweep(w) ==
    /\ wpc[w] = "remove"
    /\ slot' = IF slot # NoSlot /\ count[slot] = 0 THEN NoSlot ELSE slot
    /\ wpc' = [wpc EXCEPT ![w] = "gone"]
    /\ UNCHANGED <<held, notified, count, global, raced>>

\* The steps that do not read the object.
WatcherStep(w) ==
    \/ Reserve(w) \/ GetSlot(w) \/ Count(w) \/ Uncount(w) \/ Refund(w)
    \/ Arm(w) \/ Wake(w) \/ TimeOut(w)
    \/ Leave(w) \/ LeaveGlobal(w) \/ SeeEmpty(w) \/ Sweep(w)

-----------------------------------------------------------------------------
WatcherTypeOK ==
    /\ wpc \in [Waiters -> Reserved \cup {"start", "sweep", "remove", "gone"}]
    /\ held \in [Waiters -> Waiters \cup {NoSlot}]
    /\ notified \in [Waiters -> BOOLEAN]
    /\ slot \in Waiters \cup {NoSlot}
    /\ count \in [Waiters -> Int]
    /\ global \in Int
    /\ raced \in SUBSET Waiters

\* The counters of version_watcher.rs never drift: at every moment the global
\* count is the number of requests between their fetch_add and fetch_sub, and a
\* slot's count the number of guards on it, refused and cancelled requests
\* included; so the caps bound the requests that really wait.
CountersExact ==
    /\ global = Cardinality({w \in Waiters : wpc[w] \in Reserved})
    /\ \A s \in Waiters :
         count[s] = Cardinality({w \in Waiters : wpc[w] \in Counted /\ held[w] = s})
    /\ Cardinality({w \in Waiters : wpc[w] \in {"waiting", "armed", "parked"}}) <= GlobalCap
=============================================================================
