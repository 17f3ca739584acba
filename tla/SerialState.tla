---------------------------- MODULE SerialState ----------------------------
(***************************************************************************)
(* What the state manager promises its clients.  Batches of events are     *)
(* decided one at a time.  Every event of a batch is judged against the    *)
(* state before the batch, whole: all of its changes are written or none.  *)
(* Readers see the state between batches only, and a verdict is reported   *)
(* after the state it speaks of can be read.  There is no order within a   *)
(* batch, no shadow of pending writes and no root.                         *)
(***************************************************************************)
EXTENDS Integers, Sequences

CONSTANTS Keys, None, Txs, Genesis

VARIABLES result,      \* what executing each event produced, or None
          store,       \* the decided state
          published,   \* the state readers see
          batch,       \* verdicts on the batch in progress
          outcome      \* the verdict reported for each event, or None

serialVars == <<result, store, published, batch, outcome>>

Init ==
    /\ result = [t \in Txs |-> None]
    /\ store = Genesis /\ published = Genesis
    /\ batch = << >>
    /\ outcome = [t \in Txs |-> None]

ChangesAt(r, k) == {i \in DOMAIN r.changes : r.changes[i].key = k}

\* The chain of changes an event makes to one key starts at the current value,
\* and each continues the one before; a create needs an absent key.
Consistent(r, k) ==
    \A i \in ChangesAt(r, k) :
        LET c == r.changes[i]
            earlier == {j \in ChangesAt(r, k) : j < i}
            before == IF earlier = {} THEN store[k]
                      ELSE r.changes[CHOOSE j \in earlier : \A l \in earlier : l <= j].new
        IN  /\ c.old # None => before = c.old
            /\ c.old = None /\ c.new # None => before = None /\ store[k] = None

Judge(r) ==
    IF ~r.ok THEN "failed"
    ELSE IF \A k \in Keys : Consistent(r, k) THEN "applied" ELSE "stale"

Final(r, k) ==
    r.changes[CHOOSE j \in ChangesAt(r, k) : \A i \in ChangesAt(r, k) : i <= j].new

Execute(t) ==
    /\ result[t] = None /\ result'[t] # None
    /\ \A s \in Txs \ {t} : result'[s] = result[s]
    /\ UNCHANGED <<store, published, batch, outcome>>

\* Two events of a batch never write the same key, so who wrote k is unique.
Decide(E) ==
    /\ batch = << >> /\ \A t \in E : result[t] # None
    /\ batch' = [t \in E |-> Judge(result[t])]
    /\ LET writers(k) == {t \in E : batch'[t] = "applied" /\ ChangesAt(result[t], k) # {}}
       IN  /\ \A k \in Keys : \A s, t \in writers(k) : s = t
           /\ store' = [k \in Keys |->
                          IF writers(k) = {} THEN store[k]
                          ELSE Final(result[CHOOSE t \in writers(k) : TRUE], k)]
    /\ UNCHANGED <<result, published, outcome>>

Publish ==
    /\ batch # << >>
    /\ published' = store
    /\ UNCHANGED <<result, store, batch, outcome>>

Report ==
    /\ batch # << >> /\ published = store
    /\ outcome' = [t \in Txs |-> IF t \in DOMAIN batch THEN batch[t] ELSE outcome[t]]
    /\ batch' = << >>
    /\ UNCHANGED <<result, store, published>>

\* A commit that fails after the writes: the batch keeps its effect, its
\* verdicts are never reported, and readers see it with the next batch.
Forget ==
    /\ batch # << >>
    /\ batch' = << >>
    /\ UNCHANGED <<result, store, published, outcome>>

Next ==
    \/ \E t \in Txs : Execute(t)
    \/ \E E \in (SUBSET Txs) \ {{}} : Decide(E)
    \/ Publish \/ Report \/ Forget

Spec == Init /\ [][Next]_serialVars
=============================================================================
