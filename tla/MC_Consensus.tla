--------------------------- MODULE MC_Consensus ---------------------------
(* Small instances of Consensus for TLC. *)
EXTENDS Consensus, TLC

\* Events carry no order in the model, so they may be permuted.
Symmetry == Permutations(Events)

\* The events of the CFs created so far.
Proposed == UNION {cfs[i].events : i \in DOMAIN cfs}

\* Bound: at most one timeout, failed commit, failed persist or catch-up.  After
\* a timeout or a failed commit two CFs, which may be rivals and share an event,
\* the first one of a single event; else three, of one event each when a persist
\* fails or a catch-up runs.  A catch-up has something to pull.
Bounds ==
    /\ timeouts + commitFailures + persistFailures + catchUps <= 1
    /\ timeouts + commitFailures > 0 =>
         Len(cfs) <= 2 /\ Cardinality(Proposed) <= 2 /\ Cardinality(cfs[1].events) = 1
    /\ persistFailures + catchUps > 0 => \A i \in DOMAIN cfs : Cardinality(cfs[i].events) = 1
    /\ \A v \in Validators :
         catching[v] => \E w \in Validators : cfStore[w] \ cfStore[v] # {}
=============================================================================
