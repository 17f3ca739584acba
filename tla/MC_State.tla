------------------------------ MODULE MC_State ------------------------------
(* Small instances of State for TLC. *)
EXTENDS State, TLC

CONSTANTS k1, k2, t1, t2, t3, w1, w2, w3, alice, bob, genesis

\* t1 changes k1 twice in one event, t2 creates k2 and changes k1, t3 deletes
\* k2 without having read it; t1 and t2 have the same logical time.
MCOps ==
    [t \in Txs |->
       CASE t = t1 -> <<[key |-> k1, kind |-> "update"], [key |-> k1, kind |-> "update"]>>
         [] t = t2 -> <<[key |-> k2, kind |-> "create"], [key |-> k1, kind |-> "update"]>>
         [] t = t3 -> <<[key |-> k2, kind |-> "blindDelete"]>>]
MCTime == [t \in Txs |-> IF t = t3 THEN 2 ELSE 1]
MCRank == [t \in Txs |-> CASE t = t1 -> 1 [] t = t2 -> 2 [] t = t3 -> 3]

\* The second change of each event gives k1 to bob.
MCOwnerOf == [v \in Values |-> IF v \in {<<t1, 2>>, <<t2, 2>>} THEN bob ELSE alice]

\* Requests that read the overlay are alike.
Symmetry == Permutations(Waiters \ FinalReaders)

\* Bound: three events run without waiters or faults, two with one fault, t1 and
\* t2 with a failed commit and a redelivery; two waiters beside one event, three
\* before it.
Faults == faults.discard + faults.commit + faults.redeliver
Bounds ==
    /\ \/ \A w \in Waiters : wpc[w] = "start"
       \/ /\ Faults = 0 /\ \A t \in Txs \ {t1} : pc[t] = "start"
          /\ pc[t1] = "start" \/ \E w \in Waiters : wpc[w] = "start"
    /\ \/ Faults = 0
       \/ Faults = 1 /\ \E t \in Txs : pc[t] = "start"
       \/ Faults = 2 /\ faults.discard = 0 /\ pc[t3] = "start"
=============================================================================
