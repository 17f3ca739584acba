--------------------------- MODULE MC_Governance ---------------------------
(* A small instance of Governance for TLC. *)
EXTENDS Governance, TLC

CONSTANTS p1, p2, p3, d1, d2, g1, g2, param, resource, subnet

MCKeys == Proposals \cup {param, resource, subnet}
MCTxs == Proposals \cup Decisions \cup Registrations
MCEffect == [p \in Proposals |-> IF p = p3 THEN param ELSE resource]

\* The order within a frame plays no part.
MCOrder == [t \in MCTxs |->
    CASE t = p1 -> 1 [] t = p2 -> 2 [] t = p3 -> 3 [] t = d1 -> 4 [] t = d2 -> 5
      [] t = g1 -> 6 [] t = g2 -> 7]

\* The two decisions are alike: their order would only show within a frame.
Symmetry == Permutations(Decisions)

\* Bound: one proposal and a restart, or two that change the same parameters,
\* with a short backlog (what is unannounced for good counts, and is of an own
\* proposal with one decision); registrations by themselves.
Started == {t \in Txs : depth[t] > 0}
Backlog == Len(unsaved) + Len(todo) + Cardinality(missed)
Bounds ==
    \/ Started \subseteq Registrations
    \/ /\ Started \cap Registrations = {} /\ Cardinality(Started \cap Proposals) <= 1
       /\ Backlog <= 2 - epoch /\ (p3 \in Started => epoch = 0)
       /\ missed # {} => p1 \in Started /\ Cardinality(Started) <= 2
    \/ /\ Started \subseteq {p1, p2} \cup Decisions /\ epoch = 0 /\ Backlog <= 1 /\ missed = {}
=============================================================================
