--------------------------- MODULE MC_Transfers ---------------------------
(* Small instances of Transfers for TLC. *)
EXTENDS Transfers

CONSTANTS r1, r2, r3, r4, r5, r6, r7, c1, c2, c3, c4, n1, n2

\* r1 and r2 carry the same nonce; r3 comes from the batch interface; r4 and
\* r5 have to merge two coins; r6 and r7 pay with the small coins.
MCNonce == [r \in Requests |-> CASE r \in {r1, r2} -> n1 [] r \in {r4, r5} -> n2
                                 [] OTHER -> None]
MCRoute == [r \in Requests |-> CASE r \in {r1, r4, r6} -> "collected"
                                 [] r \in {r2, r5, r7} -> "inline"
                                 [] r = r3 -> "spawned"]
MCRank == [c \in Coins |-> CASE c = c1 -> 1 [] c = c2 -> 2 [] c = c3 -> 3 [] OTHER -> 4]
MCBalance == [c \in Coins |-> CASE c = c1 -> 3 [] c = c2 -> 2 [] OTHER -> 1]
MCAmount == [r \in Requests |-> CASE r \in {r4, r5} -> 4 [] r \in {r6, r7} -> 1 [] OTHER -> 2]

\* Bound: two of the first five requests run together; those of a registered
\* sender keep their reservations, and at most one of them merges.
Pairs ==
    /\ pc[r6] = "start" /\ pc[r7] = "start"
    /\ Cardinality({r \in Requests : pc[r] # "start"}) <= 2
    /\ power = None \/ (lapsed = {} /\ pc[r4] = "start")

\* Bound: a batch of up to two, a spawned and an inline request in line for the
\* permits.  They are prepared in this order before the first goes to the executor,
\* nothing is finalized, nobody has power, no TTL runs out and no solver is
\* deregistered.
Arrival == <<r1, r6, r3, r7>>
Preparing(r) == pc[r] \in {"start", "admitted", "reserving", "reserved", "read"}
InLine ==
    /\ power = None /\ lapsed = {}
    /\ \A r \in {r2, r4, r5} : pc[r] = "start"
    /\ \A r \in Requests : pc[r] \notin {"leaked", "applied", "stale", "rejected"}
    /\ \A i, j \in 1 .. 4 : i < j /\ Preparing(Arrival[i]) => pc[Arrival[j]] = "start"
    /\ Preparing(r7) => \A r \in Requests : Preparing(r) \/ pc[r] = "prepared"

Bounds == Pairs \/ InLine
=============================================================================
