---------------------------- MODULE ProposalBook ----------------------------
(***************************************************************************)
(* What governance promises: a book of proposals.  A proposal is opened,   *)
(* then approved or rejected, once.  Its effect is written in the very     *)
(* step that approves it, on the parameters as they are at that moment: it *)
(* joins the resource parameters, or it is inserted where nothing is.      *)
(* Agents, tokens, polls, timeouts, speculative state, stale decisions,    *)
(* crashes and replays do not show.                                        *)
(***************************************************************************)
CONSTANTS Proposals, Registrations, None,
          Joins          \* the proposals that change the resource parameters

VARIABLES status,        \* "pending", "approved", "rejected", or None
          resources,     \* the changes made to the resource parameters
          inserted,      \* the proposal that inserted the parameter, or None
          subnet         \* the subnet registration in force, or None

bookVars == <<status, resources, inserted, subnet>>

Init ==
    /\ status = [p \in Proposals |-> None]
    /\ resources = {} /\ inserted = None /\ subnet = None

Open(p) ==
    /\ status[p] = None
    /\ status' = [status EXCEPT ![p] = "pending"]
    /\ UNCHANGED <<resources, inserted, subnet>>

Approve(p) ==
    /\ status[p] = "pending"
    /\ status' = [status EXCEPT ![p] = "approved"]
    /\ \/ p \in Joins /\ resources' = resources \cup {p} /\ UNCHANGED inserted
       \/ p \notin Joins /\ inserted = None /\ inserted' = p /\ UNCHANGED resources
    /\ UNCHANGED subnet

Reject(p) ==
    /\ status[p] = "pending"
    /\ status' = [status EXCEPT ![p] = "rejected"]
    /\ UNCHANGED <<resources, inserted, subnet>>

Enroll(g) ==
    /\ subnet' = g
    /\ UNCHANGED <<status, resources, inserted>>

Next ==
    \/ \E p \in Proposals : Open(p) \/ Approve(p) \/ Reject(p)
    \/ \E g \in Registrations : Enroll(g)

Spec == Init /\ [][Next]_bookVars
=============================================================================
