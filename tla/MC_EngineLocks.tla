--------------------------- MODULE MC_EngineLocks ---------------------------
(* Small instances of EngineLocks for TLC. *)
EXTENDS EngineLocks, TLC

CONSTANTS submitter, router, timer, catchup

\* Everything but proposals and finalized CFs: submitted events, which one
\* validator alone finalizes inline, votes, heartbeat and maintenance.
WithoutCfs ==
    submitter :> {"add_event", "add_event_final", "persist"}
        @@ router :> {"receive_vote", "receive_vote_final", "persist"}
        @@ timer :> {"heartbeat", "heartbeat_final", "maintenance"}

\* A validator that receives a proposal while its catch-up task runs.
InNetwork ==
    router :> {"receive_cf", "receive_vote_final"}
        @@ catchup :> {"receive_cf_final"} @@ submitter :> {"add_event"}
=============================================================================
