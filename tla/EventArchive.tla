---------------------------- MODULE EventArchive ----------------------------
(***************************************************************************)
(* What the event DAG, its cache, the event store and the persistence path *)
(* promise together.  An event that was admitted is kept.  Anchors are     *)
(* made of kept events, one after the other.  They are sealed in the order *)
(* they were made, although some never are: the events of an anchor become *)
(* durable together, then it is sealed, and from then on only later        *)
(* anchors are.  Lookups, depths, retries, the cache and garbage           *)
(* collection do not show.                                                 *)
(***************************************************************************)
EXTENDS Integers, Sequences

CONSTANT Events

VARIABLES kept,      \* the events the validator answers for
          durable,   \* those in the event store
          anchors,   \* the anchors finalized, in order
          sealed     \* which of them are in the anchor store

archiveVars == <<kept, durable, anchors, sealed>>

Init == kept = {} /\ durable = {} /\ anchors = << >> /\ sealed = {}

\* No anchor that was made with or after i is sealed.
Open(i) == \A j \in sealed : j < i

Admit(e) ==
    /\ kept' = kept \cup {e}
    /\ UNCHANGED <<durable, anchors, sealed>>

MakeAnchor ==
    LET i == Len(anchors) + 1
        made == anchors'[i]
    IN  /\ Len(anchors') = i /\ anchors' = Append(anchors, made)
        /\ made.events # {} /\ made.events \subseteq kept
        /\ UNCHANGED <<kept, durable, sealed>>

SaveEvents(i) ==
    /\ Open(i)
    /\ durable' = durable \cup anchors[i].events
    /\ UNCHANGED <<kept, anchors, sealed>>

Seal(i) ==
    /\ Open(i)
    /\ anchors[i].events \subseteq durable
    /\ sealed' = sealed \cup {i}
    /\ UNCHANGED <<kept, durable, anchors>>

Next ==
    \/ \E e \in Events : Admit(e)
    \/ MakeAnchor
    \/ \E i \in 1 .. Len(anchors) : SaveEvents(i) \/ Seal(i)

Spec == Init /\ [][Next]_archiveVars
=============================================================================
