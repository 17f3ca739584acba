--------------------------- MODULE MC_DagManager ---------------------------
(* Small instances of DagManager for TLC. *)
EXTENDS DagManager, TLC

CONSTANTS a, b, c

\* A chain whose last event also refers to the first.
Chain == a :> <<>> @@ b :> <<a>> @@ c :> <<b, a>>

\* Two roots and an event that follows both.
Fork == a :> <<>> @@ b :> <<>> @@ c :> <<a, b>>

Symmetry == Permutations(Adders)
=============================================================================
