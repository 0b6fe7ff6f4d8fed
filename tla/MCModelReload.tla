--------------------------- MODULE MCModelReload ----------------------------
(* ModelReload for TLC: request configurations and reload threads are        *)
(* interchangeable in the runs that check invariants only.                   *)
EXTENDS ModelReload, TLC

Symmetry == Permutations(Configs) \cup Permutations(Reloaders)
=============================================================================
