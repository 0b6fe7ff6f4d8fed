------------------------- MODULE MCHeuristicRouting -------------------------
(* Three pods, one of them half as fast as the others.                     *)
EXTENDS HeuristicRouting, TLC

CONSTANTS p1, p2, p3

MCSpeed == (p1 :> 1 @@ p2 :> 2 @@ p3 :> 2)

Symmetry == Permutations(Requests) \cup Permutations({p2, p3})
=============================================================================
