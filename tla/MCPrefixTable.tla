--------------------------- MODULE MCPrefixTable ---------------------------
(* Two prompts with the first block in common. *)
EXTENDS PrefixTable, TLC

CONSTANTS a, b, c

MCPrompts == {<<a, b>>, <<a, c>>}

Symmetry == Permutations(Pods) \cup Permutations(Threads)
=============================================================================
