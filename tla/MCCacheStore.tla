---------------------------- MODULE MCCacheStore ----------------------------
(* The pods and the requests of an instance of CacheStore are alike.       *)
EXTENDS CacheStore, TLC

Symmetry == Permutations(Pods) \cup Permutations(Requests)
=============================================================================
