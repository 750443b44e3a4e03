---------------------------- MODULE MCCacheManager ----------------------------
(* Small instances of CacheManager. *)
EXTENDS CacheManager, TLC

CONSTANTS here, there, elsewhere

\* All requests but one share a process.
MCProcessOf == [r \in Reader |-> IF r = elsewhere THEN there ELSE here]
Symmetry == Permutations(Reader \ {elsewhere})
=============================================================================
