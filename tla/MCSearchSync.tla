----------------------------- MODULE MCSearchSync -----------------------------
(* Instances of SearchSync for TLC.                                           *)
EXTENDS SearchSync, TLC

\* Rows and server processes differ by name only.
Symmetry == Permutations(Event) \cup Permutations(Worker)
=============================================================================
