---------------------------- MODULE MCBookCounters ----------------------------
(* Small instances of BookCounters. *)
EXTENDS BookCounters, TLC

\* The chapters belong to the first book.
MCBookOf == [c \in Chapter |-> 1]

Symmetry == Permutations(Request) \cup Permutations(Rater) \cup Permutations(Chapter)
=============================================================================
