-------------------------- MODULE MCChapterContent ---------------------------
(* Small instances of ChapterContent; requests still to come are alike. *)
EXTENDS ChapterContent, TLC

Symmetry == Permutations(Request \ {Given})
=============================================================================
