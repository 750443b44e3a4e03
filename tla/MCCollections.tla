----------------------------- MODULE MCCollections -----------------------------
(* Small instances of Collections; requests and books are alike, and so are    *)
(* the collections a user may create.                                          *)
EXTENDS Collections, TLC

MCBookLimit == [c \in Collection |-> IF c \in Favorites \cup System THEN 2 ELSE 1]

Symmetry == Permutations(Request) \cup Permutations(Book)
            \cup Permutations(Collection \ (Favorites \cup System))
=============================================================================
