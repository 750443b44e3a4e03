------------------------------ MODULE MCSessions ------------------------------
(* Small instances of Sessions: users, devices and requests are alike. *)
EXTENDS Sessions, TLC

Symmetry == Permutations(User) \cup Permutations(Device) \cup Permutations(Process)
=============================================================================
