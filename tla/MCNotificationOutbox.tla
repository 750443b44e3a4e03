------------------------- MODULE MCNotificationOutbox -------------------------
(* Instances of NotificationOutbox for TLC.                                   *)
EXTENDS NotificationOutbox, TLC

\* Server processes differ by name only.
Symmetry == Permutations(Worker)
=============================================================================
