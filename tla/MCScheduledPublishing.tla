------------------------- MODULE MCScheduledPublishing -------------------------
(* Instances of ScheduledPublishing for TLC.                                  *)
EXTENDS ScheduledPublishing, TLC

\* Schedules, workers and administrators differ by name only.
Symmetry == Permutations(Schedule) \cup Permutations(Worker) \cup Permutations(Admin)
=============================================================================
