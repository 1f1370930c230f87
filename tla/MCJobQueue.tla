----------------------------- MODULE MCJobQueue -----------------------------
(* Model checking of JobQueue: two tasks, and ids enough for a task to fail *)
(* and be enqueued again while the other is under way.                      *)
EXTENDS JobQueue, TLC

MCSymmetry == Permutations(Tasks) \cup Permutations(Jobs)
EveryFault == AllFaults
UpdateFault == {"update"}
=============================================================================
