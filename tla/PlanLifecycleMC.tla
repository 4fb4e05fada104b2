--------------------------- MODULE PlanLifecycleMC ---------------------------
(* Instances of PlanLifecycle for TLC. *)
EXTENDS PlanLifecycle, TLC
CONSTANTS p1, p2, t1, t2

TwoProcs == {p1, p2}
TwoTasks == {t1, t2}
Symmetric == Permutations(Procs) \cup Permutations(Tasks)
=============================================================================
