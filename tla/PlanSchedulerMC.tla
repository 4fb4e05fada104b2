--------------------------- MODULE PlanSchedulerMC ---------------------------
(* Instances of PlanScheduler for TLC. *)
EXTENDS PlanScheduler

(* A join: task 3 needs task 1; task 2 is independent and more urgent.      *)
Three == {1, 2, 3}
Join  == [t \in Three |-> IF t = 3 THEN {1} ELSE {}]
JoinPriority == [t \in Three |-> IF t = 2 THEN 1 ELSE 0]

(* Two independent tasks. *)
Two   == {1, 2}
Independent == [t \in Two |-> {}]
Flat  == [t \in Two |-> 0]

(* Three tasks that compete for the slots. *)
Free == [t \in Three |-> {}]

Fresh == {0}

(* The first run of a plan: nothing is completed yet.                      *)
NothingDone  == Init /\ \A t \in Tasks : task[t] = "planned"
FirstRun == NothingDone /\ [][Next]_vars /\ Fairness

(* The last of the owner's requests is a cancel, or comes while a cancel is *)
(* still on its way: it meets whatever the others have left in the inbox.  *)
(* Rows an earlier run completed would only make the plan smaller.         *)
CancelComes == requests' # requests /\ requests' = MaxRequests => [kind |-> "cancel"] \in asked'
CancelSpec  == NothingDone /\ [][Next /\ CancelComes]_vars /\ Fairness
=============================================================================
