-------------------------- MODULE ExecutorContract --------------------------
(***************************************************************************)
(* What the scheduler may rely on about the executor of one task: how the  *)
(* task row, the number of its attempt rows and the state of its activity  *)
(* move.  PlanScheduler runs one of these for every task.                  *)
(***************************************************************************)
EXTENDS Naturals

CONSTANT MaxAttempts
VARIABLES task, attempts, exec

Init == task = "ready" /\ attempts = 0 /\ exec = "scheduled"

(* An attempt begins over a row that is not completed, within its budget.  *)
Begin == /\ exec = "scheduled" /\ task # "completed" /\ attempts < MaxAttempts
         /\ attempts' = attempts + 1 /\ task' = "running" /\ exec' = "working"

(* While it works, the row shows verification or requested changes.        *)
Show == /\ exec = "working" /\ task' \in {"verification", "changes_requested"}
        /\ UNCHANGED <<attempts, exec>>

(* It ends with the outcome that the row shows.                            *)
Finish == /\ exec = "working"
          /\ exec' \in {"completed", "failed", "blocked", "changes_requested"}
          /\ task' = exec' /\ UNCHANGED attempts

(* Or with an error: the row is left as it is.                             *)
Fail == exec' = "error" /\ UNCHANGED <<task, attempts>>

(* The scheduler records the error, or starts the executor again.          *)
Record == exec = "error" /\ task # "completed" /\ task' = "failed" /\ UNCHANGED <<attempts, exec>>
Retry  == /\ exec \in {"blocked", "changes_requested"} /\ task = exec
          /\ attempts < MaxAttempts
          /\ task' = "ready" /\ exec' = "scheduled" /\ UNCHANGED attempts

Next == Begin \/ Show \/ Finish \/ Fail \/ Record \/ Retry
Spec == Init /\ [][Next]_<<task, attempts, exec>>
=============================================================================
