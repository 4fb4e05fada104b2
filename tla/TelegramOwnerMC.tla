--------------------------- MODULE TelegramOwnerMC ---------------------------
(***************************************************************************)
(* Small instances of the owner's Telegram interface and of the execution  *)
(* of one task.  They share no state and are checked in one run: the first *)
(* state chooses which of them moves.                                      *)
(***************************************************************************)
EXTENDS TelegramOwner, TaskExecution, TLC

CONSTANTS h1, u1, stranger, f1, f2, k1

VARIABLE focus

OneHook  == {h1}
Owner    == {u1}
Everyone == {u1, stranger}
PlanButtonsMC == <<"approve">>

SumInit == TelegramInit /\ Init /\ focus \in {"telegram", "task"}

MoveTelegram == focus = "telegram" /\ TelegramNext /\ UNCHANGED <<focus, vars>>
MoveTask     == focus = "task" /\ Next /\ UNCHANGED <<focus, telegramVars>>

(* Temporal delivers a queued activity, and a delivery ends: the runner    *)
(* and every check run under the activity's StartToClose timeout (2h).     *)
(* Fairness asks nothing of the Telegram interface before it has moved.    *)
SumFairness == Fairness /\ \A k \in Workers : WF_vars(focus = "task" /\ Execute(k))

SumSpec == SumInit /\ [][MoveTelegram \/ MoveTask]_<<focus, vars, telegramVars>> /\ SumFairness

(* Whatever delivery of it is lost, the activity ends, so the scheduler    *)
(* gets its slot back (Redeliver, the activity options of plan.go).        *)
ExecutionEnds == []<>(focus = "task" => job = "done")
=============================================================================
