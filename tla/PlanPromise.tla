----------------------------- MODULE PlanPromise -----------------------------
(***************************************************************************)
(* What a plan run promises to the owner who reads its rows, whatever the  *)
(* workflow, the executors and the signals do in between:                  *)
(*   - completed tasks stay completed and complete in dependency order,    *)
(*   - the run moves along validRunTransition only and a final status is   *)
(*     final,                                                              *)
(*   - a completed run has completed every one of its tasks.               *)
(* Tasks may still complete after the run ended: their executor was not    *)
(* stopped in time.                                                        *)
(***************************************************************************)
CONSTANTS Tasks, Deps
VARIABLES run, done

Init == /\ run = "pending" /\ done \in SUBSET Tasks
        /\ \A t \in done : Deps[t] \subseteq done

Moves == {<<"pending", "running">>, <<"running", "paused">>, <<"paused", "running">>}
         \cup ({"pending", "running", "paused"} \X {"failed", "cancelled"})

CompleteTask == \E t \in Tasks \ done : /\ Deps[t] \subseteq done
                                       /\ done' = done \cup {t}
                                       /\ UNCHANGED run

MoveRun == <<run, run'>> \in Moves /\ UNCHANGED done

CompleteRun == /\ run = "running" /\ done = Tasks
               /\ run' = "completed" /\ UNCHANGED done

Next == CompleteTask \/ MoveRun \/ CompleteRun

Spec == Init /\ [][Next]_<<run, done>>
=============================================================================
