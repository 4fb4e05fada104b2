---------------------------- MODULE PlanScheduler ----------------------------
(***************************************************************************)
(* One execution of PlanWorkflow (internal/workflow/plan.go): the durable  *)
(* scheduler of an approved plan, the plan_run and task rows its activities *)
(* write (internal/adapters/postgres), the task executors it starts and    *)
(* the owner's pause, resume, cancel, task-cancel and task-retry requests. *)
(*                                                                         *)
(* The workflow is sequential: it runs from one await to the next, and     *)
(* what it awaits is a database activity (call), the dispatch activities   *)
(* of a batch (disp) or the Select over the signal channels and the        *)
(* futures of the running executors.  Everything else interleaves with it. *)
(***************************************************************************)
EXTENDS Naturals, FiniteSets

CONSTANTS
  Tasks,          \* the plan's task ids; their order is the order of the ids
  Deps,           \* Deps[t]: the tasks t depends on (task_dependency)
  Priority,       \* Priority[t]: higher is scheduled first
  MaxParallel,    \* schedule.MaxParallelTasks
  MaxAttempts,    \* schedule.MaxActivityAttempts, also the attempts per task
  SpentAttempts,  \* attempts an unfinished task may bring from an earlier run
  MaxRequests,    \* bound: owner requests in a behaviour
  MaxFaults       \* bound: lost or exhausted activity calls in a behaviour

ASSUME TasksAssumption == Tasks \subseteq Nat /\ Tasks # {} /\ IsFiniteSet(Tasks)
ASSUME DepsAssumption  == Deps \in [Tasks -> SUBSET Tasks]
                          /\ \A t \in Tasks : t \notin Deps[t]
ASSUME PriorityAssumption == Priority \in [Tasks -> Nat]
ASSUME BoundsAssumption ==
  /\ MaxParallel \in 1..3
  /\ MaxAttempts \in 1..8
  /\ SpentAttempts \subseteq Nat
  /\ MaxRequests \in Nat /\ MaxFaults \in Nat

VARIABLES
  run,        \* plan_run.status
  task,       \* task.status of every task row
  attempts,   \* number of task_attempt rows of every task
  phase,      \* what the workflow is doing
  status,     \* state.Status
  view,       \* state.TaskStatus
  active,     \* active: tasks that occupy a slot
  retryable,  \* retryable
  queue,      \* selected tasks still to prepare, then
  awaiting,   \* selected tasks whose dispatch is still awaited
  call,       \* the database activity the workflow awaits
  disp,       \* DispatchPlanTask activity of each task
  exec,       \* ExecutePlanTask activity of each task
  asked,      \* requests whose check has passed, signal not yet delivered
  inbox,      \* signals buffered by the workflow
  requests, faults

dbVars    == <<run, task, attempts>>
wfVars    == <<phase, status, view, active, retryable, queue, awaiting>>
actVars   == <<call, disp, exec>>
ownerVars == <<asked, inbox, requests>>
vars      == <<dbVars, wfVars, actVars, ownerVars, faults>>

-----------------------------------------------------------------------------
RunStatuses == {"pending", "running", "paused", "completed", "failed", "cancelled"}
FinalRun    == {"completed", "failed", "cancelled"}
TaskStatuses == {"planned", "ready", "running", "verification", "changes_requested",
                 "blocked", "completed", "failed", "cancelled"}
FinalTask   == {"completed", "failed", "cancelled"}
Phases == {"boot", "poll", "select", "handle", "decide", "prepare", "await",
           "closed", "aborted"}

(* What an executor may hand back: a task status, or an activity error. *)
Outcomes == {"completed", "failed", "blocked", "changes_requested", "error"}
ExecStates == {"none", "scheduled", "working"} \cup Outcomes
DispStates == {"none", "sent", "ok", "err"}
Answers    == {"none", "ok", "err"}

NoCall         == [op |-> "none"]
SetRun(to)     == [op |-> "setRun", to |-> to, answer |-> "none"]
Record(t, to)  == [op |-> "record", task |-> t, to |-> to, answer |-> "none"]
Retry(t)       == [op |-> "retry", task |-> t, answer |-> "none"]
Calls == {NoCall}
   \cup [op : {"setRun"}, to : RunStatuses, answer : Answers]
   \cup [op : {"record"}, task : Tasks, to : {"failed", "cancelled"}, answer : Answers]
   \cup [op : {"retry"}, task : Tasks, answer : Answers]

Signals == [kind : {"pause", "resume", "cancel"}]
      \cup [kind : {"result", "retry"}, task : Tasks]

Ended == phase \in {"closed", "aborted"}

TypeOK ==
  /\ run \in RunStatuses /\ status \in RunStatuses
  /\ task \in [Tasks -> TaskStatuses] /\ view \in [Tasks -> TaskStatuses]
  /\ attempts \in [Tasks -> Nat]
  /\ phase \in Phases
  /\ active \subseteq Tasks /\ retryable \subseteq Tasks
  /\ queue \subseteq Tasks /\ awaiting \subseteq Tasks
  /\ call \in Calls
  /\ disp \in [Tasks -> DispStates] /\ exec \in [Tasks -> ExecStates]
  /\ asked \subseteq Signals /\ inbox \subseteq Signals
  /\ requests \in Nat /\ faults \in Nat

-----------------------------------------------------------------------------
(* buildSchedule turns every row but a completed one into a planned task; a *)
(* retried run brings completed prerequisites and spent attempts along.     *)
Init ==
  /\ run = "pending" /\ status = "pending"
  /\ task \in [Tasks -> {"planned", "completed"}]
  /\ \A t \in Tasks : task[t] = "completed" => \A d \in Deps[t] : task[d] = "completed"
  /\ view = task
  /\ attempts \in [Tasks -> SpentAttempts]
  /\ phase = "boot" /\ call = SetRun("running")
  /\ active = {} /\ retryable = {} /\ queue = {} /\ awaiting = {}
  /\ disp = [t \in Tasks |-> "none"] /\ exec = [t \in Tasks |-> "none"]
  /\ asked = {} /\ inbox = {} /\ requests = 0 /\ faults = 0

-----------------------------------------------------------------------------
(***************************************************************************)
(* The transactions of the repositories, run by a worker while the         *)
(* workflow waits.  An activity is delivered at least once.                *)
(***************************************************************************)

ValidRunTransition ==
  {<<"pending", "running">>, <<"pending", "failed">>, <<"pending", "cancelled">>,
   <<"running", "paused">>, <<"running", "completed">>, <<"running", "failed">>,
   <<"running", "cancelled">>,
   <<"paused", "running">>, <<"paused", "failed">>, <<"paused", "cancelled">>}

(* The task rows after a run reaches `to'. *)
TasksAfterRun(to) ==
  [t \in Tasks |->
     CASE to = "cancelled" /\ task[t] \notin FinalTask -> "cancelled"
       [] to = "failed" /\ task[t] \in {"planned", "ready", "running"} -> "failed"
       [] OTHER -> task[t]]

Answer(a) == call' = [call EXCEPT !.answer = a]

UpdateRunStatus ==
  /\ call.op = "setRun" /\ call.answer = "none"
  /\ \/ run = call.to /\ Answer("ok") /\ UNCHANGED <<run, task>>
     \/ /\ <<run, call.to>> \in ValidRunTransition
        /\ run' = call.to /\ task' = TasksAfterRun(call.to) /\ Answer("ok")
     \/ /\ run # call.to /\ <<run, call.to>> \notin ValidRunTransition
        /\ Answer("err") /\ UNCHANGED <<run, task>>
  /\ UNCHANGED <<attempts, wfVars, disp, exec, ownerVars, faults>>

AnyRowRecordable(t) == task[t] # "cancelled"
Recordable(t) == task[t] \notin {"completed", "cancelled"}

RecordTaskResult ==
  /\ call.op = "record" /\ call.answer = "none"
  /\ LET t == call.task IN
     \/ task[t] = call.to /\ Answer("ok") /\ UNCHANGED task
     \/ /\ task[t] # call.to /\ Recordable(t)
        /\ task' = [task EXCEPT ![t] = call.to] /\ Answer("ok")
     \/ /\ task[t] # call.to /\ ~Recordable(t)
        /\ Answer("err") /\ UNCHANGED task
  /\ UNCHANGED <<run, attempts, wfVars, disp, exec, ownerVars, faults>>

ResetTaskForRetry ==
  /\ call.op = "retry" /\ call.answer = "none"
  /\ LET t == call.task
         ok == task[t] \in {"failed", "blocked", "changes_requested"}
               /\ attempts[t] < MaxAttempts
     IN \/ ok /\ task' = [task EXCEPT ![t] = "ready"] /\ Answer("ok")
        \/ ~ok /\ Answer("err") /\ UNCHANGED task
  /\ UNCHANGED <<run, attempts, wfVars, disp, exec, ownerVars, faults>>

MarkTaskReady(t) ==
  /\ disp[t] = "sent"
  /\ \/ /\ run = "running" /\ task[t] \in {"ready", "running"}
        /\ disp' = [disp EXCEPT ![t] = "ok"] /\ UNCHANGED task
     \/ /\ run = "running" /\ task[t] = "planned"
        /\ task' = [task EXCEPT ![t] = "ready"] /\ disp' = [disp EXCEPT ![t] = "ok"]
     \/ /\ run # "running" \/ task[t] \notin {"planned", "ready", "running"}
        /\ disp' = [disp EXCEPT ![t] = "err"] /\ UNCHANGED task
  /\ UNCHANGED <<run, attempts, wfVars, call, exec, ownerVars, faults>>

(* The transaction committed but its answer was lost: delivered again. *)
LoseAnswer ==
  /\ faults < MaxFaults /\ faults' = faults + 1 /\ MaxAttempts > 1
  /\ \/ /\ call.op # "none" /\ call.answer = "ok"
        /\ Answer("none") /\ UNCHANGED disp
     \/ \E t \in Tasks : /\ disp[t] = "ok"
                         /\ disp' = [disp EXCEPT ![t] = "sent"] /\ UNCHANGED call
  /\ UNCHANGED <<dbVars, wfVars, exec, ownerVars>>

(* Every delivery allowed by the retry policy failed: the workflow gets an *)
(* error, whether or not one of the deliveries committed.                  *)
GiveUp ==
  /\ faults < MaxFaults /\ faults' = faults + 1
  /\ \/ /\ call.op # "none" /\ call.answer \in {"none", "ok"}
        /\ Answer("err") /\ UNCHANGED disp
     \/ \E t \in Tasks : /\ disp[t] \in {"sent", "ok"} /\ t \in awaiting
                         /\ disp' = [disp EXCEPT ![t] = "err"] /\ UNCHANGED call
  /\ UNCHANGED <<dbVars, wfVars, exec, ownerVars>>

-----------------------------------------------------------------------------
(***************************************************************************)
(* The executor of a task, reduced to what ExecutorContract says of it;    *)
(* TaskExecution has the whole of it.                                      *)
(***************************************************************************)
ExecVarsUnchanged == UNCHANGED <<run, wfVars, call, disp, ownerVars, faults>>

(* The activity context was cancelled, or its workflow is gone. *)
Cancelled(t) == Ended \/ t \notin active \/ call = SetRun("cancelled")

BeginAttempt(t) ==
  /\ exec[t] = "scheduled"
  /\ IF task[t] \in {"completed", "cancelled"} \/ attempts[t] >= MaxAttempts
     THEN exec' = [exec EXCEPT ![t] = "error"] /\ UNCHANGED <<task, attempts>>
     ELSE /\ attempts' = [attempts EXCEPT ![t] = @ + 1]
          /\ task' = [task EXCEPT ![t] = "running"]
          /\ exec' = [exec EXCEPT ![t] = "working"]
  /\ ExecVarsUnchanged

(* SetAttemptStatus writes the row whatever its status is. *)
SetAttemptStatus(t) ==
  /\ exec[t] = "working"
  /\ \E s \in {"verification", "changes_requested"} :
        task[t] # s /\ task' = [task EXCEPT ![t] = s]
  /\ UNCHANGED <<attempts, exec>> /\ ExecVarsUnchanged

(* CompleteAttempt and FailAttempt, each followed by the returned outcome. *)
FinishAttempt(t) ==
  /\ exec[t] = "working"
  /\ \E s \in Outcomes \ {"error"} :
        /\ task' = [task EXCEPT ![t] = s]
        /\ exec' = [exec EXCEPT ![t] = s]
  /\ UNCHANGED attempts /\ ExecVarsUnchanged

(* The activity ends with an error and the row stays: its executor lost the *)
(* database, the worktree or its thread, it noticed that it was cancelled, *)
(* or the answer itself was lost with the last delivery (TaskExecution).   *)
ExecError(t) ==
  /\ \/ exec[t] \in ExecStates \ {"none", "error"}
        /\ faults < MaxFaults /\ faults' = faults + 1
     \/ exec[t] \in {"scheduled", "working"} /\ Cancelled(t) /\ UNCHANGED faults
  /\ exec' = [exec EXCEPT ![t] = "error"]
  /\ UNCHANGED <<dbVars, wfVars, call, disp, ownerVars>>

-----------------------------------------------------------------------------
(***************************************************************************)
(* The owner.  A request is checked against the rows as they are now; the  *)
(* signal reaches the workflow later, or finds it closed and is refused.   *)
(***************************************************************************)
AllowedControl(kind) ==
  run \in CASE kind = "pause"  -> {"pending", "running"}
           [] kind = "resume" -> {"paused"}
           [] kind = "cancel" -> {"pending", "running", "paused"}

MayCancelTask(t) == task[t] \notin FinalTask

MayRetryTask(t) == /\ task[t] \in {"blocked", "changes_requested"}
                   /\ attempts[t] < MaxAttempts
                   /\ run \in {"paused", "running"}

Allowed(s) == CASE s.kind = "result" -> MayCancelTask(s.task)
                [] s.kind = "retry"  -> MayRetryTask(s.task)
                [] OTHER             -> AllowedControl(s.kind)

Ask(s) ==
  /\ requests < MaxRequests /\ requests' = requests + 1
  /\ s \notin asked /\ Allowed(s)
  /\ asked' = asked \cup {s}
  /\ UNCHANGED <<dbVars, wfVars, actVars, inbox, faults>>

Deliver(s) ==
  /\ s \in asked
  /\ asked' = asked \ {s}
  /\ inbox' = IF Ended THEN inbox ELSE inbox \cup {s}
  /\ UNCHANGED <<dbVars, wfVars, actVars, requests, faults>>

-----------------------------------------------------------------------------
(***************************************************************************)
(* The workflow.  Await(c, p) is a blocking activity call, after which the *)
(* workflow is in phase p; FailPlan is failPlanWorkflow.                   *)
(***************************************************************************)
Await(c)  == call' = c /\ phase' = "handle"
FailPlan  == Await(SetRun("failed"))
GoOn      == phase' = "decide" /\ UNCHANGED call

RunnableOverBlocked ==
  {t \in Tasks : /\ view[t] = "planned" \/ t \in retryable
                 /\ \A d \in Deps[t] : view[d] \in {"completed", "blocked"}}

Runnable == {t \in Tasks : /\ view[t] = "planned" \/ t \in retryable
                           /\ \A d \in Deps[t] : view[d] = "completed"}

(* The order of the schedule: priority first, then id. *)
Before(a, b) == Priority[a] > Priority[b] \/ (Priority[a] = Priority[b] /\ a < b)
First(t, S)  == t \in S /\ \A u \in S \ {t} : Before(t, u)

(* A setRun activity answered while the workflow waits for it. *)
RunStatusSet ==
  /\ call.op = "setRun" /\ call.answer # "none" /\ phase \in {"boot", "handle"}
  /\ call' = NoCall
  /\ \/ /\ call.answer = "err"
        /\ phase' = "aborted" /\ UNCHANGED <<status, view>>
     \/ /\ call.answer = "ok"
        /\ status' = call.to
        /\ phase' = IF phase = "boot" THEN "poll" ELSE IF call.to \in FinalRun THEN "closed" ELSE "decide"
        /\ view' = IF call.to = "cancelled"
                   THEN [t \in Tasks |-> IF view[t] = "completed" THEN "completed"
                                         ELSE "cancelled"]
                   ELSE view
  /\ UNCHANGED <<dbVars, active, retryable, queue, awaiting, disp, exec, ownerVars, faults>>

(* A record activity answered: of an executor error its own failure is     *)
(* ignored, of the owner's task-cancel it decides what the view says.      *)
TaskResultRecorded ==
  /\ call.op = "record" /\ call.answer # "none" /\ phase = "handle"
  /\ FailPlan
  /\ IF call.to = "cancelled" /\ call.answer = "ok"
     THEN /\ view' = [view EXCEPT ![call.task] = "cancelled"]
          /\ active' = active \ {call.task}
     ELSE UNCHANGED <<view, active>>
  /\ UNCHANGED <<dbVars, status, retryable, queue, awaiting, disp, exec, ownerVars, faults>>

CancelOnlyRunning == IF status = "running" THEN Await(SetRun("cancelled")) ELSE GoOn
CancelRun == Await(SetRun("cancelled"))

(* What the loop body does with one signal. *)
HandleSignal(s) ==
  CASE s.kind = "pause" ->
         IF status = "running" THEN Await(SetRun("paused")) /\ UNCHANGED retryable
         ELSE GoOn /\ UNCHANGED retryable
    [] s.kind = "resume" ->
         IF status = "paused" THEN Await(SetRun("running")) /\ UNCHANGED retryable
         ELSE GoOn /\ UNCHANGED retryable
    [] s.kind = "cancel" -> CancelRun /\ UNCHANGED retryable
    [] s.kind = "result" ->
         IF view[s.task] \notin FinalTask \cup {"blocked"}
         THEN Await(Record(s.task, "cancelled")) /\ UNCHANGED retryable
         ELSE GoOn /\ UNCHANGED retryable
    [] s.kind = "retry" ->
         IF view[s.task] \in {"blocked", "changes_requested"}
         THEN /\ retryable' = retryable \cup {s.task}
              /\ IF status = "paused" THEN Await(SetRun("running")) ELSE GoOn
         ELSE GoOn /\ UNCHANGED retryable

(* receivePendingSignals runs once, before the first decision: cancel,     *)
(* pause, resume, result, in this order; a retry stays in its channel.     *)
PollRank   == [cancel |-> 1, pause |-> 2, resume |-> 3, result |-> 4, retry |-> 5]
SelectRank == [pause |-> 1, resume |-> 2, cancel |-> 3, result |-> 4, retry |-> 5]
Chosen(s, rank) == s \in inbox /\ \A o \in inbox : rank[s.kind] <= rank[o.kind]

Poll ==
  /\ phase = "poll"
  /\ \/ \E s \in inbox : /\ s.kind # "retry" /\ Chosen(s, PollRank)
                         /\ HandleSignal(s) /\ inbox' = inbox \ {s}
     \/ /\ \A s \in inbox : s.kind = "retry"
        /\ GoOn /\ UNCHANGED <<retryable, inbox>>
  /\ UNCHANGED <<dbVars, status, view, active, queue, awaiting, disp, exec,
                 asked, requests, faults>>

SelectSignal(s) ==
  /\ phase = "select" /\ Chosen(s, SelectRank)
  /\ HandleSignal(s) /\ inbox' = inbox \ {s}
  /\ UNCHANGED <<dbVars, status, view, active, queue, awaiting, disp, exec,
                 asked, requests, faults>>

RequeueChanges(o) == CASE o = "error" -> "failed"
                       [] o = "changes_requested" -> "planned"
                       [] OTHER -> o
OutcomeStatus(o) == IF o = "error" THEN "failed" ELSE o

(* A future is selected when no signal is buffered, the smallest id first. *)
SelectCompletion(t) ==
  /\ phase = "select" /\ inbox = {}
  /\ t \in active /\ exec[t] \in Outcomes
  /\ \A u \in active : exec[u] \in Outcomes => t <= u
  /\ active' = active \ {t}
  /\ exec' = [exec EXCEPT ![t] = "none"]
  /\ view' = [view EXCEPT ![t] = OutcomeStatus(exec[t])]
  /\ CASE exec[t] = "error"     -> Await(Record(t, "failed"))
       [] exec[t] = "failed"    -> FailPlan
       [] exec[t] = "completed" -> GoOn
       [] OTHER                 -> Await(SetRun("paused"))
  /\ UNCHANGED <<dbVars, status, retryable, queue, awaiting, disp, ownerVars, faults>>

(* The rest of the loop body: finish, start a batch, give up, or wait. *)
SlotsPerBatch == MaxParallel
Slots == MaxParallel - Cardinality(active)

StartBatch(S) ==
  /\ S # {} /\ S \subseteq Runnable
  /\ Cardinality(S) <= Slots
  /\ Cardinality(S) < Slots => S = Runnable
  /\ \A a \in S, b \in Runnable \ S : Before(a, b)
  /\ queue' = S /\ phase' = "prepare" /\ UNCHANGED call

AllSettled   == \A t \in Tasks : view[t] \in {"completed", "blocked"}
AllCompleted == \A t \in Tasks : view[t] = "completed"

StartsUnlessFinal == status \notin FinalRun
MayStart == status = "running"

CanStart == Runnable # {} /\ Cardinality(active) < MaxParallel

StuckWithNothingOpen == active = {} /\ \A t \in Tasks : view[t] \in FinalTask
Stuck == active = {} /\ Runnable = {}

Decide ==
  /\ phase = "decide"
  /\ \/ /\ AllCompleted
        /\ Await(SetRun("completed")) /\ UNCHANGED queue
     \/ /\ ~AllCompleted /\ MayStart /\ CanStart
        /\ \E S \in SUBSET Runnable : StartBatch(S)
     \/ /\ ~AllCompleted /\ MayStart /\ Stuck
        /\ FailPlan /\ UNCHANGED queue
     \/ /\ ~AllCompleted /\ ~(MayStart /\ (CanStart \/ Stuck))
        /\ phase' = "select" /\ UNCHANGED <<call, queue>>
  /\ UNCHANGED <<dbVars, status, view, active, retryable, awaiting, disp, exec,
                 ownerVars, faults>>

(* A selected task takes a slot and its dispatch activity is scheduled. *)
Dispatch(t) ==
  /\ view' = [view EXCEPT ![t] = "ready"]
  /\ active' = active \cup {t}
  /\ disp' = [disp EXCEPT ![t] = "sent"]
  /\ queue' = queue \ {t} /\ awaiting' = awaiting \cup {t}
  /\ phase' = IF queue = {t} THEN "await" ELSE "prepare"

Prepare ==
  /\ phase = "prepare" /\ call = NoCall
  /\ \E t \in queue :
     /\ First(t, queue)
     /\ \/ t \notin retryable /\ Dispatch(t) /\ UNCHANGED <<call, retryable>>
        \/ /\ t \in retryable /\ call' = Retry(t)
           /\ UNCHANGED <<phase, view, active, retryable, queue, awaiting, disp>>
  /\ UNCHANGED <<dbVars, status, exec, ownerVars, faults>>

TaskRetried ==
  /\ phase = "prepare" /\ call.op = "retry" /\ call.answer # "none"
  /\ \/ /\ call.answer = "ok"
        /\ retryable' = retryable \ {call.task} /\ Dispatch(call.task)
        /\ call' = NoCall
     \/ /\ call.answer = "err" /\ FailPlan
        /\ UNCHANGED <<view, active, retryable, queue, awaiting, disp>>
  /\ UNCHANGED <<dbVars, status, exec, ownerVars, faults>>

(* The dispatches are awaited in the order they were scheduled. *)
AwaitDispatch ==
  /\ phase = "await" /\ call = NoCall
  /\ \E t \in awaiting :
     /\ First(t, awaiting) /\ disp[t] \in {"ok", "err"}
     /\ awaiting' = awaiting \ {t}
     /\ disp' = [disp EXCEPT ![t] = "none"]
     /\ \/ /\ disp[t] = "ok"
           /\ exec' = [exec EXCEPT ![t] = "scheduled"]
           /\ view' = [view EXCEPT ![t] = "running"]
           /\ phase' = IF awaiting = {t} THEN "select" ELSE "await"
           /\ UNCHANGED <<active, call>>
        \/ /\ disp[t] = "err"
           /\ view' = [view EXCEPT ![t] = "failed"]
           /\ active' = active \ {t}
           /\ Await(Record(t, "failed")) /\ UNCHANGED exec
  /\ UNCHANGED <<dbVars, status, retryable, queue, ownerVars, faults>>

-----------------------------------------------------------------------------
Workflow == \/ RunStatusSet \/ TaskResultRecorded \/ TaskRetried
            \/ Poll \/ Decide \/ Prepare \/ AwaitDispatch
            \/ \E s \in inbox : SelectSignal(s)
            \/ \E t \in Tasks : SelectCompletion(t)
Database == UpdateRunStatus \/ RecordTaskResult \/ ResetTaskForRetry
Executor(t) == \/ MarkTaskReady(t) \/ BeginAttempt(t)
               \/ SetAttemptStatus(t) \/ FinishAttempt(t) \/ ExecError(t)
Owner == \E s \in Signals : Ask(s) \/ Deliver(s)

Next == Workflow \/ Database \/ (\E t \in Tasks : Executor(t))
        \/ LoseAnswer \/ GiveUp \/ Owner

Spec == Init /\ [][Next]_vars

(* A worker polls the task queue: an activity scheduled by an open         *)
(* workflow is eventually run, an executor ends within its timeouts (2h    *)
(* and 6h in plan.go) with or without a result, the workflow advances, and an *)
(* HTTP handler that passed its check sends its signal.  Requests and      *)
(* faults are not fair.                                                    *)
Fairness == /\ WF_vars(Workflow) /\ WF_vars(Database)
            /\ \A t \in Tasks : /\ WF_vars(~Ended /\ MarkTaskReady(t))
                                /\ WF_vars(~Ended /\ BeginAttempt(t))
                                /\ WF_vars(FinishAttempt(t) \/ ExecError(t))
            /\ \A s \in Signals : WF_vars(Deliver(s))

FairSpec == Spec /\ Fairness

-----------------------------------------------------------------------------
(***************************************************************************)
(* Properties.                                                             *)
(***************************************************************************)

(* A task row leaves `planned' for work only over completed prerequisites: *)
(* whatever signals, retries and executors do, the rows of its             *)
(* dependencies are completed while it is dispatched, running, in review   *)
(* or waiting for the owner (runnableTasksForExecution, MarkTaskReady).    *)
DependenciesFirst ==
  \A t \in Tasks :
     task[t] \in {"ready", "running", "verification", "changes_requested", "blocked", "completed"}
       => \A d \in Deps[t] : task[d] = "completed"

(* The plan never has more executors than max_parallel_tasks, also when a  *)
(* retried task competes with planned ones for the slot that was freed.    *)
ParallelLimit ==
  ~Ended => Cardinality({t \in Tasks : exec[t] \in {"scheduled", "working"}}) <= MaxParallel

(* What every step of the scheduler keeps between its memory, its activities *)
(* and the rows; each part is what the next one needs.                      *)
DepsDone(t) == \A d \in Deps[t] : task[d] = "completed"

(* A task the workflow counts as completed is completed in the database.    *)
ViewIsBacked == \A t \in Tasks : view[t] = "completed" => task[t] = "completed"

(* A task is selected, dispatched and executed over completed rows only.    *)
BatchIsReady ==
  /\ \A t \in queue \cup awaiting : DepsDone(t)
  /\ \A t \in Tasks : disp[t] # "none" => DepsDone(t)
  /\ call.op = "retry" => phase = "prepare" /\ call.task \in queue

(* An executor at work owns a row that is not completed, and it reports     *)
(* `completed' only after the row says so.                                  *)
ExecutorIsHonest ==
  \A t \in Tasks : /\ exec[t] \in {"scheduled", "working"} => DepsDone(t)
                   /\ exec[t] = "working" => task[t] # "completed"
                   /\ exec[t] = "completed" => task[t] = "completed"

(* The run is asked to complete only when every row is completed.           *)
CompletionIsEarned ==
  call.op = "setRun" /\ call.to = "completed" => \A t \in Tasks : task[t] = "completed"

SchedulerInv == /\ ViewIsBacked /\ BatchIsReady /\ ExecutorIsHonest
                /\ CompletionIsEarned /\ DependenciesFirst

(* When the workflow waits for events, its memory and the rows agree: the  *)
(* run has the status it believes, and a task it takes for unstarted,      *)
(* completed or blocked is so in the database, with lost answers included. *)
WorkflowAgreesWithRows ==
  phase = "select" =>
    /\ run = status
    /\ \A t \in Tasks :
         /\ view[t] = "planned" <=> task[t] = "planned"
         /\ view[t] \in {"completed", "blocked"} => task[t] = view[t]

(* The workflow returns normally only after its run row is final; without  *)
(* faults it returns an error in one situation only: every task completed  *)
(* while the run was paused.                                               *)
EndedWorkflowIsSettled ==
  /\ phase = "closed" => run \in FinalRun /\ run = status
  /\ phase = "aborted" /\ faults = 0 =>
       run = "paused" /\ \A t \in Tasks : task[t] = "completed"

(* The workflow and its rows stay together, while it waits and when it has *)
(* left: nobody else would bring them together again.                      *)
WorkflowKeepsRows == WorkflowAgreesWithRows /\ EndedWorkflowIsSettled

(* Without faults a task that was never dispatched is failed only by the   *)
(* failure of its run, and a run fails only after one of its tasks went    *)
(* wrong or a task-cancel overtook the outcome of its executor: pausing,   *)
(* resuming and retrying never fail a healthy plan.                        *)
FailureHasCause ==
  [][faults = 0 =>
       /\ \A t \in Tasks : task[t] = "planned" /\ task'[t] = "failed" => run' = "failed"
       /\ run # "failed" /\ run' = "failed" =>
            \E t \in Tasks :
               \/ task[t] \in {"failed", "cancelled", "blocked", "changes_requested"}
               \/ view[t] = "cancelled"
               \/ t \in active /\ exec[t] \in Outcomes
    ]_vars

(* A cancel signal the workflow has received ends the run, whatever else   *)
(* is buffered or running (unless the workflow itself was lost).           *)
CancelEndsRun ==
  [kind |-> "cancel"] \in inbox ~> run \in FinalRun \/ phase = "aborted"

(* A run does not stay `running' for ever: it is paused for the owner or   *)
(* reaches a final status (unless the workflow itself was lost).           *)
RunningMovesOn == run = "running" ~> run # "running" \/ phase = "aborted"

(* Blocked and changes-requested tasks wait for the owner: the run itself  *)
(* fails only when a task failed or was cancelled, or a task-cancel        *)
(* overtook the outcome of an executor.                                    *)
BlockedTasksWait ==
  [][run # "failed" /\ run' = "failed"
        /\ (\E t \in Tasks : task[t] \in {"blocked", "changes_requested"})
       => \E t \in Tasks : \/ task[t] = "failed" \/ view[t] = "cancelled"
                           \/ t \in active /\ exec[t] \in Outcomes]_vars

(* What the scheduler promises to whoever reads the plan: see PlanPromise. *)
Promise == INSTANCE PlanPromise WITH done <- {t \in Tasks : task[t] = "completed"}
PromiseKept == Promise!Spec
=============================================================================
