------------------------- MODULE PlanSchedulerProofs -------------------------
(***************************************************************************)
(* Proofs about PlanScheduler for every plan, every number of tasks, slots, *)
(* attempts, owner requests and faults.                                    *)
(***************************************************************************)
EXTENDS PlanScheduler, TLAPS, FiniteSetTheorems, WellFoundedInduction

(* Answering an activity changes its answer and nothing else.              *)
LEMMA AnswerIsCall ==
  ASSUME call \in Calls, call.op # "none", NEW a \in Answers
  PROVE  /\ [call EXCEPT !.answer = a] \in Calls
         /\ [call EXCEPT !.answer = a].op = call.op
         /\ call.op = "setRun" => [call EXCEPT !.answer = a].to = call.to
         /\ call.op \in {"record", "retry"} => [call EXCEPT !.answer = a].task = call.task
  BY DEF Calls, NoCall, Answers

(* The activities the workflow asks for are activities.                    *)
LEMMA NewCalls ==
  /\ NoCall \in Calls /\ NoCall.op = "none"
  /\ \A to \in RunStatuses : SetRun(to) \in Calls
  /\ \A t \in Tasks, to \in {"failed", "cancelled"} : Record(t, to) \in Calls
  /\ \A t \in Tasks : Retry(t) \in Calls
  BY DEF Calls, NoCall, SetRun, Record, Retry, Answers

-----------------------------------------------------------------------------
(* Type correctness: every row, view, activity and signal keeps its type.  *)
USE DEF dbVars, wfVars, actVars, ownerVars, ExecVarsUnchanged

(* The rows, calls and signals of a run that was just approved have their  *)
(* types.                                                                  *)
LEMMA InitTypeOK == Init => TypeOK
<1> SUFFICES ASSUME Init PROVE TypeOK
  OBVIOUS
<1>1. call \in Calls
  BY NewCalls DEF Init, RunStatuses
<1>2. attempts \in [Tasks -> Nat]
  BY BoundsAssumption DEF Init
<1>3. task \in [Tasks -> TaskStatuses]
  BY DEF Init, TaskStatuses
<1>4. exec \in [Tasks -> ExecStates] /\ disp \in [Tasks -> DispStates]
  BY DEF Init, ExecStates, DispStates
<1>. QED BY <1>1, <1>2, <1>3, <1>4 DEF Init, TypeOK, RunStatuses, Phases

(* A database activity writes values of the types of the rows.             *)
LEMMA DatabaseTypeOK == TypeOK /\ Database => TypeOK'
<1> SUFFICES ASSUME TypeOK, Database PROVE TypeOK'
  OBVIOUS
<1> USE AnswerIsCall DEF TypeOK, Answer, Answers
<1>1. CASE UpdateRunStatus
  <2>1. call \in Calls /\ call.op = "setRun" /\ call.to \in RunStatuses
    BY <1>1 DEF UpdateRunStatus, Calls, NoCall
  <2>2. call' \in Calls
    BY <1>1, <2>1 DEF UpdateRunStatus
  <2>3. TasksAfterRun(call.to) \in [Tasks -> TaskStatuses]
    BY DEF TasksAfterRun, TaskStatuses
  <2>. QED BY <1>1, <2>1, <2>2, <2>3 DEF UpdateRunStatus
<1>2. CASE RecordTaskResult
  <2>1. call.op = "record" /\ call.task \in Tasks /\ call.to \in {"failed", "cancelled"}
    BY <1>2 DEF RecordTaskResult, Calls, NoCall
  <2>2. call' \in Calls
    BY <1>2, <2>1 DEF RecordTaskResult
  <2>. QED BY <1>2, <2>1, <2>2 DEF RecordTaskResult, TaskStatuses
<1>3. CASE ResetTaskForRetry
  <2>1. call.op = "retry" /\ call.task \in Tasks
    BY <1>3 DEF ResetTaskForRetry, Calls, NoCall
  <2>2. call' \in Calls
    BY <1>3, <2>1 DEF ResetTaskForRetry
  <2>. QED BY <1>3, <2>1, <2>2 DEF ResetTaskForRetry, TaskStatuses
<1>. QED BY <1>1, <1>2, <1>3 DEF Database

(* An executor's transitions stay among the statuses of a task.            *)
LEMMA ExecutorTypeOK == ASSUME NEW t \in Tasks PROVE TypeOK /\ Executor(t) => TypeOK'
<1> SUFFICES ASSUME TypeOK, Executor(t) PROVE TypeOK'
  OBVIOUS
<1> USE DEF TypeOK, TaskStatuses, ExecStates, DispStates, Outcomes
<1>1. CASE MarkTaskReady(t)    BY <1>1 DEF MarkTaskReady
<1>2. CASE BeginAttempt(t)     BY <1>2 DEF BeginAttempt
<1>3. CASE SetAttemptStatus(t) BY <1>3 DEF SetAttemptStatus
<1>4. CASE FinishAttempt(t)    BY <1>4 DEF FinishAttempt
<1>5. CASE ExecError(t)        BY <1>5 DEF ExecError
<1>. QED BY <1>1, <1>2, <1>3, <1>4, <1>5 DEF Executor

(* A lost answer or an exhausted retry only moves a call.                  *)
LEMMA FaultTypeOK == TypeOK /\ (LoseAnswer \/ GiveUp) => TypeOK'
<1> SUFFICES ASSUME TypeOK, LoseAnswer \/ GiveUp PROVE TypeOK'
  OBVIOUS
<1>1. call' \in Calls
  BY AnswerIsCall DEF TypeOK, LoseAnswer, GiveUp, Answer, Answers
<1>2. faults' \in Nat
  BY DEF TypeOK, LoseAnswer, GiveUp
<1>3. disp' \in [Tasks -> DispStates]
  BY DEF TypeOK, LoseAnswer, GiveUp, DispStates
<1>. QED BY <1>1, <1>2, <1>3 DEF TypeOK, LoseAnswer, GiveUp

(* Requests of the owner write statuses and signals.                       *)
LEMMA OwnerTypeOK == TypeOK /\ Owner => TypeOK'
  BY DEF TypeOK, Owner, Ask, Deliver

(* The workflow's own steps move its phase, its view and its calls.        *)
LEMMA WorkflowTypeOK == TypeOK /\ Workflow => TypeOK'
<1> SUFFICES ASSUME TypeOK, Workflow PROVE TypeOK'
  OBVIOUS
<1> USE NewCalls DEF TypeOK, Phases, Await, FailPlan, GoOn
<1>1. CASE RunStatusSet
  <2>1. call.op = "setRun" => call.to \in RunStatuses
    BY <1>1 DEF RunStatusSet, Calls, NoCall
  <2>2. view' \in [Tasks -> TaskStatuses]
    BY <1>1 DEF RunStatusSet, TaskStatuses
  <2>3. phase' \in Phases
    BY <1>1 DEF RunStatusSet
  <2>. QED BY <1>1, <2>1, <2>2, <2>3 DEF RunStatusSet
<1>2. CASE TaskResultRecorded
  <2>1. call.op = "record" /\ call.task \in Tasks
    BY <1>2 DEF TaskResultRecorded, Calls, NoCall
  <2>. QED BY <1>2, <2>1 DEF TaskResultRecorded, TaskStatuses, RunStatuses
<1>3. CASE TaskRetried
  <2>1. call.op = "retry" /\ call.task \in Tasks
    BY <1>3 DEF TaskRetried, Calls, NoCall
  <2>. QED BY <1>3, <2>1 DEF TaskRetried, Dispatch, TaskStatuses, RunStatuses, DispStates
<1>4. ASSUME NEW s \in inbox, HandleSignal(s)
      PROVE  phase' \in Phases /\ call' \in Calls /\ retryable' \subseteq Tasks
  <2>1. s.kind \in {"result", "retry"} => s.task \in Tasks
    BY DEF Signals
  <2>2. s.kind \in {"pause", "resume", "cancel", "result", "retry"}
    BY DEF Signals
  <2>. QED BY <1>4, <2>1, <2>2 DEF HandleSignal, CancelRun, RunStatuses
<1>5. CASE Poll
  BY <1>5, <1>4 DEF Poll
<1>6. CASE \E s \in inbox : SelectSignal(s)
  BY <1>6, <1>4 DEF SelectSignal
<1>7. CASE Decide
  BY <1>7 DEF Decide, StartBatch, Runnable, RunStatuses
<1>8. CASE Prepare
  BY <1>8 DEF Prepare, Dispatch, TaskStatuses, DispStates
<1>9. CASE AwaitDispatch
  BY <1>9 DEF AwaitDispatch, TaskStatuses, DispStates, ExecStates
<1>10. CASE \E t \in Tasks : SelectCompletion(t)
  BY <1>10 DEF SelectCompletion, OutcomeStatus, Outcomes, ExecStates, TaskStatuses, RunStatuses
<1>. QED BY <1>1, <1>2, <1>3, <1>5, <1>6, <1>7, <1>8, <1>9, <1>10 DEF Workflow

(* Every behaviour of the scheduler is type correct: rows, view, activities *)
(* and signals keep their types whatever the plan.                          *)
THEOREM TypeCorrect == Spec => []TypeOK
<1>1. TypeOK /\ [Next]_vars => TypeOK'
  <2>1. TypeOK /\ UNCHANGED vars => TypeOK'
    BY DEF TypeOK, vars
  <2>. QED BY <2>1, DatabaseTypeOK, ExecutorTypeOK, FaultTypeOK, OwnerTypeOK,
              WorkflowTypeOK DEF Next
<1>. QED BY <1>1, InitTypeOK, PTL DEF Spec

-----------------------------------------------------------------------------
(***************************************************************************)
(* The scheduler's invariant.  Its heart is that a completed row is never  *)
(* written again; everything the workflow, the dispatches and the          *)
(* executors learned about completed prerequisites therefore stays true.   *)
(***************************************************************************)

(* The three ways in which the database answers the workflow.              *)
LEMMA AnswerKeepsCall ==
  ASSUME TypeOK, Database
  PROVE  /\ call'.op = call.op
         /\ call.op = "setRun" => call'.to = call.to
         /\ call.op \in {"record", "retry"} => call'.task = call.task
<1>1. call.op # "none"
  BY DEF Database, UpdateRunStatus, RecordTaskResult, ResetTaskForRetry
<1>2. PICK a \in Answers : call' = [call EXCEPT !.answer = a]
  BY DEF Database, UpdateRunStatus, RecordTaskResult, ResetTaskForRetry, Answer, Answers
<1>. QED BY <1>1, <1>2, AnswerIsCall DEF TypeOK

(* A completed task row is terminal: no handler writes it again.           *)
LEMMA CompletedStays ==
  ASSUME TypeOK, ExecutorIsHonest, Next
  PROVE  \A t \in Tasks : task[t] = "completed" => task'[t] = "completed"
<1>1. CASE UNCHANGED task
  BY <1>1
<1>2. CASE UpdateRunStatus
  BY <1>2 DEF UpdateRunStatus, TasksAfterRun, FinalTask, TypeOK
<1>3. CASE RecordTaskResult
  BY <1>3 DEF RecordTaskResult, Recordable, TypeOK
<1>4. CASE ResetTaskForRetry
  BY <1>4 DEF ResetTaskForRetry, TypeOK
<1>5. ASSUME NEW u \in Tasks, Executor(u)
      PROVE  \A t \in Tasks : task[t] = "completed" => task'[t] = "completed"
  BY <1>5 DEF Executor, MarkTaskReady, BeginAttempt, SetAttemptStatus, FinishAttempt,
     ExecError, ExecutorIsHonest, TypeOK
<1>6. ASSUME Workflow \/ Owner \/ LoseAnswer \/ GiveUp PROVE UNCHANGED task
  BY <1>6 DEF Workflow, RunStatusSet, TaskResultRecorded, TaskRetried, Poll, Decide,
     Prepare, AwaitDispatch, SelectSignal, SelectCompletion, Owner, Ask, Deliver,
     LoseAnswer, GiveUp
<1>. QED BY <1>1, <1>2, <1>3, <1>4, <1>5, <1>6 DEF Next, Database

(* Prerequisites that are completed stay completed.                        *)
LEMMA DepsDoneStays ==
  ASSUME TypeOK, ExecutorIsHonest, Next
  PROVE  \A t \in Tasks : DepsDone(t) => DepsDone(t)'
  BY CompletedStays, DepsAssumption DEF DepsDone

(* Nothing is dispatched at first, so nothing has to be backed.            *)
LEMMA InitSchedulerInv == Init => SchedulerInv
<1> SUFFICES ASSUME Init PROVE SchedulerInv
  OBVIOUS
<1>1. ViewIsBacked
  BY DEF Init, ViewIsBacked
<1>2. BatchIsReady
  BY DEF Init, BatchIsReady, SetRun
<1>3. ExecutorIsHonest
  BY DEF Init, ExecutorIsHonest
<1>4. CompletionIsEarned
  BY DEF Init, CompletionIsEarned, SetRun
<1>5. DependenciesFirst
  BY DEF Init, DependenciesFirst
<1>. QED BY <1>1, <1>2, <1>3, <1>4, <1>5 DEF SchedulerInv

(* The database: an answer leaves the memory of the workflow alone, and    *)
(* only ResetTaskForRetry makes a row ready, over completed prerequisites. *)
LEMMA DatabaseStep == TypeOK /\ SchedulerInv /\ Database => SchedulerInv'
<1> SUFFICES ASSUME TypeOK, SchedulerInv, Database PROVE SchedulerInv'
  OBVIOUS
<1> USE DEF SchedulerInv
<1>1. Next
  BY DEF Next
<1>2. UNCHANGED <<wfVars, disp, exec>>
  BY DEF Database, UpdateRunStatus, RecordTaskResult, ResetTaskForRetry
<1>3. ViewIsBacked'
  BY <1>1, <1>2, CompletedStays DEF ViewIsBacked
<1>4. BatchIsReady'
  BY <1>1, <1>2, DepsDoneStays, AnswerKeepsCall DEF BatchIsReady, TypeOK
<1>5. \A t \in Tasks : task'[t] = "completed" => task[t] = "completed"
  BY DEF Database, UpdateRunStatus, RecordTaskResult, ResetTaskForRetry, TasksAfterRun,
     TypeOK, Calls, NoCall
<1>6. ExecutorIsHonest'
  BY <1>1, <1>2, <1>5, CompletedStays, DepsDoneStays DEF ExecutorIsHonest
<1>7. CompletionIsEarned'
  BY <1>1, CompletedStays, AnswerKeepsCall DEF CompletionIsEarned
<1>8. DependenciesFirst'
  <2>1. CASE UpdateRunStatus
    BY <2>1, <1>1, CompletedStays, DepsAssumption
    DEF UpdateRunStatus, TasksAfterRun, DependenciesFirst, TypeOK
  <2>2. CASE RecordTaskResult
    BY <2>2, <1>1, CompletedStays, DepsAssumption
    DEF RecordTaskResult, DependenciesFirst, TypeOK, Calls, NoCall
  <2>3. CASE ResetTaskForRetry
    <3>1. call.task \in Tasks /\ DepsDone(call.task)
      BY <2>3 DEF ResetTaskForRetry, BatchIsReady, TypeOK
    <3>. QED BY <2>3, <3>1, <1>1, CompletedStays, DepsAssumption
         DEF ResetTaskForRetry, DependenciesFirst, DepsDone, TypeOK
  <2>. QED BY <2>1, <2>2, <2>3 DEF Database
<1>. QED BY <1>3, <1>4, <1>6, <1>7, <1>8

(* The executors: a row enters work only after its dispatch or its attempt *)
(* began, both of them over completed prerequisites.                       *)
LEMMA ExecutorStep ==
  ASSUME NEW t \in Tasks
  PROVE  TypeOK /\ SchedulerInv /\ Executor(t) => SchedulerInv'
<1> SUFFICES ASSUME TypeOK, SchedulerInv, Executor(t) PROVE SchedulerInv'
  OBVIOUS
<1> USE DEF SchedulerInv
<1>1. Next
  BY DEF Next
<1>2. UNCHANGED <<wfVars, call>>
  BY DEF Executor, MarkTaskReady, BeginAttempt, SetAttemptStatus, FinishAttempt, ExecError
<1>3. ViewIsBacked'
  BY <1>1, <1>2, CompletedStays DEF ViewIsBacked
<1>4. \A u \in Tasks : disp'[u] # "none" => disp[u] # "none"
  BY DEF Executor, MarkTaskReady, BeginAttempt, SetAttemptStatus, FinishAttempt, ExecError,
     TypeOK
<1>5. BatchIsReady'
  BY <1>1, <1>2, <1>4, DepsDoneStays DEF BatchIsReady, TypeOK
<1>6. ExecutorIsHonest'
  <2>1. \A u \in Tasks : exec'[u] \in {"scheduled", "working"} => exec[u] \in {"scheduled", "working"}
    BY DEF Executor, MarkTaskReady, BeginAttempt, SetAttemptStatus, FinishAttempt,
       ExecError, TypeOK
  <2>2. \A u \in Tasks : exec'[u] = "working" => task'[u] # "completed"
    BY DEF Executor, MarkTaskReady, BeginAttempt, SetAttemptStatus, FinishAttempt,
       ExecError, TypeOK, ExecutorIsHonest
  <2>3. \A u \in Tasks : exec'[u] = "completed" => task'[u] = "completed"
    BY <1>1, CompletedStays
    DEF Executor, MarkTaskReady, BeginAttempt, SetAttemptStatus, FinishAttempt,
        ExecError, TypeOK, ExecutorIsHonest
  <2>. QED BY <2>1, <2>2, <2>3, <1>1, DepsDoneStays DEF ExecutorIsHonest
<1>7. CompletionIsEarned'
  BY <1>1, <1>2, CompletedStays DEF CompletionIsEarned
<1>8. DependenciesFirst'
  <2>1. task' # task => DepsDone(t)
    BY DEF Executor, MarkTaskReady, BeginAttempt, SetAttemptStatus, FinishAttempt,
       ExecError, ExecutorIsHonest, BatchIsReady
  <2>2. \A u \in Tasks \ {t} : task'[u] = task[u]
    BY DEF Executor, MarkTaskReady, BeginAttempt, SetAttemptStatus, FinishAttempt,
       ExecError, TypeOK
  <2>. QED BY <2>1, <2>2, <1>1, CompletedStays, DepsAssumption DEF DependenciesFirst, DepsDone
<1>. QED BY <1>3, <1>5, <1>6, <1>7, <1>8

(* Faults and owners: a lost answer or a request changes no row and no     *)
(* decision of the workflow.                                               *)
LEMMA FaultStep == TypeOK /\ SchedulerInv /\ (LoseAnswer \/ GiveUp) => SchedulerInv'
<1> SUFFICES ASSUME TypeOK, SchedulerInv, LoseAnswer \/ GiveUp PROVE SchedulerInv'
  OBVIOUS
<1>1. UNCHANGED <<dbVars, wfVars, exec>>
  BY DEF LoseAnswer, GiveUp
<1>2. \A t \in Tasks : disp'[t] # "none" => disp[t] # "none"
  BY DEF LoseAnswer, GiveUp, TypeOK
<1>3. /\ call'.op = call.op
      /\ call.op = "setRun" => call'.to = call.to
      /\ call.op \in {"record", "retry"} => call'.task = call.task
  <2>1. CASE UNCHANGED call
    BY <2>1
  <2>2. CASE call.op # "none" /\ \E a \in Answers : call' = [call EXCEPT !.answer = a]
    BY <2>2, AnswerIsCall DEF TypeOK
  <2>. QED BY <2>1, <2>2 DEF LoseAnswer, GiveUp, Answer, Answers
<1>4. BatchIsReady'
  BY <1>1, <1>2, <1>3 DEF SchedulerInv, BatchIsReady, DepsDone, TypeOK
<1>. QED BY <1>1, <1>3, <1>4 DEF SchedulerInv, ViewIsBacked, ExecutorIsHonest,
            CompletionIsEarned, DependenciesFirst, DepsDone

(* The owner never completes a task and never takes one back.              *)
LEMMA OwnerStep == SchedulerInv /\ Owner => SchedulerInv'
  BY DEF Owner, Ask, Deliver, SchedulerInv, ViewIsBacked, BatchIsReady, ExecutorIsHonest,
     CompletionIsEarned, DependenciesFirst, DepsDone

(* A signal makes the workflow pause, resume or cancel the run or record a  *)
(* cancelled task, or it leaves the awaited activity alone.                *)
LEMMA SignalCalls ==
  ASSUME TypeOK, NEW s \in inbox, HandleSignal(s)
  PROVE  \/ call' = call /\ phase' = "decide"
         \/ call'.op = "setRun" /\ call'.to \in {"paused", "running", "cancelled"}
         \/ call'.op = "record"
<1> USE DEF HandleSignal, Await, GoOn, CancelRun, SetRun, Record
<1>1. s.kind \in {"pause", "resume", "cancel", "result", "retry"}
  BY DEF Signals, TypeOK
<1>2. CASE s.kind = "pause"
  BY <1>2
<1>3. CASE s.kind = "resume"
  BY <1>3
<1>4. CASE s.kind = "cancel"
  BY <1>4
<1>5. CASE s.kind = "result"
  BY <1>5
<1>6. CASE s.kind = "retry"
  BY <1>6
<1>. QED BY <1>1, <1>2, <1>3, <1>4, <1>5, <1>6

(* The workflow: it writes no row; what it newly believes is backed by an  *)
(* executor's answer, what it newly selects by what it believes.           *)
LEMMA WorkflowStep == TypeOK /\ SchedulerInv /\ Workflow => SchedulerInv'
<1> SUFFICES ASSUME TypeOK, SchedulerInv, Workflow PROVE SchedulerInv'
  OBVIOUS
<1> USE DEF SchedulerInv, Await, FailPlan, GoOn
<1>1. UNCHANGED dbVars
  BY DEF Workflow, RunStatusSet, TaskResultRecorded, TaskRetried, Poll, Decide,
     Prepare, AwaitDispatch, SelectSignal, SelectCompletion
<1>2. \A t \in Tasks : view'[t] = "completed" =>
          view[t] = "completed" \/ exec[t] = "completed"
  BY DEF Workflow, RunStatusSet, TaskResultRecorded, TaskRetried, Dispatch, Poll, Decide,
     Prepare, AwaitDispatch, SelectSignal, SelectCompletion, OutcomeStatus, TypeOK
<1>3. ViewIsBacked'
  BY <1>1, <1>2 DEF ViewIsBacked, ExecutorIsHonest
<1>4. \A t \in Runnable : DepsDone(t)
  BY DepsAssumption DEF Runnable, ViewIsBacked, DepsDone
<1>5. \A t \in queue' \cup awaiting' : DepsDone(t)
  BY <1>4 DEF Workflow, RunStatusSet, TaskResultRecorded, TaskRetried, Dispatch, Poll,
     Decide, StartBatch, Prepare, AwaitDispatch, SelectSignal, SelectCompletion,
     BatchIsReady
<1>6. \A t \in Tasks : disp'[t] # "none" => DepsDone(t)
  BY DEF Workflow, RunStatusSet, TaskResultRecorded, TaskRetried, Dispatch, Poll,
     Decide, Prepare, AwaitDispatch, SelectSignal, SelectCompletion, BatchIsReady, TypeOK
<1>7. \A t \in Tasks : exec'[t] # exec[t] =>
          exec'[t] = "none" \/ (exec'[t] = "scheduled" /\ DepsDone(t))
  <2>1. CASE AwaitDispatch
    BY <2>1 DEF AwaitDispatch, BatchIsReady, TypeOK
  <2>2. CASE \E u \in Tasks : SelectCompletion(u)
    <3>1. PICK u \in Tasks : exec' = [exec EXCEPT ![u] = "none"]
      BY <2>2 DEF SelectCompletion
    <3>. QED BY <3>1 DEF TypeOK
  <2>3. CASE UNCHANGED exec
    BY <2>3
  <2>. QED BY <2>1, <2>2, <2>3 DEF Workflow, RunStatusSet, TaskResultRecorded, TaskRetried,
              Poll, Decide, Prepare, SelectSignal
<1>8. ExecutorIsHonest'
  BY <1>1, <1>7 DEF ExecutorIsHonest, DepsDone
<1>9. DependenciesFirst'
  BY <1>1 DEF DependenciesFirst
<1>10. call'.op = "retry" => phase' = "prepare" /\ call'.task \in queue'
  <2>1. CASE RunStatusSet \/ TaskResultRecorded
    BY <2>1 DEF RunStatusSet, TaskResultRecorded, NoCall, SetRun
  <2>2. CASE TaskRetried
    BY <2>2 DEF TaskRetried, Dispatch, NoCall, SetRun
  <2>3. CASE Poll \/ \E s \in inbox : SelectSignal(s)
    <3>1. phase # "prepare"
      BY <2>3 DEF Poll, SelectSignal
    <3>2. CASE UNCHANGED call
      BY <3>1, <3>2 DEF BatchIsReady
    <3>3. ASSUME NEW s \in inbox, HandleSignal(s)
          PROVE  call'.op = "retry" => phase' = "prepare" /\ call'.task \in queue'
      BY <3>1, <3>3, SignalCalls DEF BatchIsReady
    <3>. QED BY <2>3, <3>2, <3>3 DEF Poll, SelectSignal
  <2>4. CASE Decide
    BY <2>4 DEF Decide, StartBatch, SetRun, BatchIsReady
  <2>5. CASE Prepare
    BY <2>5 DEF Prepare, Dispatch, NoCall, Retry
  <2>6. CASE AwaitDispatch
    BY <2>6 DEF AwaitDispatch, NoCall, Record
  <2>7. CASE \E t \in Tasks : SelectCompletion(t)
    BY <2>7 DEF SelectCompletion, SetRun, Record, BatchIsReady
  <2>. QED BY <2>1, <2>2, <2>3, <2>4, <2>5, <2>6, <2>7 DEF Workflow
<1>11. BatchIsReady'
  BY <1>1, <1>5, <1>6, <1>10 DEF BatchIsReady, DepsDone
<1>12. CompletionIsEarned'
  <2>1. AllCompleted => \A t \in Tasks : task[t] = "completed"
    BY DEF AllCompleted, ViewIsBacked
  <2>2. CASE RunStatusSet \/ TaskResultRecorded \/ TaskRetried
    BY <2>2, <1>1 DEF RunStatusSet, TaskResultRecorded, TaskRetried, NoCall, SetRun,
       CompletionIsEarned
  <2>3. CASE Poll \/ \E s \in inbox : SelectSignal(s)
    <3>1. CASE UNCHANGED call
      BY <3>1, <1>1 DEF CompletionIsEarned
    <3>2. ASSUME NEW s \in inbox, HandleSignal(s) PROVE CompletionIsEarned'
      BY <3>2, <1>1, SignalCalls DEF CompletionIsEarned
    <3>. QED BY <2>3, <3>1, <3>2 DEF Poll, SelectSignal
  <2>4. CASE Decide
    BY <2>4, <2>1, <1>1 DEF Decide, StartBatch, SetRun, CompletionIsEarned
  <2>5. CASE Prepare \/ AwaitDispatch
    BY <2>5, <1>1 DEF Prepare, AwaitDispatch, NoCall, Retry, Record, CompletionIsEarned
  <2>6. CASE \E t \in Tasks : SelectCompletion(t)
    BY <2>6, <1>1 DEF SelectCompletion, SetRun, Record, CompletionIsEarned
  <2>. QED BY <2>2, <2>3, <2>4, <2>5, <2>6 DEF Workflow
<1>. QED BY <1>3, <1>8, <1>9, <1>11, <1>12

(* Every step keeps the strengthening of DependenciesFirst: one lemma per  *)
(* actor.                                                                  *)
LEMMA SchedulerStep == TypeOK /\ SchedulerInv /\ [Next]_vars => SchedulerInv'
<1>1. SchedulerInv /\ UNCHANGED vars => SchedulerInv'
  BY DEF vars, SchedulerInv, ViewIsBacked, BatchIsReady, ExecutorIsHonest,
     CompletionIsEarned, DependenciesFirst, DepsDone
<1>. QED BY <1>1, DatabaseStep, ExecutorStep, FaultStep, OwnerStep, WorkflowStep DEF Next

(* The memory of the workflow, its activities and the rows stay consistent *)
(* in every plan, under any interleaving of signals, executors and lost    *)
(* answers.                                                                *)
THEOREM SchedulerConsistent == Spec => []SchedulerInv
  BY TypeCorrect, InitSchedulerInv, SchedulerStep, PTL DEF Spec

(* No task works, waits or completes over an incomplete prerequisite.      *)
THEOREM DependenciesRespected == Spec => []DependenciesFirst
<1>1. SchedulerInv => DependenciesFirst
  BY DEF SchedulerInv
<1>. QED BY <1>1, SchedulerConsistent, PTL

-----------------------------------------------------------------------------
(***************************************************************************)
(* The scheduler implements PlanPromise.                                   *)
(***************************************************************************)
Done == {t \in Tasks : task[t] = "completed"}

(* A run begins where the promise begins.                                  *)
LEMMA PromiseInit == Init => Promise!Init
  BY DepsAssumption DEF Init, Promise!Init

(* A step that completes no row and moves no run is a stutter of the promise. *)
LEMMA PromiseStutter ==
  ASSUME run' = run, \A t \in Tasks : task'[t] = "completed" <=> task[t] = "completed"
  PROVE  UNCHANGED <<run, Done>>
  BY DEF Done

(* Every step is a step of the promise or leaves what it shows alone.      *)
LEMMA PromiseStep ==
  TypeOK /\ SchedulerInv /\ [Next]_vars => [Promise!Next]_<<run, Done>>
<1> SUFFICES ASSUME TypeOK, SchedulerInv, [Next]_vars
             PROVE  Promise!Next \/ UNCHANGED <<run, Done>>
  BY DEF Done
<1> USE DEF SchedulerInv
<1>1. CASE UNCHANGED <<run, task>>
  BY <1>1 DEF Done
<1>2. CASE UpdateRunStatus
  <2>1. \A t \in Tasks : task'[t] = "completed" <=> task[t] = "completed"
    BY <1>2 DEF UpdateRunStatus, TasksAfterRun, FinalTask, TypeOK
  <2>2. CASE UNCHANGED run
    BY <2>1, <2>2, PromiseStutter
  <2>3. CASE <<run, call.to>> \in ValidRunTransition /\ run' = call.to /\ call.to # "completed"
    BY <2>1, <2>3 DEF ValidRunTransition, Done, Promise!Next, Promise!MoveRun, Promise!Moves
  <2>4. CASE <<run, call.to>> \in ValidRunTransition /\ run' = call.to /\ call.to = "completed"
    <3>1. Done = Tasks
      BY <1>2, <2>4 DEF UpdateRunStatus, CompletionIsEarned, Done
    <3>2. run = "running"
      BY <2>4 DEF ValidRunTransition
    <3>. QED BY <2>1, <2>4, <3>1, <3>2 DEF Done, Promise!Next, Promise!CompleteRun
  <2>. QED BY <1>2, <2>2, <2>3, <2>4 DEF UpdateRunStatus
<1>3. CASE RecordTaskResult \/ ResetTaskForRetry
  <2>1. run' = run /\ \A t \in Tasks : task'[t] = "completed" <=> task[t] = "completed"
    BY <1>3 DEF RecordTaskResult, Recordable, ResetTaskForRetry, TypeOK, Calls, NoCall
  <2>. QED BY <2>1, PromiseStutter
<1>4. ASSUME NEW t \in Tasks, Executor(t)
      PROVE  Promise!Next \/ UNCHANGED <<run, Done>>
  <2>1. run' = run
    BY <1>4 DEF Executor, MarkTaskReady, BeginAttempt, SetAttemptStatus, FinishAttempt,
       ExecError
  <2>2. CASE FinishAttempt(t) /\ task'[t] = "completed"
    <3>1. t \notin Done /\ DepsDone(t)
      BY <2>2 DEF FinishAttempt, ExecutorIsHonest, Done
    <3>2. Done' = Done \cup {t}
      BY <2>2 DEF FinishAttempt, Done, TypeOK
    <3>3. Deps[t] \subseteq Done
      BY <3>1, DepsAssumption DEF DepsDone, Done
    <3>. QED BY <2>1, <3>1, <3>2, <3>3 DEF Done, Promise!Next, Promise!CompleteTask
  <2>3. CASE ~(FinishAttempt(t) /\ task'[t] = "completed")
    <3>1. \A u \in Tasks : task'[u] = "completed" <=> task[u] = "completed"
      BY <1>4, <2>3 DEF Executor, MarkTaskReady, BeginAttempt, SetAttemptStatus,
         FinishAttempt, ExecError, ExecutorIsHonest, TypeOK
    <3>. QED BY <2>1, <3>1, PromiseStutter
  <2>. QED BY <2>2, <2>3
<1>5. ASSUME Workflow \/ Owner \/ LoseAnswer \/ GiveUp \/ UNCHANGED vars
      PROVE  UNCHANGED <<run, task>>
  BY <1>5 DEF Workflow, RunStatusSet, TaskResultRecorded, TaskRetried, Poll, Decide,
     Prepare, AwaitDispatch, SelectSignal, SelectCompletion, Owner, Ask, Deliver,
     LoseAnswer, GiveUp, vars
<1>. QED BY <1>1, <1>2, <1>3, <1>4, <1>5 DEF Next, Database

(* Whatever the workflow, the executors, the owner and the faults do, the  *)
(* rows keep the promise of a plan run.                                    *)
THEOREM SchedulerKeepsPromise == Spec => PromiseKept
<1>1. Init => Promise!Init
  BY PromiseInit
<1>2. TypeOK /\ SchedulerInv /\ [Next]_vars => [Promise!Next]_<<run, Done>>
  BY PromiseStep
<1>. QED BY <1>1, <1>2, TypeCorrect, SchedulerConsistent, PTL
     DEF Spec, PromiseKept, Promise!Spec, Done

-----------------------------------------------------------------------------
(***************************************************************************)
(* Slots, the run row and the view of the workflow.  While the workflow is *)
(* steady, that is neither ended nor on its way to a failed, cancelled or  *)
(* completed run, every slot, every dispatch and every executor belongs to *)
(* a task that the view shows at that stage, and the rows follow the view. *)
(***************************************************************************)

(* The activity the workflow awaits fits what it is doing.                 *)
CallFits ==
  /\ phase = "boot" => call.op = "setRun" /\ call.to = "running"
  /\ phase = "handle" => call.op \in {"setRun", "record"}
  /\ phase = "prepare" => call.op \in {"none", "retry"}
  /\ phase \in {"poll", "select", "decide", "await", "closed", "aborted"} => call = NoCall

Steady == ~Ended /\ (phase = "handle" => call.op = "setRun" /\ call.to \in {"paused", "running"})

(* Every stage of a task, from its selection to its outcome, is the one of *)
(* its view, and whoever is at work has a slot.                            *)
Batch == /\ Cardinality(active \cup queue) <= MaxParallel
         /\ phase # "prepare" => queue = {}
         /\ phase \notin {"prepare", "await"} => awaiting = {}
Stage(t) == /\ t \in active => view[t] \in {"ready", "running"}
            /\ exec[t] # "none" => t \in active /\ view[t] = "running"
            /\ t \in awaiting => t \in active /\ view[t] = "ready"
            /\ disp[t] # "none" => t \in awaiting
            /\ t \in queue => view[t] = "planned" \/ t \in retryable
            /\ t \in retryable => view[t] \in {"blocked", "changes_requested"}
AtWork == {t \in Tasks : exec[t] # "none"}
SlotsAreKept == /\ ~Ended => Cardinality(AtWork) <= MaxParallel
                /\ Steady => Batch /\ \A t \in Tasks : Stage(t)

(* The run row is what the workflow believes or what it has just asked for; *)
(* without faults it refuses one question only: completing a paused run.   *)
RunIsKnown ==
  /\ phase = "boot" => status = "pending"
  /\ phase \in {"poll", "select", "handle", "decide", "prepare", "await"} =>
       status \in {"running", "paused"}
  /\ call.op # "setRun" /\ phase # "aborted" => run = status
  /\ call.op = "setRun" =>
       /\ run \in {status, call.to}
       /\ call.answer = "ok" => run = call.to
       /\ call.answer = "none" /\ faults = 0 => run = status
       /\ call.answer = "err" /\ faults = 0 => run = "paused" /\ call.to = "completed"
       /\ \/ <<status, call.to>> \in ValidRunTransition \/ status = call.to
          \/ status = "paused" /\ call.to = "completed"
  /\ phase = "closed" => run \in FinalRun
  /\ phase = "aborted" /\ faults = 0 => run = "paused" /\ \A t \in Tasks : task[t] = "completed"

(* The rows follow the view: only the dispatch and the executor of a task  *)
(* write its row while the workflow is steady.                             *)
RowFollows(t) ==
  /\ t \notin awaiting => (view[t] = "planned" <=> task[t] = "planned")
  /\ disp[t] = "ok" => task[t] # "planned"
  /\ exec[t] \in Outcomes \ {"error"} => task[t] = exec[t]
  /\ view[t] = "blocked" /\ ~(call.op = "retry" /\ call.task = t) => task[t] = "blocked"
ViewIsTrue == Steady => \A t \in Tasks : RowFollows(t)

FlowInv == CallFits /\ SlotsAreKept /\ RunIsKnown /\ ViewIsTrue

(* Answers, lost answers and given-up calls change the answer of a call.   *)
LEMMA CallMoves ==
  ASSUME TypeOK, Database \/ LoseAnswer \/ GiveUp
  PROVE  /\ UNCHANGED <<wfVars, exec>> /\ call'.op = call.op
         /\ call.op = "setRun" => call'.to = call.to
         /\ call.op \in {"record", "retry"} => call'.task = call.task
         /\ call = NoCall => call' = NoCall
<1>1. UNCHANGED <<wfVars, exec>>
  BY DEF Database, UpdateRunStatus, RecordTaskResult, ResetTaskForRetry, LoseAnswer, GiveUp
<1>2. call' = call \/ (call.op # "none" /\ \E a \in Answers : call' = [call EXCEPT !.answer = a])
  BY DEF Database, UpdateRunStatus, RecordTaskResult, ResetTaskForRetry, LoseAnswer, GiveUp,
     Answer, Answers
<1>. QED BY <1>1, <1>2, AnswerIsCall, NewCalls DEF TypeOK

(* What a signal makes of an open workflow.                                *)
LEMMA SignalMoves ==
  ASSUME TypeOK, status \in {"running", "paused"}, NEW s \in inbox, HandleSignal(s)
  PROVE  /\ \/ phase' = "decide" /\ call' = call
            \/ phase' = "handle" /\ \E to \in {"paused", "running", "cancelled"} :
                  call' = SetRun(to) /\ <<status, to>> \in ValidRunTransition
            \/ phase' = "handle" /\ \E t \in Tasks : call' = Record(t, "cancelled")
         /\ retryable \subseteq retryable'
         /\ \A t \in retryable' \ retryable : view[t] \in {"blocked", "changes_requested"}
<1> USE DEF HandleSignal, Await, GoOn, CancelRun, ValidRunTransition
<1>1. s.kind \in {"pause", "resume", "cancel", "result", "retry"}
      /\ (s.kind \in {"result", "retry"} => s.task \in Tasks)
  BY DEF Signals, TypeOK
<1>2. CASE s.kind = "pause"
  BY <1>2
<1>3. CASE s.kind = "resume"
  BY <1>3
<1>4. CASE s.kind = "cancel"
  BY <1>4
<1>5. CASE s.kind = "result"
  BY <1>1, <1>5
<1>6. CASE s.kind = "retry"
  BY <1>6
<1>. QED BY <1>1, <1>2, <1>3, <1>4, <1>5, <1>6

(* The call under way fits the phase after every step.                     *)
LEMMA CallFitsStep ==
  ASSUME TypeOK, CallFits, RunIsKnown, BatchIsReady, Next
  PROVE  CallFits'
<1>1. CASE Database \/ LoseAnswer \/ GiveUp
  BY <1>1, CallMoves DEF CallFits
<1>2. CASE Owner \/ \E t \in Tasks : Executor(t)
  BY <1>2 DEF Owner, Ask, Deliver, Executor, MarkTaskReady, BeginAttempt, SetAttemptStatus,
     FinishAttempt, ExecError, CallFits
<1>3. CASE Workflow
  <2> USE NewCalls DEF Await, FailPlan, GoOn, SetRun, Record, Retry, NoCall
  <2>1. CASE RunStatusSet
    BY <2>1 DEF RunStatusSet, CallFits
  <2>2. CASE TaskResultRecorded
    BY <2>2 DEF TaskResultRecorded, CallFits
  <2>3. CASE TaskRetried
    BY <2>3 DEF TaskRetried, Dispatch, CallFits
  <2>4. CASE Poll \/ \E s \in inbox : SelectSignal(s)
    <3>1. status \in {"running", "paused"} /\ call = NoCall
      BY <2>4 DEF Poll, SelectSignal, RunIsKnown, CallFits
    <3>2. ASSUME NEW s \in inbox, HandleSignal(s) PROVE CallFits'
      BY <3>1, <3>2, SignalMoves DEF CallFits
    <3>3. CASE phase' = "decide" /\ call' = call
      BY <3>1, <3>3 DEF CallFits
    <3>. QED BY <2>4, <3>2, <3>3 DEF Poll, SelectSignal
  <2>5. CASE Decide
    BY <2>5 DEF Decide, StartBatch, CallFits
  <2>6. CASE Prepare
    BY <2>6 DEF Prepare, Dispatch, CallFits
  <2>7. CASE AwaitDispatch
    BY <2>7 DEF AwaitDispatch, CallFits
  <2>8. CASE \E t \in Tasks : SelectCompletion(t)
    BY <2>8 DEF SelectCompletion, CallFits
  <2>. QED BY <1>3, <2>1, <2>2, <2>3, <2>4, <2>5, <2>6, <2>7, <2>8 DEF Workflow
<1>. QED BY <1>1, <1>2, <1>3 DEF Next

(* Transitions asked of the run row, and the row's answers.                *)
LEMMA RunIsKnownStep ==
  ASSUME TypeOK, SchedulerInv, CallFits, RunIsKnown, Next
  PROVE  RunIsKnown'
<1>0. /\ faults \in Nat /\ \A t \in Tasks : task[t] = "completed" => task'[t] = "completed"
      /\ FinalRun = {"completed", "failed", "cancelled"}
  BY CompletedStays DEF SchedulerInv, TypeOK, FinalRun
<1>1. CASE UpdateRunStatus
  <2>1. /\ call.op = "setRun" /\ call.answer = "none" /\ UNCHANGED <<wfVars, faults>>
        /\ call \in Calls
    BY <1>1 DEF UpdateRunStatus, TypeOK
  <2>2. phase \in {"boot", "handle"}
    BY <2>1 DEF CallFits, TypeOK, Phases, NoCall
  <2>3. \A a \in Answers : Answer(a) => call'.op = "setRun" /\ call'.to = call.to /\ call'.answer = a
    BY <2>1 DEF Answer, Calls, NoCall
  <2>4. \/ run' = call.to /\ call'.op = "setRun" /\ call'.to = call.to /\ call'.answer = "ok"
        \/ /\ run' = run /\ run # call.to /\ <<run, call.to>> \notin ValidRunTransition
           /\ call'.op = "setRun" /\ call'.to = call.to /\ call'.answer = "err"
    BY <1>1, <2>3 DEF UpdateRunStatus, Answers
  <2>. QED BY <2>1, <2>2, <2>4 DEF RunIsKnown
<1>2. CASE RecordTaskResult \/ ResetTaskForRetry
  <2>1. UNCHANGED <<run, wfVars, faults>> /\ call.op \in {"record", "retry"} /\ call'.op = call.op
    BY <1>2, CallMoves DEF RecordTaskResult, ResetTaskForRetry, Database
  <2>2. phase # "aborted"
    BY <2>1 DEF CallFits, NoCall
  <2>. QED BY <2>1, <2>2 DEF RunIsKnown
<1>3. CASE LoseAnswer \/ GiveUp
  <2>1. UNCHANGED <<dbVars, wfVars>> /\ faults' # 0 /\ call'.op = call.op
        /\ (call.op = "setRun" => call'.to = call.to)
    BY <1>0, <1>3, CallMoves DEF LoseAnswer, GiveUp
  <2>2. call.op = "setRun" /\ call'.answer = "ok" => call.answer = "ok"
    BY <1>3 DEF LoseAnswer, GiveUp, Answer, TypeOK, Calls, NoCall
  <2>. QED BY <2>1, <2>2 DEF RunIsKnown
<1>4. CASE \E t \in Tasks : Executor(t)
  <2>1. UNCHANGED <<run, wfVars, call>> /\ (faults' = 0 => faults = 0)
    BY <1>0, <1>4 DEF Executor, MarkTaskReady, BeginAttempt, SetAttemptStatus, FinishAttempt, ExecError
  <2>. QED BY <1>0, <2>1 DEF RunIsKnown
<1>5. CASE Owner
  BY <1>5 DEF Owner, Ask, Deliver, RunIsKnown
<1>6. CASE Workflow
  <2>0. UNCHANGED <<run, task, faults>>
    BY <1>6 DEF Workflow, RunStatusSet, TaskResultRecorded, TaskRetried, Poll, Decide,
       Prepare, AwaitDispatch, SelectSignal, SelectCompletion
  <2>1. CASE RunStatusSet
    <3>1. call.op = "setRun" /\ call' = NoCall /\ phase \in {"boot", "handle"}
      BY <2>1 DEF RunStatusSet
    <3>2. CASE call.answer = "err" /\ phase' = "aborted" /\ UNCHANGED <<status, view>>
      BY <2>0, <3>1, <3>2, NewCalls DEF RunIsKnown, SchedulerInv, CompletionIsEarned
    <3>3. CASE /\ call.answer = "ok" /\ status' = call.to
               /\ phase' = IF phase = "boot" THEN "poll" ELSE IF call.to \in FinalRun THEN "closed" ELSE "decide"
      <4>1. run = call.to
        BY <3>1, <3>3 DEF RunIsKnown
      <4>2. CASE phase = "boot"
        BY <2>0, <3>1, <3>3, <4>1, <4>2, NewCalls DEF RunIsKnown, CallFits
      <4>3. CASE phase = "handle" /\ call.to \in FinalRun
        BY <2>0, <3>1, <3>3, <4>1, <4>3, NewCalls DEF RunIsKnown
      <4>4. CASE phase = "handle" /\ call.to \notin FinalRun
        <5>1. call.to \in {"running", "paused"}
          BY <1>0, <3>1, <4>4 DEF RunIsKnown, ValidRunTransition
        <5>. QED BY <2>0, <3>1, <3>3, <4>1, <4>4, <5>1, NewCalls DEF RunIsKnown
      <4>. QED BY <3>1, <4>2, <4>3, <4>4
    <3>. QED BY <2>1, <3>2, <3>3 DEF RunStatusSet
  (* Everything else asks, or goes on, over a run row it knows.            *)
  <2>2. ASSUME run = status, status \in {"running", "paused"}, status' = status,
               \/ phase' \in {"select", "decide", "prepare", "await", "handle"} /\ call'.op # "setRun"
               \/ phase' = "handle" /\ \E to \in RunStatuses :
                    /\ call' = SetRun(to)
                    /\ \/ <<status, to>> \in ValidRunTransition \/ status = to
                       \/ status = "paused" /\ to = "completed"
        PROVE  RunIsKnown'
    <3>1. CASE phase' \in {"select", "decide", "prepare", "await", "handle"} /\ call'.op # "setRun"
      BY <2>0, <2>2, <3>1 DEF RunIsKnown
    <3>2. CASE phase' = "handle" /\ \E to \in RunStatuses :
                    /\ call' = SetRun(to)
                    /\ \/ <<status, to>> \in ValidRunTransition \/ status = to
                       \/ status = "paused" /\ to = "completed"
      BY <2>0, <2>2, <3>2 DEF RunIsKnown, SetRun
    <3>. QED BY <2>2, <3>1, <3>2
  <2>3. ASSUME \/ TaskResultRecorded \/ TaskRetried \/ Poll \/ Decide \/ Prepare \/ AwaitDispatch
               \/ (\E s \in inbox : SelectSignal(s)) \/ (\E t \in Tasks : SelectCompletion(t))
        PROVE  run = status /\ status \in {"running", "paused"}
    BY <2>3, NewCalls DEF TaskResultRecorded, TaskRetried, Poll, Decide, Prepare, AwaitDispatch,
       SelectSignal, SelectCompletion, RunIsKnown, CallFits
  <2>4. /\ status \in {"running", "paused"} => <<status, "failed">> \in ValidRunTransition
        /\ status = "running" => {<<status, "completed">>, <<status, "paused">>} \subseteq ValidRunTransition
        /\ {"failed", "completed", "paused", "running", "cancelled"} \subseteq RunStatuses
    BY DEF ValidRunTransition, RunStatuses
  <2> USE NewCalls DEF Await, FailPlan, GoOn
  <2>5. CASE TaskResultRecorded
    BY <2>2, <2>3, <2>4, <2>5 DEF TaskResultRecorded, SetRun
  <2>6. CASE TaskRetried
    <3>1. call' = NoCall \/ (call' = SetRun("failed") /\ phase' = "handle")
      BY <2>6 DEF TaskRetried
    <3>2. phase' \in {"prepare", "await", "handle"} /\ status' = status
      BY <2>6 DEF TaskRetried, Dispatch
    <3>. QED BY <2>2, <2>3, <2>4, <2>6, <3>1, <3>2 DEF TaskRetried, SetRun
  <2>7. CASE Poll \/ \E s \in inbox : SelectSignal(s)
    <3>1. status \in {"running", "paused"} /\ call = NoCall /\ run = status /\ status' = status
      BY <2>3, <2>7 DEF Poll, SelectSignal, CallFits
    <3>2. ASSUME NEW s \in inbox, HandleSignal(s) PROVE RunIsKnown'
      <4>1. CASE phase' = "decide" /\ call' = call
        BY <2>2, <3>1, <4>1
      <4>2. CASE phase' = "handle" /\ \E to \in {"paused", "running", "cancelled"} :
                  call' = SetRun(to) /\ <<status, to>> \in ValidRunTransition
        BY <2>2, <2>4, <3>1, <4>2
      <4>3. CASE phase' = "handle" /\ \E t \in Tasks : call' = Record(t, "cancelled")
        BY <2>2, <3>1, <4>3 DEF Record
      <4>. QED BY <3>1, <3>2, <4>1, <4>2, <4>3, SignalMoves
    <3>3. CASE phase' = "decide" /\ call' = call
      BY <2>2, <3>1, <3>3
    <3>. QED BY <2>7, <3>2, <3>3 DEF Poll, SelectSignal
  <2>8. CASE Decide
    <3>1. status' = status /\ call = NoCall
      BY <2>8 DEF Decide, CallFits
    <3>2. \/ phase' = "handle" /\ (call' = SetRun("completed") \/ call' = SetRun("failed"))
          \/ phase' \in {"prepare", "select"} /\ call' = call
      BY <2>8 DEF Decide, StartBatch
    <3>. QED BY <2>2, <2>3, <2>4, <2>8, <3>1, <3>2 DEF Decide
  <2>9. CASE Prepare
    <3>1. call'.op # "setRun" /\ phase' \in {"prepare", "await"} /\ status' = status
      BY <2>9 DEF Prepare, Dispatch, Retry
    <3>. QED BY <2>2, <2>3, <2>9, <3>1 DEF Prepare
  <2>10. CASE AwaitDispatch
    <3>1. call'.op # "setRun" /\ phase' \in {"select", "await", "handle"} /\ status' = status
      BY <2>10 DEF AwaitDispatch, Record
    <3>. QED BY <2>2, <2>3, <2>10, <3>1 DEF AwaitDispatch
  <2>11. CASE \E t \in Tasks : SelectCompletion(t)
    <3>1. status' = status /\ call = NoCall
      BY <2>11 DEF SelectCompletion, CallFits
    <3>2. \/ phase' = "decide" /\ call' = call
          \/ phase' = "handle" /\ call'.op = "record"
          \/ phase' = "handle" /\ (call' = SetRun("paused") \/ call' = SetRun("failed"))
      BY <2>11 DEF SelectCompletion, Record
    <3>. QED BY <2>2, <2>3, <2>4, <2>11, <3>1, <3>2 DEF SelectCompletion
  <2>. QED BY <1>6, <2>1, <2>5, <2>6, <2>7, <2>8, <2>9, <2>10, <2>11 DEF Workflow
<1>. QED BY <1>1, <1>2, <1>3, <1>4, <1>5, <1>6 DEF Next, Database

(* Sizes of sets of tasks.                                                 *)
LEMMA SlotSizes ==
  /\ \A S \in SUBSET Tasks : IsFiniteSet(S) /\ Cardinality(S) \in Nat
  /\ \A S, T \in SUBSET Tasks : S \subseteq T => Cardinality(S) <= Cardinality(T)
  /\ \A S, T \in SUBSET Tasks : Cardinality(S \cup T) <= Cardinality(S) + Cardinality(T)
<1>1. ASSUME NEW S \in SUBSET Tasks PROVE IsFiniteSet(S) /\ Cardinality(S) \in Nat
  BY TasksAssumption, FS_Subset, FS_CardinalityType
<1>2. ASSUME NEW S \in SUBSET Tasks, NEW T \in SUBSET Tasks
      PROVE  /\ S \subseteq T => Cardinality(S) <= Cardinality(T)
             /\ Cardinality(S \cup T) <= Cardinality(S) + Cardinality(T)
  <2>1. S \subseteq T => Cardinality(S) <= Cardinality(T)
    BY <1>1, FS_Subset
  <2>2. Cardinality(S \cup T) = Cardinality(S) + Cardinality(T) - Cardinality(S \cap T)
    BY <1>1, FS_Union
  <2>3. Cardinality(S) \in Nat /\ Cardinality(T) \in Nat /\ Cardinality(S \cap T) \in Nat
    BY <1>1
  <2>. QED BY <2>1, <2>2, <2>3
<1>. QED BY <1>1, <1>2

(* A selected task is no other task at work, and dispatching it keeps the   *)
(* batch within the slots.                                                 *)
LEMMA DispatchSteady ==
  ASSUME TypeOK, Batch, \A u \in Tasks : Stage(u), phase = "prepare",
         NEW t \in queue, Dispatch(t), retryable' = retryable \ {t}, exec' = exec
  PROVE  Batch' /\ (\A u \in Tasks : Stage(u)') /\ exec[t] = "none" /\ t \notin active
<1>1. t \in Tasks /\ t \notin active /\ exec[t] = "none" /\ t \notin awaiting
  BY DEF TypeOK, Stage
<1>2. Batch'
  <2>1. active' \cup queue' = active \cup queue
    BY DEF Dispatch
  <2>2. phase' # "prepare" => queue' = {}
    BY DEF Dispatch
  <2>. QED BY <2>1, <2>2 DEF Batch, Dispatch
<1>3. ASSUME NEW u \in Tasks PROVE Stage(u)'
  <2>1. CASE u = t
    BY <1>1, <2>1 DEF Stage, Dispatch, TypeOK
  <2>2. CASE u # t
    BY <2>2 DEF Stage, Dispatch, TypeOK
  <2>. QED BY <2>1, <2>2
<1>. QED BY <1>1, <1>2, <1>3

(* Slots in use are the executors that may still run after every step.     *)
LEMMA SlotsAreKeptStep ==
  ASSUME TypeOK, SchedulerInv, CallFits, RunIsKnown, SlotsAreKept, Next
  PROVE  SlotsAreKept'
<1>0. /\ AtWork \subseteq Tasks /\ AtWork' \subseteq Tasks /\ active \subseteq Tasks
      /\ queue \subseteq Tasks /\ awaiting \subseteq Tasks /\ MaxParallel \in Nat
      /\ (Steady => ~Ended)
  BY BoundsAssumption DEF AtWork, TypeOK, Steady
(* Whoever is at work has a slot, so the slots bound the executors.        *)
<1>a. ASSUME AtWork' \subseteq AtWork, Ended => Ended',
             Steady' => Batch' /\ \A t \in Tasks : Stage(t)'
      PROVE  SlotsAreKept'
  <2>1. Cardinality(AtWork') <= Cardinality(AtWork)
    BY <1>0, <1>a, SlotSizes
  <2>2. Cardinality(AtWork') \in Nat /\ Cardinality(AtWork) \in Nat
    BY <1>0, SlotSizes
  <2>. QED BY <1>0, <1>a, <2>1, <2>2 DEF SlotsAreKept
<1>1. CASE Database \/ LoseAnswer \/ GiveUp
  <2>1. UNCHANGED <<wfVars, exec>> /\ call'.op = call.op
        /\ (call.op = "setRun" => call'.to = call.to)
    BY <1>1, CallMoves
  <2>2. \A t \in Tasks : disp'[t] # "none" => disp[t] # "none"
    BY <1>1 DEF Database, UpdateRunStatus, RecordTaskResult, ResetTaskForRetry, LoseAnswer, GiveUp, TypeOK
  <2>3. Steady' => Steady
    BY <2>1 DEF Steady, Ended
  <2>4. Steady' => Batch' /\ \A t \in Tasks : Stage(t)'
    BY <2>1, <2>2, <2>3 DEF SlotsAreKept, Batch, Stage
  <2>. QED BY <1>a, <2>1, <2>4 DEF AtWork, Ended
<1>2. CASE Owner
  <2>1. UNCHANGED <<wfVars, actVars>>
    BY <1>2 DEF Owner, Ask, Deliver
  <2>. QED BY <2>1 DEF SlotsAreKept, Batch, Stage, Steady, Ended, AtWork
<1>3. ASSUME NEW u \in Tasks, Executor(u) PROVE SlotsAreKept'
  <2>1. UNCHANGED <<wfVars, call>>
    BY <1>3 DEF Executor, MarkTaskReady, BeginAttempt, SetAttemptStatus, FinishAttempt, ExecError
  <2>2. \A t \in Tasks : /\ disp'[t] # "none" => disp[t] # "none"
                         /\ exec'[t] # "none" => exec[t] # "none"
    BY <1>3 DEF Executor, MarkTaskReady, BeginAttempt, SetAttemptStatus, FinishAttempt, ExecError,
       TypeOK, ExecStates, Outcomes
  <2>3. Steady' => Batch' /\ \A t \in Tasks : Stage(t)'
    BY <2>1, <2>2 DEF SlotsAreKept, Batch, Stage, Steady, Ended
  <2>. QED BY <1>a, <2>1, <2>2, <2>3 DEF AtWork, Ended
<1>4. CASE Workflow
  <2> USE DEF Await, FailPlan, GoOn
  <2>0. ASSUME NEW t \in queue, phase = "prepare", Dispatch(t), retryable' = retryable \ {t}, exec' = exec
        PROVE  SlotsAreKept'
    <3>1. Steady
      BY <2>0 DEF Steady, Ended
    <3>2. Batch' /\ \A u \in Tasks : Stage(u)'
      BY <2>0, <3>1, DispatchSteady DEF SlotsAreKept
    <3>. QED BY <1>a, <2>0, <3>2 DEF AtWork, Ended
  <2>1. CASE RunStatusSet
    <3>1. UNCHANGED <<active, retryable, queue, awaiting, disp, exec>> /\ ~Ended
      BY <2>1 DEF RunStatusSet, Ended
    <3>2. ASSUME Steady' PROVE Batch' /\ \A t \in Tasks : Stage(t)'
      <4>1. call.answer = "ok" /\ phase' \in {"poll", "decide"}
        BY <2>1, <3>2 DEF RunStatusSet, Steady, Ended
      <4>2. phase = "boot" \/ (phase = "handle" /\ call.to \notin FinalRun)
        BY <2>1, <4>1 DEF RunStatusSet
      <4>3. call.to \in {"running", "paused"}
        BY <2>1, <4>2 DEF RunStatusSet, RunIsKnown, CallFits, FinalRun, ValidRunTransition
      <4>4. Steady /\ view' = view
        BY <2>1, <4>1, <4>2, <4>3 DEF RunStatusSet, Steady, Ended
      <4>. QED BY <3>1, <4>1, <4>2, <4>4 DEF SlotsAreKept, Batch, Stage
    <3>. QED BY <1>a, <3>1, <3>2 DEF AtWork
  <2>2. CASE TaskResultRecorded
    <3>1. exec' = exec /\ ~Ended /\ ~Steady'
      BY <2>2 DEF TaskResultRecorded, Ended, Steady, SetRun
    <3>. QED BY <1>a, <3>1 DEF AtWork
  <2>3. CASE TaskRetried
    <3>1. CASE call.answer = "ok" /\ retryable' = retryable \ {call.task} /\ Dispatch(call.task)
      <4>1. call.task \in queue
        BY <2>3 DEF TaskRetried, SchedulerInv, BatchIsReady
      <4>. QED BY <2>0, <2>3, <3>1, <4>1 DEF TaskRetried
    <3>2. CASE FailPlan
      <4>1. exec' = exec /\ ~Ended /\ ~Steady'
        BY <2>3, <3>2 DEF TaskRetried, Ended, Steady, SetRun
      <4>. QED BY <1>a, <4>1 DEF AtWork
    <3>. QED BY <2>3, <3>1, <3>2 DEF TaskRetried
  <2>4. CASE Poll \/ \E s \in inbox : SelectSignal(s)
    <3>1. /\ UNCHANGED <<status, view, active, queue, awaiting, disp, exec>>
          /\ phase \in {"poll", "select"} /\ status \in {"running", "paused"}
      BY <2>4 DEF Poll, SelectSignal, RunIsKnown
    <3>2. /\ phase' \in {"decide", "handle"} /\ retryable \subseteq retryable'
          /\ \A t \in retryable' \ retryable : view[t] \in {"blocked", "changes_requested"}
      <4>1. ASSUME NEW s \in inbox, HandleSignal(s)
            PROVE  /\ phase' \in {"decide", "handle"} /\ retryable \subseteq retryable'
                   /\ \A t \in retryable' \ retryable : view[t] \in {"blocked", "changes_requested"}
        BY <3>1, <4>1, SignalMoves
      <4>. QED BY <2>4, <4>1 DEF Poll, SelectSignal
    <3>3. Steady /\ Batch /\ \A t \in Tasks : Stage(t)
      BY <3>1 DEF Steady, Ended, SlotsAreKept
    <3>4. Batch' /\ \A t \in Tasks : Stage(t)'
      BY <3>1, <3>2, <3>3 DEF Batch, Stage
    <3>. QED BY <1>a, <3>1, <3>3, <3>4 DEF AtWork, Steady
  <2>5. CASE Decide
    <3>1. /\ UNCHANGED <<view, active, retryable, awaiting, disp, exec>>
          /\ Steady /\ Batch /\ (\A t \in Tasks : Stage(t)) /\ queue = {} /\ awaiting = {}
      BY <2>5 DEF Decide, Steady, Ended, SlotsAreKept, Batch
    <3>2. CASE queue' = queue /\ phase' \in {"handle", "select"}
      <4>1. Batch' /\ \A t \in Tasks : Stage(t)'
        BY <3>1, <3>2 DEF Batch, Stage
      <4>. QED BY <1>a, <3>1, <4>1 DEF AtWork, Steady
    <3>3. ASSUME NEW S \in SUBSET Runnable, StartBatch(S) PROVE SlotsAreKept'
      <4>1. S \subseteq Tasks /\ queue' = S /\ phase' = "prepare"
        BY <3>3 DEF StartBatch, Runnable
      <4>2. Cardinality(active \cup S) <= MaxParallel
        <5>1. Cardinality(active \cup S) <= Cardinality(active) + Cardinality(S)
          BY <1>0, <4>1, SlotSizes
        <5>2. /\ Cardinality(active \cup S) \in Nat /\ Cardinality(active) \in Nat
              /\ Cardinality(S) \in Nat
          BY <1>0, <4>1, SlotSizes
        <5>3. Cardinality(S) <= MaxParallel - Cardinality(active)
          BY <3>3 DEF StartBatch, Slots
        <5>. QED BY <1>0, <5>1, <5>2, <5>3
      <4>3. \A t \in S : view[t] = "planned" \/ t \in retryable
        BY <3>3 DEF Runnable
      <4>4. Batch' /\ \A t \in Tasks : Stage(t)'
        BY <3>1, <4>1, <4>2, <4>3 DEF Batch, Stage
      <4>. QED BY <1>a, <3>1, <4>4 DEF AtWork, Steady
    <3>. QED BY <2>5, <3>2, <3>3 DEF Decide
  <2>6. CASE Prepare
    <3>1. PICK t \in queue : \/ t \notin retryable /\ Dispatch(t) /\ retryable' = retryable
                             \/ /\ call' = Retry(t)
                                /\ UNCHANGED <<phase, view, active, retryable, queue, awaiting, disp>>
      BY <2>6 DEF Prepare
    <3>2. exec' = exec /\ phase = "prepare"
      BY <2>6 DEF Prepare
    <3>3. CASE t \notin retryable /\ Dispatch(t) /\ retryable' = retryable
      <4>1. retryable' = retryable \ {t}
        BY <3>3
      <4>. QED BY <2>0, <3>2, <3>3, <4>1
    <3>4. CASE UNCHANGED <<phase, view, active, retryable, queue, awaiting, disp>>
      BY <3>2, <3>4 DEF SlotsAreKept, Batch, Stage, Steady, Ended, AtWork
    <3>. QED BY <3>1, <3>3, <3>4
  <2>7. CASE AwaitDispatch
    <3>0. Steady /\ Batch /\ (\A u \in Tasks : Stage(u)) /\ queue = {} /\ ~Ended /\ queue' = queue
          /\ retryable' = retryable
      BY <2>7 DEF AwaitDispatch, Steady, Ended, SlotsAreKept, Batch
    <3>1. PICK t \in awaiting :
            /\ awaiting' = awaiting \ {t} /\ disp' = [disp EXCEPT ![t] = "none"]
            /\ \/ /\ exec' = [exec EXCEPT ![t] = "scheduled"]
                  /\ view' = [view EXCEPT ![t] = "running"]
                  /\ phase' = IF awaiting = {t} THEN "select" ELSE "await"
                  /\ active' = active
               \/ Await(Record(t, "failed")) /\ exec' = exec
      BY <2>7 DEF AwaitDispatch
    <3>2. CASE Await(Record(t, "failed")) /\ exec' = exec
      <4>1. ~Steady'
        BY <3>2 DEF Steady, Record
      <4>. QED BY <1>a, <3>0, <3>2, <4>1 DEF AtWork
    <3>3. CASE /\ exec' = [exec EXCEPT ![t] = "scheduled"]
               /\ view' = [view EXCEPT ![t] = "running"]
               /\ phase' = IF awaiting = {t} THEN "select" ELSE "await"
               /\ active' = active
      <4>1. Batch'
        BY <3>0, <3>1, <3>3 DEF Batch
      <4>2. ASSUME NEW u \in Tasks PROVE Stage(u)'
        <5>1. CASE u = t
          BY <3>0, <3>1, <3>3, <5>1 DEF Stage, TypeOK
        <5>2. CASE u # t
          BY <3>0, <3>1, <3>3, <5>2 DEF Stage, TypeOK
        <5>. QED BY <5>1, <5>2
      <4>3. AtWork' \subseteq active /\ active \subseteq active \cup queue
        BY <3>3, <4>2 DEF AtWork, Stage
      <4>4. Cardinality(AtWork') <= Cardinality(active \cup queue)
        BY <1>0, <4>3, SlotSizes
      <4>5. /\ Cardinality(AtWork') \in Nat /\ Cardinality(active \cup queue) \in Nat
            /\ Cardinality(active \cup queue) <= MaxParallel
        BY <1>0, <3>0, SlotSizes DEF Batch
      <4>. QED BY <1>0, <4>1, <4>2, <4>4, <4>5 DEF SlotsAreKept
    <3>. QED BY <3>1, <3>2, <3>3
  <2>8. ASSUME NEW t \in Tasks, SelectCompletion(t) PROVE SlotsAreKept'
    <3>0. /\ Steady /\ Batch /\ (\A u \in Tasks : Stage(u)) /\ queue = {} /\ awaiting = {} /\ ~Ended
          /\ active' = active \ {t} /\ exec' = [exec EXCEPT ![t] = "none"]
          /\ view' = [view EXCEPT ![t] = OutcomeStatus(exec[t])]
          /\ UNCHANGED <<retryable, queue, awaiting, disp>> /\ phase' \in {"handle", "decide"}
          /\ view[t] = "running"
      <4>1. Steady /\ ~Ended /\ phase = "select"
        BY <2>8 DEF SelectCompletion, Steady, Ended
      <4>2. Batch /\ (\A u \in Tasks : Stage(u)) /\ queue = {} /\ awaiting = {}
        BY <4>1 DEF SlotsAreKept, Batch
      <4>3. exec[t] # "none"
        BY <2>8 DEF SelectCompletion, Outcomes
      <4>4. view[t] = "running"
        BY <4>2, <4>3 DEF Stage
      <4>5. phase' \in {"handle", "decide"}
        BY <2>8 DEF SelectCompletion
      <4>. QED BY <2>8, <4>1, <4>2, <4>4, <4>5 DEF SelectCompletion
    <3>1. AtWork' \subseteq AtWork
      BY <3>0 DEF AtWork, TypeOK
    <3>2. Batch'
      <4>1. active' \cup queue' \subseteq active \cup queue
        BY <3>0
      <4>2. Cardinality(active' \cup queue') <= Cardinality(active \cup queue)
        BY <1>0, <3>0, <4>1, SlotSizes
      <4>3. Cardinality(active' \cup queue') \in Nat /\ Cardinality(active \cup queue) \in Nat
        BY <1>0, <3>0, <4>1, SlotSizes
      <4>. QED BY <1>0, <3>0, <4>2, <4>3 DEF Batch
    <3>3. ASSUME NEW u \in Tasks PROVE Stage(u)'
      <4>1. CASE u = t
        BY <3>0, <4>1 DEF Stage, TypeOK
      <4>2. CASE u # t
        BY <3>0, <4>2 DEF Stage, TypeOK
      <4>. QED BY <4>1, <4>2
    <3>. QED BY <1>a, <3>0, <3>1, <3>2, <3>3
  <2>. QED BY <1>4, <2>1, <2>2, <2>3, <2>4, <2>5, <2>6, <2>7, <2>8 DEF Workflow
<1>. QED BY <1>1, <1>2, <1>3, <1>4 DEF Next

(* Dispatching a selected task leaves its row for the dispatch to write.   *)
LEMMA DispatchFollows ==
  ASSUME TypeOK, ViewIsTrue, SlotsAreKept, Steady, phase = "prepare", NEW t \in queue,
         Dispatch(t), UNCHANGED <<task, exec>>, call'.op # "retry",
         call.op = "retry" => call.task = t
  PROVE  \A u \in Tasks : RowFollows(u)'
<1>1. t \in Tasks /\ exec[t] = "none"
  BY DEF TypeOK, SlotsAreKept, Stage
<1>2. ASSUME NEW u \in Tasks, u # t PROVE RowFollows(u)'
  <2>1. /\ view'[u] = view[u] /\ disp'[u] = disp[u] /\ exec'[u] = exec[u] /\ task'[u] = task[u]
        /\ (u \in awaiting' <=> u \in awaiting)
    BY <1>2 DEF Dispatch, TypeOK
  <2>2. RowFollows(u)
    BY DEF ViewIsTrue
  <2>. QED BY <1>2, <2>1, <2>2 DEF RowFollows
<1>3. RowFollows(t)'
  <2>1. view'[t] = "ready" /\ disp'[t] = "sent" /\ exec'[t] = "none" /\ t \in awaiting'
    BY <1>1 DEF Dispatch, TypeOK
  <2>. QED BY <2>1 DEF RowFollows, Outcomes
<1>. QED BY <1>2, <1>3

(* The writers of a task row each write the row of a task at their stage.  *)
LEMMA ViewIsTrueStep ==
  ASSUME TypeOK, SchedulerInv, CallFits, SlotsAreKept, RunIsKnown, ViewIsTrue, Next
  PROVE  ViewIsTrue'
<1>0. Steady => (\A t \in Tasks : Stage(t) /\ RowFollows(t))
  BY DEF SlotsAreKept, ViewIsTrue
<1>1. CASE UpdateRunStatus
  <2>1. /\ UNCHANGED <<wfVars, disp, exec>> /\ call.op = "setRun" /\ call'.op = "setRun"
        /\ call'.to = call.to
    BY <1>1, CallMoves DEF UpdateRunStatus, Database
  <2>2. ASSUME Steady' PROVE Steady /\ task' = task
    <3>1. Steady
      BY <2>1, <2>2 DEF Steady, Ended
    <3>2. phase \in {"boot", "handle"}
      BY <2>1 DEF CallFits, TypeOK, Phases, NoCall
    <3>3. call.to \in {"running", "paused"}
      BY <3>1, <3>2 DEF Steady, CallFits
    <3>4. TasksAfterRun(call.to) = task
      BY <3>3 DEF TasksAfterRun, TypeOK
    <3>. QED BY <1>1, <3>1, <3>4 DEF UpdateRunStatus
  <2>. QED BY <2>1, <2>2 DEF ViewIsTrue, RowFollows
<1>2. CASE RecordTaskResult
  <2>1. phase' = phase /\ call.op = "record" /\ call'.op = "record"
    BY <1>2, CallMoves DEF RecordTaskResult, Database
  <2>2. phase \in {"handle", "closed", "aborted"}
    BY <2>1 DEF CallFits, TypeOK, Phases, NoCall
  <2>. QED BY <2>1, <2>2 DEF ViewIsTrue, Steady, Ended
<1>3. CASE ResetTaskForRetry
  <2>1. /\ UNCHANGED <<wfVars, disp, exec>> /\ call.op = "retry" /\ call'.op = "retry"
        /\ call'.task = call.task /\ call.task \in queue /\ call.task \in Tasks
        /\ phase = "prepare" /\ Steady
    BY <1>3, CallMoves DEF ResetTaskForRetry, Database, SchedulerInv, BatchIsReady, TypeOK, Steady, Ended
  <2>2. task' = task \/ /\ task' = [task EXCEPT ![call.task] = "ready"]
                        /\ task[call.task] # "planned"
    BY <1>3 DEF ResetTaskForRetry
  <2>3. ASSUME NEW u \in Tasks PROVE RowFollows(u)'
    <3>1. Stage(u) /\ RowFollows(u)
      BY <1>0, <2>1
    <3>2. CASE task'[u] = task[u]
      BY <2>1, <3>1, <3>2 DEF RowFollows
    <3>3. CASE u = call.task /\ task[u] # "planned" /\ task'[u] = "ready"
      <4>1. view[u] = "planned" \/ view[u] \in {"blocked", "changes_requested"}
        BY <2>1, <3>1, <3>3 DEF Stage
      <4>2. u \notin awaiting /\ exec[u] = "none"
        BY <3>1, <4>1 DEF Stage
      <4>. QED BY <2>1, <3>1, <3>3, <4>2 DEF RowFollows, Outcomes
    <3>. QED BY <2>1, <2>2, <3>2, <3>3 DEF TypeOK
  <2>. QED BY <2>3 DEF ViewIsTrue
<1>4. CASE LoseAnswer \/ GiveUp
  <2>1. /\ UNCHANGED <<dbVars, wfVars, exec>> /\ call'.op = call.op
        /\ (call.op = "setRun" => call'.to = call.to)
        /\ (call.op = "retry" => call'.task = call.task)
    BY <1>4, CallMoves DEF LoseAnswer, GiveUp
  <2>2. \A t \in Tasks : disp'[t] = "ok" => disp[t] = "ok"
    BY <1>4 DEF LoseAnswer, GiveUp, TypeOK
  <2>3. Steady' => Steady
    BY <2>1 DEF Steady, Ended
  <2>. QED BY <2>1, <2>2, <2>3 DEF ViewIsTrue, RowFollows
<1>5. ASSUME NEW t \in Tasks, Executor(t) PROVE ViewIsTrue'
  <2>1. UNCHANGED <<wfVars, call>>
    BY <1>5 DEF Executor, MarkTaskReady, BeginAttempt, SetAttemptStatus, FinishAttempt, ExecError
  <2>2. \A u \in Tasks \ {t} : task'[u] = task[u] /\ disp'[u] = disp[u] /\ exec'[u] = exec[u]
    BY <1>5 DEF Executor, MarkTaskReady, BeginAttempt, SetAttemptStatus, FinishAttempt, ExecError, TypeOK
  <2>3. ASSUME Steady PROVE RowFollows(t)'
    <3>0. Stage(t) /\ RowFollows(t)
      BY <1>0, <2>3
    <3>1. CASE MarkTaskReady(t)
      <4>1. t \in awaiting /\ view[t] = "ready" /\ exec'[t] = "none"
        BY <3>0, <3>1 DEF MarkTaskReady, Stage
      <4>2. disp'[t] = "ok" => task'[t] # "planned"
        BY <3>1 DEF MarkTaskReady, TypeOK
      <4>. QED BY <2>1, <4>1, <4>2 DEF RowFollows, Outcomes
    <3>2. ASSUME exec[t] # "none", disp' = disp, task[t] # "planned" => task'[t] # "planned",
                 exec'[t] \in Outcomes \ {"error"} => task'[t] = exec'[t]
          PROVE  RowFollows(t)'
      <4>1. view[t] = "running" /\ t \notin awaiting /\ disp[t] = "none"
        BY <3>0, <3>2 DEF Stage
      <4>2. task'[t] # "planned"
        BY <3>0, <3>2, <4>1 DEF RowFollows
      <4>. QED BY <2>1, <3>2, <4>1, <4>2 DEF RowFollows
    <3>3. CASE BeginAttempt(t)
      BY <3>2, <3>3 DEF BeginAttempt, Outcomes, TypeOK
    <3>4. CASE SetAttemptStatus(t)
      BY <3>2, <3>4 DEF SetAttemptStatus, Outcomes, TypeOK
    <3>5. CASE FinishAttempt(t)
      BY <3>2, <3>5 DEF FinishAttempt, Outcomes, TypeOK
    <3>6. CASE ExecError(t)
      BY <3>2, <3>6 DEF ExecError, ExecStates, Outcomes, TypeOK
    <3>. QED BY <1>5, <3>1, <3>3, <3>4, <3>5, <3>6 DEF Executor
  <2>4. Steady' => Steady
    BY <2>1 DEF Steady, Ended
  <2>5. ASSUME NEW u \in Tasks \ {t}, Steady PROVE RowFollows(u)'
    BY <1>0, <2>1, <2>2, <2>5 DEF RowFollows
  <2>. QED BY <2>3, <2>4, <2>5 DEF ViewIsTrue
<1>6. CASE Owner
  BY <1>6 DEF Owner, Ask, Deliver, ViewIsTrue, RowFollows, Steady, Ended
<1>7. CASE Workflow
  <2> USE DEF Await, FailPlan, GoOn
  <2>0. task' = task
    BY <1>7 DEF Workflow, RunStatusSet, TaskResultRecorded, TaskRetried, Poll, Decide,
       Prepare, AwaitDispatch, SelectSignal, SelectCompletion
  (* A step that leaves the view and the tasks' activities alone.          *)
  <2>a. ASSUME Steady' => Steady, UNCHANGED <<view, awaiting, disp, exec>>, call.op # "retry"
        PROVE  ViewIsTrue'
    BY <1>0, <2>0, <2>a DEF ViewIsTrue, RowFollows
  <2>1. CASE RunStatusSet
    <3>1. UNCHANGED <<awaiting, disp, exec>> /\ call.op = "setRun" /\ call' = NoCall
      BY <2>1 DEF RunStatusSet
    <3>2. ASSUME Steady' PROVE Steady /\ view' = view
      <4>1. call.answer = "ok" /\ phase' \in {"poll", "decide"}
        BY <2>1, <3>2 DEF RunStatusSet, Steady, Ended
      <4>2. phase = "boot" \/ (phase = "handle" /\ call.to \notin FinalRun)
        BY <2>1, <4>1 DEF RunStatusSet
      <4>3. call.to \in {"running", "paused"}
        BY <2>1, <4>2 DEF RunStatusSet, RunIsKnown, CallFits, FinalRun, ValidRunTransition
      <4>. QED BY <2>1, <4>1, <4>2, <4>3 DEF RunStatusSet, Steady, Ended
    <3>3. CASE Steady'
      BY <2>a, <3>1, <3>2, <3>3
    <3>. QED BY <3>3 DEF ViewIsTrue
  <2>2. CASE TaskResultRecorded
    BY <2>2 DEF TaskResultRecorded, ViewIsTrue, Steady, SetRun
  <2>3. CASE TaskRetried
    <3>1. CASE call.answer = "ok" /\ Dispatch(call.task) /\ call' = NoCall
      <4>1. call.task \in queue /\ Steady /\ phase = "prepare" /\ UNCHANGED <<task, exec>>
        BY <2>0, <2>3 DEF TaskRetried, SchedulerInv, BatchIsReady, Steady, Ended
      <4>. QED BY <3>1, <4>1, DispatchFollows, NewCalls DEF ViewIsTrue
    <3>2. CASE FailPlan
      BY <3>2 DEF ViewIsTrue, Steady, SetRun
    <3>. QED BY <2>3, <3>1, <3>2 DEF TaskRetried
  <2>4. CASE Poll \/ \E s \in inbox : SelectSignal(s)
    BY <2>4, <2>a, NewCalls DEF Poll, SelectSignal, Steady, Ended, CallFits
  <2>5. CASE Decide
    BY <2>5, <2>a, NewCalls DEF Decide, Steady, Ended, CallFits
  <2>6. CASE Prepare
    <3>1. PICK t \in queue : \/ Dispatch(t) /\ call' = call
                             \/ /\ call' = Retry(t)
                                /\ UNCHANGED <<phase, view, active, retryable, queue, awaiting, disp>>
      BY <2>6 DEF Prepare
    <3>2. exec' = exec /\ phase = "prepare" /\ call = NoCall /\ Steady
      BY <2>6 DEF Prepare, Steady, Ended
    <3>3. CASE Dispatch(t) /\ call' = call
      BY <2>0, <3>2, <3>3, DispatchFollows, NewCalls DEF ViewIsTrue
    <3>4. CASE UNCHANGED <<phase, view, active, retryable, queue, awaiting, disp>>
      BY <2>a, <3>2, <3>4, NewCalls
    <3>. QED BY <3>1, <3>3, <3>4
  <2>7. CASE AwaitDispatch
    <3>0. Steady /\ call = NoCall
      BY <2>7 DEF AwaitDispatch, Steady, Ended
    <3>1. PICK t \in awaiting :
            /\ awaiting' = awaiting \ {t} /\ disp' = [disp EXCEPT ![t] = "none"]
            /\ \/ /\ disp[t] = "ok" /\ exec' = [exec EXCEPT ![t] = "scheduled"]
                  /\ view' = [view EXCEPT ![t] = "running"] /\ call' = call
               \/ Await(Record(t, "failed"))
      BY <2>7 DEF AwaitDispatch
    <3>2. CASE Await(Record(t, "failed"))
      BY <3>2 DEF ViewIsTrue, Steady, Record
    <3>3. CASE /\ disp[t] = "ok" /\ exec' = [exec EXCEPT ![t] = "scheduled"]
               /\ view' = [view EXCEPT ![t] = "running"] /\ call' = call
      <4>1. ASSUME NEW u \in Tasks PROVE RowFollows(u)'
        <5>0. RowFollows(u)
          BY <1>0, <3>0
        <5>1. CASE u = t
          BY <2>0, <3>1, <3>3, <5>0, <5>1 DEF RowFollows, TypeOK, Outcomes
        <5>2. CASE u # t
          BY <2>0, <3>1, <3>3, <5>0, <5>2 DEF RowFollows, TypeOK
        <5>. QED BY <5>1, <5>2
      <4>. QED BY <4>1 DEF ViewIsTrue
    <3>. QED BY <3>1, <3>2, <3>3
  <2>8. ASSUME NEW t \in Tasks, SelectCompletion(t) PROVE ViewIsTrue'
    <3>0. Steady /\ phase = "select" /\ call = NoCall
      BY <2>8 DEF SelectCompletion, Steady, Ended, CallFits
    <3>1. /\ exec[t] \in Outcomes /\ exec' = [exec EXCEPT ![t] = "none"]
          /\ view' = [view EXCEPT ![t] = OutcomeStatus(exec[t])]
          /\ UNCHANGED <<awaiting, disp>>
      BY <2>8 DEF SelectCompletion
    <3>2. Steady' => exec[t] \in Outcomes \ {"error"} /\ call'.op # "retry"
      BY <2>8, <3>0, NewCalls DEF SelectCompletion, Steady, Record, SetRun
    <3>3. ASSUME Steady', NEW u \in Tasks PROVE RowFollows(u)'
      <4>0. Stage(u) /\ RowFollows(u)
        BY <1>0, <3>0
      <4>1. CASE u = t
        <5>1. task[t] = exec[t] /\ view'[t] = task[t] /\ t \notin awaiting /\ disp[t] = "none"
          <6>1. exec[t] # "none" /\ exec[t] # "error" /\ exec[t] \in Outcomes \ {"error"}
            BY <3>2, <3>3 DEF Outcomes
          <6>2. view'[t] = exec[t]
            BY <3>1, <6>1 DEF OutcomeStatus, TypeOK
          <6>. QED BY <4>0, <4>1, <6>1, <6>2 DEF RowFollows, Stage
        <5>2. exec'[t] = "none"
          BY <3>1 DEF TypeOK
        <5>. QED BY <2>0, <3>1, <4>1, <5>1, <5>2 DEF RowFollows, Outcomes
      <4>2. CASE u # t
        BY <2>0, <3>0, <3>1, <3>2, <3>3, <4>0, <4>2, NewCalls DEF RowFollows, TypeOK
      <4>. QED BY <4>1, <4>2
    <3>. QED BY <3>3 DEF ViewIsTrue
  <2>. QED BY <1>7, <2>1, <2>2, <2>3, <2>4, <2>5, <2>6, <2>7, <2>8 DEF Workflow
<1>. QED BY <1>1, <1>2, <1>3, <1>4, <1>5, <1>6, <1>7 DEF Next, Database

(* The workflow holds no slot and believes what the rows say at first.     *)
LEMMA FlowInit == Init => FlowInv
<1> SUFFICES ASSUME Init PROVE FlowInv
  OBVIOUS
<1>1. call.op = "setRun" /\ call.to = "running" /\ call.answer = "none"
  BY DEF Init, SetRun
<1>2. CallFits
  BY <1>1 DEF Init, CallFits
<1>3. SlotsAreKept
  <2>1. AtWork = {} /\ active \cup queue = {}
    BY DEF Init, AtWork
  <2>2. Cardinality(AtWork) = 0 /\ Cardinality(active \cup queue) = 0
    BY <2>1, FS_EmptySet
  <2>. QED BY <2>2, BoundsAssumption DEF Init, SlotsAreKept, Batch, Stage
<1>4. RunIsKnown
  BY <1>1 DEF Init, RunIsKnown, ValidRunTransition
<1>5. ViewIsTrue
  BY <1>1 DEF Init, ViewIsTrue, RowFollows, Outcomes
<1>. QED BY <1>2, <1>3, <1>4, <1>5 DEF FlowInv

(* Every step keeps the flow: one lemma per part of it.                    *)
LEMMA FlowStep == TypeOK /\ SchedulerInv /\ FlowInv /\ [Next]_vars => FlowInv'
<1>1. FlowInv /\ UNCHANGED vars => FlowInv'
  BY DEF vars, FlowInv, CallFits, SlotsAreKept, RunIsKnown, ViewIsTrue, RowFollows, Stage, Batch,
     AtWork, Steady, Ended
<1>2. SchedulerInv => BatchIsReady
  BY DEF SchedulerInv
<1>. QED BY <1>1, <1>2, CallFitsStep, RunIsKnownStep, SlotsAreKeptStep, ViewIsTrueStep DEF FlowInv

(* Slots, run row and view stay what the workflow takes them for, in every *)
(* plan and under any interleaving of signals, executors and faults.       *)
THEOREM FlowKept == Spec => []FlowInv
  BY TypeCorrect, SchedulerConsistent, FlowInit, FlowStep, PTL DEF Spec

(* No more executors than max_parallel_tasks, whatever is retried,         *)
(* dispatched or paused meanwhile.                                         *)
THEOREM SlotsBoundExecutors == Spec => []ParallelLimit
<1>1. FlowInv => ParallelLimit
  <2> SUFFICES ASSUME FlowInv, ~Ended
               PROVE  Cardinality({t \in Tasks : exec[t] \in {"scheduled", "working"}}) <= MaxParallel
    BY DEF ParallelLimit
  <2> DEFINE W == {t \in Tasks : exec[t] \in {"scheduled", "working"}}
  <2>1. W \subseteq AtWork /\ W \in SUBSET Tasks /\ AtWork \in SUBSET Tasks
    BY DEF AtWork
  <2>2. Cardinality(W) <= Cardinality(AtWork)
    BY <2>1, SlotSizes
  <2>3. Cardinality(W) \in Nat /\ Cardinality(AtWork) \in Nat
    BY <2>1, SlotSizes
  <2>4. Cardinality(AtWork) <= MaxParallel
    BY DEF FlowInv, SlotsAreKept
  <2>. QED BY <2>2, <2>3, <2>4, BoundsAssumption
<1>. QED BY <1>1, FlowKept, PTL

(* While the workflow waits for events, and when it has returned, its      *)
(* memory and the rows agree: a lost answer, a retry or a control request  *)
(* never leaves a task or the run in a state nobody would correct.         *)
THEOREM WorkflowFollowsRows == Spec => []WorkflowKeepsRows
<1>1. SchedulerInv /\ FlowInv => WorkflowKeepsRows
  <2> SUFFICES ASSUME SchedulerInv, FlowInv PROVE WorkflowKeepsRows
    OBVIOUS
  <2>1. ASSUME phase = "select"
        PROVE  /\ run = status
               /\ \A t \in Tasks : /\ view[t] = "planned" <=> task[t] = "planned"
                                   /\ view[t] \in {"completed", "blocked"} => task[t] = view[t]
    <3>1. Steady /\ call = NoCall
      BY <2>1 DEF Steady, Ended, FlowInv, CallFits
    <3>2. run = status
      BY <2>1, <3>1, NewCalls DEF FlowInv, RunIsKnown
    <3>3. awaiting = {} /\ \A t \in Tasks : RowFollows(t)
      BY <2>1, <3>1 DEF FlowInv, SlotsAreKept, Batch, ViewIsTrue
    <3>. QED BY <3>1, <3>2, <3>3, NewCalls DEF RowFollows, SchedulerInv, ViewIsBacked
  <2>2. ASSUME phase = "closed" PROVE run \in FinalRun /\ run = status
    BY <2>2, NewCalls DEF FlowInv, RunIsKnown, CallFits
  <2>3. ASSUME phase = "aborted", faults = 0
        PROVE  run = "paused" /\ \A t \in Tasks : task[t] = "completed"
    BY <2>3 DEF FlowInv, RunIsKnown
  <2>. QED BY <2>1, <2>2, <2>3 DEF WorkflowKeepsRows, WorkflowAgreesWithRows, EndedWorkflowIsSettled
<1>. QED BY <1>1, SchedulerConsistent, FlowKept, PTL

-----------------------------------------------------------------------------
(***************************************************************************)
(* Why a run fails.  Without faults everything the workflow asks for has a *)
(* reason in the rows or in its view, and the reason of a failure lasts    *)
(* until the run row is written, however the executors go on meanwhile.    *)
(***************************************************************************)

(* Something has gone wrong with a task, for good while the run is failed: *)
(* its row says so and nobody is at work on it, an owner cancelled it, or  *)
(* its executor has answered meanwhile.                                    *)
Wrong(t) == \/ /\ task[t] \in {"failed", "cancelled", "blocked", "changes_requested"}
               /\ exec[t] \notin {"scheduled", "working"}
            \/ view[t] = "cancelled"
            \/ t \in active /\ exec[t] \in Outcomes

(* A task somebody has begun to work on is not planned any more.           *)
Begun(t) == \/ exec[t] # "none" \/ disp[t] = "ok"
            \/ disp[t] = "err" /\ phase \in {"prepare", "await"}
BegunIsNotPlanned == \A t \in Tasks : Begun(t) => task[t] # "planned"

(* Nobody but its executor completes a task.                               *)
CompletedIsSeen ==
  \A t \in Tasks : task[t] = "completed" => view[t] = "completed" \/ exec[t] = "completed"

(* A steady workflow has no failed or cancelled task, and one that waits   *)
(* for its owner waits in the row too.                                     *)
ViewFits(t) ==
  \/ view[t] \in {"planned", "completed"}
  \/ t \in active /\ view[t] \in {"ready", "running"}
  \/ /\ view[t] \in {"blocked", "changes_requested"}
     /\ task[t] = view[t] \/ (call.op = "retry" /\ call.task = t)
ViewsFit == Steady => \A t \in Tasks : ViewFits(t)

(* What the workflow asks for has its reason.                              *)
RetryHasReason ==
  call.op = "retry" /\ call.answer # "ok" => task[call.task] \in {"blocked", "changes_requested"}
FailureHasReason ==
  call.op = "record" /\ call.to = "failed" =>
    /\ exec[call.task] = "none" /\ view[call.task] = "failed" /\ task[call.task] # "planned"
    /\ call.answer # "none" => task[call.task] \in {"failed", "cancelled"}
CancellationHasReason ==
  call.op = "record" /\ call.to = "cancelled" =>
    /\ view[call.task] # "completed" /\ (exec[call.task] # "none" => call.task \in active)
    /\ call.answer = "err" => task[call.task] = "completed"
EndHasReason == call.op = "setRun" /\ call.to = "failed" => \E t \in Tasks : Wrong(t)

Reasons == /\ phase \in {"prepare", "await"} => status = "running"
           /\ RetryHasReason /\ FailureHasReason /\ CancellationHasReason /\ EndHasReason

Causes   == BegunIsNotPlanned /\ CompletedIsSeen /\ ViewsFit /\ Reasons
CauseInv == faults = 0 => Causes

(* A plan without cycles.  The gate takes a plan only if peeling its waves *)
(* reaches every task (Validate of PlanBuilder; planning/validator.go):    *)
(* the wave of a task is its rank.                                         *)
Acyclic == \E rank \in [Tasks -> Nat] : \A t \in Tasks : \A d \in Deps[t] : rank[d] < rank[t]

(* Without faults no answer is lost and no activity given up.              *)
LEMMA Faultless ==
  ASSUME TypeOK, Next, faults' = 0
  PROVE  /\ faults = 0 /\ (Workflow \/ Database \/ Owner \/ \E t \in Tasks : Executor(t))
         /\ \A t \in Tasks : ExecError(t) => exec[t] \in {"scheduled", "working"}
<1>1. faults' = faults \/ faults' = faults + 1
  BY DEF Next, Workflow, RunStatusSet, TaskResultRecorded, TaskRetried, Poll, Decide, Prepare,
     AwaitDispatch, SelectSignal, SelectCompletion, Database, UpdateRunStatus, RecordTaskResult,
     ResetTaskForRetry, Executor, MarkTaskReady, BeginAttempt, SetAttemptStatus, FinishAttempt,
     ExecError, LoseAnswer, GiveUp, Owner, Ask, Deliver
<1>2. faults \in Nat
  BY DEF TypeOK
<1>3. faults = 0 /\ faults' # faults + 1
  BY <1>1, <1>2
<1>4. ~LoseAnswer /\ ~GiveUp
  BY <1>3 DEF LoseAnswer, GiveUp
<1>5. ASSUME NEW t \in Tasks, ExecError(t) PROVE exec[t] \in {"scheduled", "working"}
  BY <1>3, <1>5 DEF ExecError
<1>. QED BY <1>3, <1>4, <1>5 DEF Next

(* A task row is planned only at first, and only its executor completes    *)
(* it: nobody writes either status over another.                           *)
LEMMA PlannedIsFirst ==
  ASSUME TypeOK, Next
  PROVE  \A t \in Tasks : /\ task'[t] = "planned" => task[t] = "planned"
                          /\ task'[t] = "completed" => task[t] = "completed" \/ exec'[t] = "completed"
<1>1. CASE UNCHANGED task
  BY <1>1
<1>2. CASE UpdateRunStatus
  BY <1>2 DEF UpdateRunStatus, TasksAfterRun, TypeOK
<1>3. CASE RecordTaskResult
  <2>1. call.to \in {"failed", "cancelled"}
    BY <1>3 DEF RecordTaskResult, TypeOK, Calls, NoCall
  <2>. QED BY <1>3, <2>1 DEF RecordTaskResult, TypeOK
<1>4. CASE ResetTaskForRetry
  BY <1>4 DEF ResetTaskForRetry, TypeOK
<1>5. ASSUME NEW u \in Tasks, Executor(u), NEW t \in Tasks
      PROVE  /\ task'[t] = "planned" => task[t] = "planned"
             /\ task'[t] = "completed" => task[t] = "completed" \/ exec'[t] = "completed"
  BY <1>5 DEF Executor, MarkTaskReady, BeginAttempt, SetAttemptStatus, FinishAttempt,
     ExecError, Outcomes, TypeOK
<1>6. ASSUME Workflow \/ Owner \/ LoseAnswer \/ GiveUp PROVE UNCHANGED task
  BY <1>6 DEF Workflow, RunStatusSet, TaskResultRecorded, TaskRetried, Poll, Decide,
     Prepare, AwaitDispatch, SelectSignal, SelectCompletion, Owner, Ask, Deliver,
     LoseAnswer, GiveUp
<1>. QED BY <1>1, <1>2, <1>3, <1>4, <1>5, <1>6 DEF Next, Database

(* Only what a task's own dispatch and executor do changes whether it has  *)
(* begun.                                                                  *)
LEMMA BegunStep ==
  ASSUME TypeOK, SchedulerInv, FlowInv, Causes, Next, faults' = 0
  PROVE  BegunIsNotPlanned'
<1> SUFFICES ASSUME NEW t \in Tasks, Begun(t)', task[t] = "planned" PROVE task'[t] # "planned"
  BY PlannedIsFirst DEF BegunIsNotPlanned
<1>0. ~Begun(t)
  BY DEF Causes, BegunIsNotPlanned
<1>1. CASE Database
  BY <1>0, <1>1 DEF Database, UpdateRunStatus, RecordTaskResult, ResetTaskForRetry, Begun
<1>2. CASE Owner
  BY <1>0, <1>2 DEF Owner, Ask, Deliver, Begun
<1>3. ASSUME NEW u \in Tasks, Executor(u) PROVE task'[t] # "planned"
  <2>1. CASE u # t
    BY <1>0, <1>3, <2>1 DEF Executor, MarkTaskReady, BeginAttempt, SetAttemptStatus, FinishAttempt,
       ExecError, Begun, TypeOK
  <2>2. CASE u = t
    <3>1. CASE MarkTaskReady(t)
      <4>1. phase \in {"prepare", "await"} => run = "running"
        BY NewCalls DEF Causes, Reasons, FlowInv, CallFits, RunIsKnown
      <4>. QED BY <1>0, <3>1, <4>1 DEF MarkTaskReady, Begun, TypeOK
    <3>2. ~MarkTaskReady(t) => exec[t] # "none"
      BY <1>3, <2>2 DEF Executor, BeginAttempt, SetAttemptStatus, FinishAttempt, ExecError
    <3>. QED BY <1>0, <3>1, <3>2 DEF Begun
  <2>. QED BY <2>1, <2>2
<1>4. CASE Workflow
  <2> USE DEF Await, FailPlan, GoOn
  <2>1. CASE RunStatusSet
    BY <1>0, <2>1 DEF RunStatusSet, Begun
  <2>2. CASE TaskResultRecorded
    BY <1>0, <2>2 DEF TaskResultRecorded, Begun
  <2>3. CASE TaskRetried
    BY <1>0, <2>3 DEF TaskRetried, Dispatch, Begun, TypeOK
  <2>4. CASE Poll \/ \E s \in inbox : SelectSignal(s)
    <3>1. UNCHANGED <<disp, exec>> /\ phase' \in {"decide", "handle"}
      BY <2>4, SignalMoves DEF Poll, SelectSignal, FlowInv, RunIsKnown
    <3>. QED BY <1>0, <3>1 DEF Begun
  <2>5. CASE Decide
    <3>1. UNCHANGED <<disp, exec>> /\ disp[t] = "none"
      BY <2>5 DEF Decide, FlowInv, SlotsAreKept, Steady, Ended, Batch, Stage
    <3>. QED BY <1>0, <3>1 DEF Begun
  <2>6. CASE Prepare
    BY <1>0, <2>6 DEF Prepare, Dispatch, Begun, TypeOK
  <2>7. CASE AwaitDispatch
    BY <1>0, <2>7 DEF AwaitDispatch, Begun, TypeOK
  <2>8. ASSUME NEW u \in Tasks, SelectCompletion(u) PROVE task'[t] # "planned"
    BY <1>0, <2>8 DEF SelectCompletion, Begun, TypeOK
  <2>. QED BY <1>4, <2>1, <2>2, <2>3, <2>4, <2>5, <2>6, <2>7, <2>8 DEF Workflow
<1>. QED BY <1>1, <1>2, <1>3, <1>4, Faultless


(* Only what its own executor and its own activities write moves a task,   *)
(* and an executor that has answered is not heard again.                   *)
LEMMA ExecutorsLeave ==
  ASSUME TypeOK, Next, faults' = 0, NEW u \in Tasks, Executor(u)
  PROVE  /\ UNCHANGED <<run, wfVars, call>>
         /\ \A t \in Tasks : exec[t] \notin {"scheduled", "working"} =>
               /\ exec'[t] = exec[t]
               /\ task[t] # "planned" => task'[t] = task[t]
         /\ \A t \in Tasks : exec'[t] # "none" => exec[t] # "none"
         /\ \A t \in Tasks : exec[t] \notin {"scheduled", "working"} /\ disp[t] = "none" =>
               task'[t] = task[t]
<1>1. UNCHANGED <<run, wfVars, call>>
  BY DEF Executor, MarkTaskReady, BeginAttempt, SetAttemptStatus, FinishAttempt, ExecError
<1>2. ASSUME NEW t \in Tasks
      PROVE  /\ exec[t] \notin {"scheduled", "working"} =>
                  /\ exec'[t] = exec[t] /\ (task[t] # "planned" => task'[t] = task[t])
                  /\ (disp[t] = "none" => task'[t] = task[t])
             /\ exec'[t] # "none" => exec[t] # "none"
  <2>1. CASE MarkTaskReady(u)
    BY <2>1 DEF MarkTaskReady, TypeOK
  <2>2. CASE BeginAttempt(u)
    BY <2>2 DEF BeginAttempt, TypeOK
  <2>3. CASE SetAttemptStatus(u)
    BY <2>3 DEF SetAttemptStatus, TypeOK
  <2>4. CASE FinishAttempt(u)
    BY <2>4 DEF FinishAttempt, TypeOK
  <2>5. CASE ExecError(u)
    BY <2>5, Faultless DEF ExecError, TypeOK
  <2>. QED BY <2>1, <2>2, <2>3, <2>4, <2>5 DEF Executor
<1>. QED BY <1>1, <1>2

(* The reason of a failure outlives what executors and owners do until the *)
(* run row says `failed'.                                                  *)
LEMMA WrongStays ==
  ASSUME TypeOK, Next, faults' = 0, ~Workflow, call.op = "setRun", call.to = "failed",
         NEW t \in Tasks, Wrong(t)
  PROVE  Wrong(t)'
<1>1. CASE Database
  <2>1. UpdateRunStatus
    BY <1>1 DEF Database, RecordTaskResult, ResetTaskForRetry
  <2>2. UNCHANGED <<view, active, exec>>
    BY <2>1 DEF UpdateRunStatus
  <2>3. task[t] \in {"failed", "cancelled", "blocked", "changes_requested"} => task'[t] = task[t]
    BY <2>1 DEF UpdateRunStatus, TasksAfterRun, TypeOK
  <2>. QED BY <2>2, <2>3 DEF Wrong
<1>2. CASE Owner
  BY <1>2 DEF Owner, Ask, Deliver, Wrong
<1>3. ASSUME NEW u \in Tasks, Executor(u) PROVE Wrong(t)'
  BY <1>3, ExecutorsLeave DEF Wrong, Outcomes
<1>. QED BY <1>1, <1>2, <1>3, Faultless

(* Ranks of tasks have a smallest one.                                     *)
LEMMA LowestRank ==
  ASSUME NEW rank \in [Tasks -> Nat], NEW S \in SUBSET Tasks, S # {}
  PROVE  \E t \in S : \A u \in S : ~(rank[u] < rank[t])
<1> DEFINE R == {rank[t] : t \in S}
<1>1. R \subseteq Nat /\ R # {}
  OBVIOUS
<1>2. PICK n \in R : \A m \in R : <<m, n>> \notin OpToRel(<, Nat)
  BY <1>1, NatLessThanWellFounded, WFMin
<1>3. \A m \in R : ~(m < n)
  BY <1>1, <1>2 DEF OpToRel
<1>4. PICK t \in S : n = rank[t]
  BY <1>2
<1>. QED BY <1>3, <1>4

(* A workflow with free slots and nothing to start has a task that waits   *)
(* for its owner: in a plan without cycles somebody else could start.      *)
LEMMA StuckHasCause ==
  ASSUME TypeOK, Acyclic, Stuck, ~AllCompleted, call.op # "retry", Steady, ViewsFit, SlotsAreKept
  PROVE  \E t \in Tasks : task[t] \in {"blocked", "changes_requested"} /\ exec[t] = "none"
<1>1. active = {} /\ Runnable = {} /\ \A t \in Tasks : ViewFits(t) /\ Stage(t)
  BY DEF Stuck, ViewsFit, SlotsAreKept
<1>2. \A t \in Tasks : exec[t] = "none"
  BY <1>1 DEF Stage
<1>3. CASE \E t \in Tasks : view[t] \notin {"planned", "completed"}
  BY <1>1, <1>2, <1>3 DEF ViewFits
<1>4. CASE \A t \in Tasks : view[t] \in {"planned", "completed"}
  <2> DEFINE P == {t \in Tasks : view[t] = "planned"}
  <2>1. P # {}
    BY <1>4 DEF AllCompleted
  <2>2. PICK rank \in [Tasks -> Nat] : \A t \in Tasks : \A d \in Deps[t] : rank[d] < rank[t]
    BY DEF Acyclic
  <2>3. PICK t \in P : \A u \in P : ~(rank[u] < rank[t])
    BY <2>1, LowestRank
  <2>4. \A d \in Deps[t] : view[d] = "completed"
    BY <1>4, <2>2, <2>3, DepsAssumption
  <2>. QED BY <1>1, <2>4 DEF Runnable
<1>. QED BY <1>3, <1>4

(* Nobody but its executor completes a task, and the workflow hears of it. *)
LEMMA SeenStep ==
  ASSUME TypeOK, SchedulerInv, FlowInv, Causes, Next, faults' = 0
  PROVE  CompletedIsSeen'
<1> SUFFICES ASSUME NEW t \in Tasks, task'[t] = "completed", exec'[t] # "completed"
             PROVE  view'[t] = "completed"
  BY DEF CompletedIsSeen
<1>0. task[t] = "completed" /\ (view[t] = "completed" \/ exec[t] = "completed")
  BY PlannedIsFirst DEF Causes, CompletedIsSeen
<1>1. CASE Database \/ Owner
  BY <1>0, <1>1 DEF Database, UpdateRunStatus, RecordTaskResult, ResetTaskForRetry, Owner, Ask, Deliver
<1>2. ASSUME NEW u \in Tasks, Executor(u) PROVE view'[t] = "completed"
  BY <1>0, <1>2, ExecutorsLeave
<1>3. CASE Workflow
  <2> USE DEF Await, FailPlan, GoOn
  <2>1. CASE RunStatusSet
    BY <1>0, <2>1 DEF RunStatusSet, TypeOK
  <2>2. CASE TaskResultRecorded
    BY <1>0, <2>2 DEF TaskResultRecorded, Causes, Reasons, CancellationHasReason, TypeOK
  <2>3. ASSUME NEW u \in queue, Dispatch(u), phase = "prepare" PROVE view'[u] # view[u] => view[u] # "completed"
    BY <2>3 DEF FlowInv, SlotsAreKept, Steady, Ended, Stage, TypeOK
  <2>4. CASE TaskRetried
    <3>1. call.task \in queue /\ phase = "prepare" /\ exec' = exec
      BY <2>4 DEF TaskRetried, SchedulerInv, BatchIsReady
    <3>. QED BY <1>0, <2>3, <2>4, <3>1 DEF TaskRetried, Dispatch, TypeOK
  <2>5. CASE Prepare
    BY <1>0, <2>3, <2>5 DEF Prepare, Dispatch, TypeOK
  <2>6. CASE Poll \/ Decide \/ \E s \in inbox : SelectSignal(s)
    BY <1>0, <2>6 DEF Poll, Decide, SelectSignal
  <2>7. CASE AwaitDispatch
    <3>1. Steady
      BY <2>7 DEF AwaitDispatch, Steady, Ended
    <3>2. t \notin awaiting
      BY <1>0, <3>1 DEF FlowInv, SlotsAreKept, Stage
    <3>. QED BY <1>0, <2>7, <3>2 DEF AwaitDispatch, TypeOK
  <2>8. ASSUME NEW u \in Tasks, SelectCompletion(u) PROVE view'[t] = "completed"
    <3>1. CASE u # t
      BY <1>0, <2>8, <3>1 DEF SelectCompletion, TypeOK
    <3>2. CASE u = t
      <4>1. Steady
        BY <2>8 DEF SelectCompletion, Steady, Ended
      <4>2. view[t] = "running"
        BY <2>8, <3>2, <4>1 DEF SelectCompletion, FlowInv, SlotsAreKept, Stage, Outcomes
      <4>. QED BY <1>0, <2>8, <3>2, <4>2 DEF SelectCompletion, OutcomeStatus, TypeOK
    <3>. QED BY <3>1, <3>2
  <2>. QED BY <1>3, <2>1, <2>2, <2>4, <2>5, <2>6, <2>7, <2>8 DEF Workflow
<1>. QED BY <1>1, <1>2, <1>3, Faultless

(* A task that waits for its owner is left alone until it is retried.      *)
LEMMA WaitingIsLeftAlone ==
  ASSUME TypeOK, Next, faults' = 0, Steady, SlotsAreKept, NEW u \in Tasks, Executor(u),
         NEW t \in Tasks, view[t] \in {"blocked", "changes_requested"}
  PROVE  task'[t] = task[t]
<1>1. exec[t] = "none" /\ disp[t] = "none"
  BY DEF SlotsAreKept, Stage
<1>. QED BY <1>1, ExecutorsLeave

(* The view of a steady workflow stays one without failures.               *)
LEMMA ViewsStep ==
  ASSUME TypeOK, SchedulerInv, FlowInv, Causes, Next, faults' = 0
  PROVE  ViewsFit'
<1> SUFFICES ASSUME Steady', NEW t \in Tasks PROVE ViewFits(t)'
  BY DEF ViewsFit
<1>0. Steady => \A u \in Tasks : Stage(u) /\ RowFollows(u) /\ ViewFits(u)
  BY DEF FlowInv, SlotsAreKept, ViewIsTrue, Causes, ViewsFit
<1>1. CASE UpdateRunStatus
  <2>1. UNCHANGED wfVars /\ call.op = "setRun" /\ call'.op = "setRun" /\ call'.to = call.to
    BY <1>1, CallMoves DEF UpdateRunStatus, Database
  <2>2. Steady
    BY <2>1 DEF Steady, Ended
  <2>3. phase \in {"boot", "handle"}
    BY <2>1 DEF FlowInv, CallFits, TypeOK, Phases, NoCall
  <2>4. call.to \in {"running", "paused"}
    BY <2>2, <2>3 DEF Steady, FlowInv, CallFits
  <2>5. TasksAfterRun(call.to) = task
    BY <2>4 DEF TasksAfterRun, TypeOK
  <2>6. task' = task
    BY <1>1, <2>5 DEF UpdateRunStatus
  <2>. QED BY <1>0, <2>1, <2>2, <2>6 DEF ViewFits
<1>2. CASE RecordTaskResult
  <2>1. phase' = phase /\ call.op = "record" /\ call'.op = "record"
    BY <1>2, CallMoves DEF RecordTaskResult, Database
  <2>2. phase \in {"handle", "closed", "aborted"}
    BY <2>1 DEF FlowInv, CallFits, TypeOK, Phases, NoCall
  <2>. QED BY <2>1, <2>2 DEF Steady, Ended
<1>3. CASE ResetTaskForRetry
  <2>1. UNCHANGED wfVars /\ call.op = "retry" /\ call'.op = "retry" /\ call'.task = call.task
    BY <1>3, CallMoves DEF ResetTaskForRetry, Database
  <2>2. Steady
    BY <2>1 DEF SchedulerInv, BatchIsReady, Steady, Ended
  <2>3. t # call.task => task'[t] = task[t]
    BY <1>3 DEF ResetTaskForRetry, TypeOK
  <2>. QED BY <1>0, <2>1, <2>2, <2>3 DEF ViewFits
<1>4. ASSUME NEW u \in Tasks, Executor(u) PROVE ViewFits(t)'
  <2>1. UNCHANGED <<wfVars, call>>
    BY <1>4, ExecutorsLeave
  <2>2. Steady
    BY <2>1 DEF Steady, Ended
  <2>3. view[t] \in {"blocked", "changes_requested"} => task'[t] = task[t]
    BY <1>4, <2>2, WaitingIsLeftAlone DEF FlowInv
  <2>. QED BY <1>0, <2>1, <2>2, <2>3 DEF ViewFits
<1>5. CASE Owner
  <2>1. UNCHANGED <<dbVars, wfVars, actVars>>
    BY <1>5 DEF Owner, Ask, Deliver
  <2>2. Steady
    BY <2>1 DEF Steady, Ended
  <2>. QED BY <1>0, <2>1, <2>2 DEF ViewFits
<1>6. CASE Workflow
  <2> USE DEF Await, FailPlan, GoOn
  <2>0. task' = task
    BY <1>6 DEF Workflow, RunStatusSet, TaskResultRecorded, TaskRetried, Poll, Decide,
       Prepare, AwaitDispatch, SelectSignal, SelectCompletion
  (* A step that leaves this task alone.                                   *)
  <2>a. ASSUME Steady, view'[t] = view[t], t \in active => t \in active',
               call.op # "retry" \/ call.task # t
        PROVE  ViewFits(t)'
    BY <1>0, <2>0, <2>a DEF ViewFits
  <2>b. ASSUME NEW u \in queue, Dispatch(u), Steady, call.op # "retry" \/ call.task = u
        PROVE  ViewFits(t)'
    <3>1. CASE u = t
      BY <2>b, <3>1 DEF Dispatch, ViewFits, TypeOK
    <3>2. CASE u # t
      BY <2>a, <2>b, <3>2 DEF Dispatch, TypeOK
    <3>. QED BY <3>1, <3>2
  <2>1. CASE RunStatusSet
    <3>1. active' = active /\ call.op = "setRun"
      BY <2>1 DEF RunStatusSet
    <3>2. call.answer = "ok" /\ phase' \in {"poll", "decide"}
      BY <2>1 DEF RunStatusSet, Steady, Ended
    <3>3. phase = "boot" \/ (phase = "handle" /\ call.to \notin FinalRun)
      BY <2>1, <3>2 DEF RunStatusSet
    <3>4. call.to \in {"running", "paused"}
      BY <2>1, <3>3 DEF RunStatusSet, FlowInv, RunIsKnown, CallFits, FinalRun, ValidRunTransition
    <3>5. Steady /\ view' = view
      BY <2>1, <3>2, <3>3, <3>4 DEF RunStatusSet, Steady, Ended
    <3>. QED BY <2>a, <3>1, <3>5
  <2>2. CASE TaskResultRecorded
    BY <2>2 DEF TaskResultRecorded, Steady, SetRun
  <2>3. CASE TaskRetried
    <3>1. call.task \in queue /\ Steady
      BY <2>3 DEF TaskRetried, SchedulerInv, BatchIsReady, Steady, Ended
    <3>2. CASE Dispatch(call.task)
      BY <2>b, <3>1, <3>2
    <3>3. CASE FailPlan
      BY <3>3 DEF Steady, SetRun
    <3>. QED BY <2>3, <3>2, <3>3 DEF TaskRetried
  <2>4. CASE Poll \/ Decide \/ \E s \in inbox : SelectSignal(s)
    <3>1. UNCHANGED <<view, active>> /\ Steady /\ call = NoCall
      BY <2>4 DEF Poll, Decide, SelectSignal, Steady, Ended, FlowInv, CallFits
    <3>. QED BY <2>a, <3>1, NewCalls
  <2>5. CASE Prepare
    <3>1. Steady /\ call.op # "retry"
      BY <2>5, NewCalls DEF Prepare, Steady, Ended
    <3>2. CASE \E u \in queue : Dispatch(u)
      BY <2>b, <3>1, <3>2
    <3>3. CASE UNCHANGED <<view, active>>
      BY <2>a, <3>1, <3>3
    <3>. QED BY <2>5, <3>2, <3>3 DEF Prepare
  <2>6. CASE AwaitDispatch
    <3>1. Steady /\ call.op # "retry"
      BY <2>6, NewCalls DEF AwaitDispatch, Steady, Ended
    <3>2. PICK u \in awaiting :
            \/ view' = [view EXCEPT ![u] = "running"] /\ active' = active
            \/ Await(Record(u, "failed"))
      BY <2>6 DEF AwaitDispatch
    <3>3. view' = [view EXCEPT ![u] = "running"] /\ active' = active
      BY <3>2 DEF Steady, Record
    <3>4. u \in active
      BY <1>0, <3>1 DEF Stage, TypeOK
    <3>5. CASE u = t
      BY <3>3, <3>4, <3>5 DEF ViewFits, TypeOK
    <3>6. CASE u # t
      BY <2>a, <3>1, <3>3, <3>6 DEF TypeOK
    <3>. QED BY <3>5, <3>6
  <2>7. ASSUME NEW u \in Tasks, SelectCompletion(u) PROVE ViewFits(t)'
    <3>1. Steady /\ call.op # "retry"
      BY <2>7, NewCalls DEF SelectCompletion, Steady, Ended, FlowInv, CallFits
    <3>2. /\ view' = [view EXCEPT ![u] = OutcomeStatus(exec[u])] /\ active' = active \ {u}
          /\ exec[u] \in {"completed", "blocked", "changes_requested"}
      <4>1. exec[u] # "error" /\ exec[u] # "failed"
        BY <2>7 DEF SelectCompletion, Steady, Record, SetRun
      <4>. QED BY <2>7, <4>1 DEF SelectCompletion, Outcomes
    <3>3. CASE u = t
      <4>1. view'[t] = exec[t] /\ task[t] = exec[t]
        BY <1>0, <3>1, <3>2, <3>3 DEF RowFollows, OutcomeStatus, Outcomes, TypeOK
      <4>. QED BY <2>0, <3>2, <3>3, <4>1 DEF ViewFits
    <3>4. CASE u # t
      BY <2>a, <3>1, <3>2, <3>4 DEF TypeOK
    <3>. QED BY <3>3, <3>4
  <2>. QED BY <1>6, <2>1, <2>2, <2>3, <2>4, <2>5, <2>6, <2>7 DEF Workflow
<1>. QED BY <1>1, <1>2, <1>3, <1>4, <1>5, <1>6, Faultless DEF Database

(* The workflow dispatches while the run is running only.                  *)
LEMMA BatchRunsStep ==
  ASSUME TypeOK, phase \in {"prepare", "await"} => status = "running", Next
  PROVE  (phase \in {"prepare", "await"} => status = "running")'
<1>1. CASE ~Workflow
  BY <1>1 DEF Next, Database, UpdateRunStatus, RecordTaskResult, ResetTaskForRetry, Executor,
     MarkTaskReady, BeginAttempt, SetAttemptStatus, FinishAttempt, ExecError, LoseAnswer, GiveUp,
     Owner, Ask, Deliver
<1>2. CASE Workflow
  <2> USE DEF Await, FailPlan, GoOn
  <2>1. CASE RunStatusSet
    BY <2>1 DEF RunStatusSet
  <2>2. CASE TaskResultRecorded \/ TaskRetried \/ Prepare \/ AwaitDispatch
    BY <2>2 DEF TaskResultRecorded, TaskRetried, Prepare, AwaitDispatch, Dispatch
  <2>3. CASE Decide
    BY <2>3 DEF Decide, StartBatch, MayStart
  <2>4. ASSUME NEW s \in inbox, HandleSignal(s) PROVE phase' \in {"decide", "handle"}
    BY <2>4 DEF HandleSignal, CancelRun, Signals, TypeOK
  <2>5. CASE Poll \/ \E s \in inbox : SelectSignal(s)
    BY <2>4, <2>5 DEF Poll, SelectSignal
  <2>6. CASE \E t \in Tasks : SelectCompletion(t)
    BY <2>6 DEF SelectCompletion
  <2>. QED BY <1>2, <2>1, <2>2, <2>3, <2>5, <2>6 DEF Workflow
<1>. QED BY <1>1, <1>2

(* The reason of an activity holds while it is under way: whatever the     *)
(* database, the executors and the owner do before the workflow goes on.   *)
LEMMA ReasonStays ==
  ASSUME TypeOK, SchedulerInv, FlowInv, Causes, Next, faults' = 0, ~Workflow
  PROVE  RetryHasReason' /\ FailureHasReason' /\ CancellationHasReason' /\ EndHasReason'
<1> USE DEF Causes, Reasons
<1>1. UNCHANGED wfVars
  BY DEF Next, Database, UpdateRunStatus, RecordTaskResult, ResetTaskForRetry, Executor,
     MarkTaskReady, BeginAttempt, SetAttemptStatus, FinishAttempt, ExecError, LoseAnswer, GiveUp,
     Owner, Ask, Deliver
<1>2. EndHasReason'
  <2>1. call'.op = "setRun" /\ call'.to = "failed" => call.op = "setRun" /\ call.to = "failed"
    <3>1. CASE Database
      BY <3>1, CallMoves DEF TypeOK, Calls, NoCall
    <3>2. CASE ~Database
      <4>1. call' = call
        BY <3>2, Faultless, ExecutorsLeave DEF Owner, Ask, Deliver
      <4>. QED BY <4>1
    <3>. QED BY <3>1, <3>2
  <2>. QED BY <2>1, WrongStays DEF EndHasReason
<1>3. CASE Database
  <2>1. UNCHANGED <<wfVars, exec>> /\ call'.op = call.op
        /\ (call.op \in {"record", "retry"} => call'.task = call.task)
    BY <1>3, CallMoves
  <2>2. CASE UpdateRunStatus
    <3>1. call'.op = "setRun"
      BY <2>1, <2>2 DEF UpdateRunStatus
    <3>. QED BY <1>2, <3>1 DEF RetryHasReason, FailureHasReason, CancellationHasReason
  <2>3. CASE RecordTaskResult
    <3>1. /\ call.op = "record" /\ call.answer = "none" /\ call'.op = "record"
          /\ call.task \in Tasks /\ call'.to = call.to /\ call.to \in {"failed", "cancelled"}
      BY <2>3 DEF RecordTaskResult, Answer, TypeOK, Calls, NoCall
    <3>2. \/ task'[call.task] = call.to /\ call'.answer = "ok"
          \/ /\ task'[call.task] = task[call.task] /\ call'.answer = "err" /\ task[call.task] # call.to
             /\ task[call.task] \in {"completed", "cancelled"}
      BY <2>3, <3>1 DEF RecordTaskResult, Recordable, Answer, TypeOK, Calls, NoCall
    <3>3. FailureHasReason'
      <4>1. ASSUME call.to = "failed" PROVE task[call.task] # "completed"
        BY <3>1, <4>1 DEF FailureHasReason, CompletedIsSeen
      <4>. QED BY <2>1, <3>1, <3>2, <4>1 DEF FailureHasReason
    <3>4. CancellationHasReason'
      BY <2>1, <3>1, <3>2 DEF CancellationHasReason
    <3>. QED BY <1>2, <3>1, <3>3, <3>4 DEF RetryHasReason
  <2>4. CASE ResetTaskForRetry
    <3>1. call.op = "retry" /\ call.answer = "none" /\ call'.op = "retry" /\ call.task \in Tasks
      BY <2>1, <2>4 DEF ResetTaskForRetry, TypeOK, Calls, NoCall
    <3>2. call'.answer = "ok" \/ task' = task
      BY <2>4, <3>1 DEF ResetTaskForRetry, Answer, TypeOK, Calls, NoCall
    <3>. QED BY <1>2, <2>1, <3>1, <3>2 DEF RetryHasReason, FailureHasReason, CancellationHasReason
  <2>. QED BY <1>3, <2>2, <2>3, <2>4 DEF Database
<1>4. CASE Owner
  <2>1. UNCHANGED <<dbVars, wfVars, actVars>>
    BY <1>4 DEF Owner, Ask, Deliver
  <2>. QED BY <1>2, <2>1 DEF RetryHasReason, FailureHasReason, CancellationHasReason
<1>5. ASSUME NEW u \in Tasks, Executor(u)
      PROVE  RetryHasReason' /\ FailureHasReason' /\ CancellationHasReason'
  <2>1. call' = call /\ UNCHANGED wfVars
    BY <1>5, ExecutorsLeave
  <2>2. call.op \in {"record", "retry"} => call.task \in Tasks
    BY DEF TypeOK, Calls, NoCall
  <2>3. RetryHasReason'
    <3>1. ASSUME call.op = "retry" PROVE task'[call.task] = task[call.task]
      <4>1. call.task \in queue /\ Steady
        BY <3>1 DEF SchedulerInv, BatchIsReady, Steady, Ended
      <4>2. exec[call.task] = "none" /\ disp[call.task] = "none"
        <5>1. Stage(call.task)
          BY <2>2, <3>1, <4>1 DEF FlowInv, SlotsAreKept
        <5>. QED BY <4>1, <5>1 DEF Stage
      <4>. QED BY <1>5, <2>2, <3>1, <4>2, ExecutorsLeave
    <3>. QED BY <2>1, <3>1 DEF RetryHasReason
  <2>4. FailureHasReason'
    <3>1. ASSUME call.op = "record", call.to = "failed"
          PROVE  exec'[call.task] = exec[call.task] /\ task'[call.task] = task[call.task]
      BY <1>5, <2>2, <3>1, ExecutorsLeave DEF FailureHasReason
    <3>. QED BY <2>1, <3>1 DEF FailureHasReason
  <2>5. CancellationHasReason'
    BY <1>5, <2>1, <2>2, ExecutorsLeave, CompletedStays DEF CancellationHasReason, SchedulerInv
  <2>. QED BY <2>3, <2>4, <2>5
<1>. QED BY <1>2, <1>3, <1>4, <1>5, Faultless

(* What the workflow asks for, it asks for a reason.                       *)
LEMMA ReasonIsGiven ==
  ASSUME TypeOK, SchedulerInv, FlowInv, Causes, Acyclic, Next, faults' = 0, Workflow
  PROVE  RetryHasReason' /\ FailureHasReason' /\ CancellationHasReason' /\ EndHasReason'
<1> USE DEF Causes, Reasons, Await, FailPlan, GoOn
<1>0. /\ task' = task
      /\ Steady => \A t \in Tasks : Stage(t) /\ RowFollows(t) /\ ViewFits(t)
  BY DEF Workflow, RunStatusSet, TaskResultRecorded, TaskRetried, Poll, Decide, Prepare,
     AwaitDispatch, SelectSignal, SelectCompletion, FlowInv, SlotsAreKept, ViewIsTrue, ViewsFit
<1>a. ASSUME \/ call' = NoCall
             \/ \E to \in RunStatuses \ {"failed"} : call' = SetRun(to)
      PROVE  RetryHasReason' /\ FailureHasReason' /\ CancellationHasReason' /\ EndHasReason'
  BY <1>a, NewCalls DEF RetryHasReason, FailureHasReason, CancellationHasReason, EndHasReason, SetRun
<1>b. ASSUME call' = SetRun("failed"), NEW t \in Tasks, Wrong(t)'
      PROVE  RetryHasReason' /\ FailureHasReason' /\ CancellationHasReason' /\ EndHasReason'
  BY <1>b DEF RetryHasReason, FailureHasReason, CancellationHasReason, EndHasReason, SetRun
<1>1. CASE RunStatusSet
  BY <1>a, <1>1 DEF RunStatusSet
<1>2. CASE TaskResultRecorded
  <2>1. /\ call.op = "record" /\ call.task \in Tasks /\ call.to \in {"failed", "cancelled"}
        /\ call.answer \in {"ok", "err"} /\ call' = SetRun("failed") /\ exec' = exec
    BY <1>2 DEF TaskResultRecorded, TypeOK, Calls, NoCall, Answers
  <2>2. PICK t \in Tasks : t = call.task
    BY <2>1
  <2>3. Wrong(t)'
    <3>1. CASE call.to = "failed"
      <4>1. task[t] \in {"failed", "cancelled"} /\ exec[t] = "none"
        BY <2>1, <2>2, <3>1 DEF FailureHasReason
      <4>. QED BY <1>0, <2>1, <4>1 DEF Wrong
    <3>2. CASE call.to = "cancelled" /\ call.answer = "ok"
      <4>1. view'[t] = "cancelled"
        BY <1>2, <2>2, <3>2 DEF TaskResultRecorded, TypeOK
      <4>. QED BY <4>1 DEF Wrong
    <3>3. CASE call.to = "cancelled" /\ call.answer = "err"
      <4>1. exec[t] = "completed" /\ t \in active
        BY <2>1, <2>2, <3>3 DEF CancellationHasReason, CompletedIsSeen
      <4>2. active' = active
        BY <1>2, <3>3 DEF TaskResultRecorded
      <4>. QED BY <2>1, <4>1, <4>2 DEF Wrong, Outcomes
    <3>. QED BY <2>1, <3>1, <3>2, <3>3
  <2>. QED BY <1>b, <2>1, <2>3
<1>3. CASE TaskRetried
  <2>1. /\ call.op = "retry" /\ call.task \in queue /\ call.task \in Tasks /\ Steady /\ exec' = exec
    BY <1>3 DEF TaskRetried, SchedulerInv, BatchIsReady, Steady, Ended, TypeOK
  <2>2. CASE call.answer = "ok" /\ call' = NoCall
    BY <1>a, <2>2
  <2>3. CASE call.answer = "err" /\ call' = SetRun("failed")
    <3>1. PICK t \in Tasks : t = call.task
      BY <2>1
    <3>2. task[t] \in {"blocked", "changes_requested"} /\ exec[t] = "none"
      BY <1>0, <2>1, <2>3, <3>1 DEF RetryHasReason, Stage
    <3>3. Wrong(t)'
      BY <1>0, <2>1, <3>2 DEF Wrong
    <3>. QED BY <1>b, <2>3, <3>3
  <2>. QED BY <1>3, <2>2, <2>3 DEF TaskRetried
<1>4. CASE Poll \/ \E s \in inbox : SelectSignal(s)
  <2>1. /\ phase \in {"poll", "select"} /\ call = NoCall /\ UNCHANGED <<view, active, exec>>
        /\ Steady
    BY <1>4 DEF Poll, SelectSignal, FlowInv, CallFits, Steady, Ended
  <2>2. ASSUME NEW s \in inbox, HandleSignal(s)
        PROVE  \/ call' = NoCall
               \/ \E to \in RunStatuses \ {"failed"} : call' = SetRun(to)
               \/ \E t \in Tasks : call' = Record(t, "cancelled") /\ view[t] # "completed"
    <3>1. s.kind \in {"pause", "resume", "cancel", "result", "retry"}
          /\ (s.kind \in {"result", "retry"} => s.task \in Tasks)
      BY DEF Signals, TypeOK
    <3>. QED BY <2>1, <2>2, <3>1 DEF HandleSignal, CancelRun, RunStatuses, FinalTask
  <2>3. ASSUME NEW t \in Tasks, call' = Record(t, "cancelled"), view[t] # "completed"
        PROVE  RetryHasReason' /\ FailureHasReason' /\ CancellationHasReason' /\ EndHasReason'
    <3>1. exec[t] # "none" => t \in active
      BY <1>0, <2>1 DEF Stage
    <3>. QED BY <2>1, <2>3, <3>1 DEF Record, RetryHasReason, FailureHasReason,
         CancellationHasReason, EndHasReason
  <2>4. CASE call' = call
    BY <1>a, <2>1, <2>4
  <2>. QED BY <1>4, <1>a, <2>2, <2>3, <2>4 DEF Poll, SelectSignal
<1>5. CASE Decide
  <2>1. call = NoCall /\ Steady /\ exec' = exec
    BY <1>5 DEF Decide, FlowInv, CallFits, Steady, Ended
  <2>2. CASE ~AllCompleted /\ Stuck /\ call' = SetRun("failed")
    <3>1. PICK t \in Tasks : task[t] \in {"blocked", "changes_requested"} /\ exec[t] = "none"
      BY <2>1, <2>2, StuckHasCause, NewCalls DEF FlowInv
    <3>2. Wrong(t)'
      BY <1>0, <2>1, <3>1 DEF Wrong
    <3>. QED BY <1>b, <2>2, <3>2
  <2>3. CASE call' = SetRun("completed")
    BY <1>a, <2>3 DEF RunStatuses
  <2>4. CASE call' = call
    BY <1>a, <2>1, <2>4
  <2>. QED BY <1>5, <2>2, <2>3, <2>4 DEF Decide, StartBatch
<1>6. CASE Prepare
  <2>1. call = NoCall /\ Steady
    BY <1>6 DEF Prepare, Steady, Ended
  <2>2. CASE call' = call
    BY <1>a, <2>1, <2>2
  <2>3. ASSUME NEW t \in queue, t \in retryable, call' = Retry(t)
        PROVE  RetryHasReason' /\ FailureHasReason' /\ CancellationHasReason' /\ EndHasReason'
    <3>1. t \in Tasks
      BY DEF TypeOK
    <3>2. task[t] \in {"blocked", "changes_requested"}
      BY <1>0, <2>1, <2>3, <3>1, NewCalls DEF Stage, ViewFits
    <3>. QED BY <1>0, <2>3, <3>2 DEF Retry, RetryHasReason, FailureHasReason,
         CancellationHasReason, EndHasReason
  <2>. QED BY <1>6, <2>2, <2>3 DEF Prepare
<1>7. ASSUME NEW t \in Tasks, call' = Record(t, "failed"), exec'[t] = "none", view'[t] = "failed",
             task[t] # "planned"
      PROVE  RetryHasReason' /\ FailureHasReason' /\ CancellationHasReason' /\ EndHasReason'
  BY <1>0, <1>7 DEF Record, RetryHasReason, FailureHasReason, CancellationHasReason, EndHasReason
<1>8. CASE AwaitDispatch
  <2>1. call = NoCall /\ Steady
    BY <1>8 DEF AwaitDispatch, Steady, Ended
  <2>2. CASE call' = call
    BY <1>a, <2>1, <2>2
  <2>3. ASSUME NEW t \in awaiting, disp[t] = "err", view' = [view EXCEPT ![t] = "failed"],
               call' = Record(t, "failed"), exec' = exec
        PROVE  RetryHasReason' /\ FailureHasReason' /\ CancellationHasReason' /\ EndHasReason'
    <3>1. t \in Tasks /\ task[t] # "planned"
      BY <1>8, <2>3 DEF AwaitDispatch, BegunIsNotPlanned, Begun, TypeOK
    <3>2. exec[t] = "none"
      BY <1>0, <2>1, <2>3, <3>1 DEF Stage
    <3>. QED BY <1>7, <2>3, <3>1, <3>2 DEF TypeOK
  <2>. QED BY <1>8, <2>2, <2>3 DEF AwaitDispatch
<1>9. ASSUME NEW t \in Tasks, SelectCompletion(t)
      PROVE  RetryHasReason' /\ FailureHasReason' /\ CancellationHasReason' /\ EndHasReason'
  <2>1. /\ call = NoCall /\ Steady /\ exec[t] \in Outcomes /\ exec' = [exec EXCEPT ![t] = "none"]
        /\ view' = [view EXCEPT ![t] = OutcomeStatus(exec[t])]
    BY <1>9 DEF SelectCompletion, FlowInv, CallFits, Steady, Ended
  <2>2. CASE exec[t] = "error" /\ call' = Record(t, "failed")
    <3>1. task[t] # "planned"
      BY <2>2 DEF BegunIsNotPlanned, Begun
    <3>. QED BY <1>7, <2>1, <2>2, <3>1 DEF OutcomeStatus, TypeOK
  <2>3. CASE exec[t] = "failed" /\ call' = SetRun("failed")
    <3>1. task[t] = "failed"
      BY <1>0, <2>1, <2>3 DEF RowFollows, Outcomes
    <3>2. Wrong(t)'
      BY <1>0, <2>1, <3>1 DEF Wrong, TypeOK
    <3>. QED BY <1>b, <2>3, <3>2
  <2>4. CASE call' = call \/ call' = SetRun("paused")
    BY <1>a, <2>1, <2>4 DEF RunStatuses
  <2>. QED BY <1>9, <2>2, <2>3, <2>4 DEF SelectCompletion
<1>. QED BY <1>1, <1>2, <1>3, <1>4, <1>5, <1>6, <1>8, <1>9 DEF Workflow

(* A run that was just approved has asked for nothing that needs a reason. *)
LEMMA CauseInit == Init => CauseInv
<1> SUFFICES ASSUME Init PROVE Causes
  BY DEF CauseInv
<1>1. call.op = "setRun" /\ call.to = "running"
  BY DEF Init, SetRun
<1>2. BegunIsNotPlanned /\ CompletedIsSeen
  BY DEF Init, BegunIsNotPlanned, Begun, CompletedIsSeen
<1>3. ViewsFit
  BY DEF Init, ViewsFit, ViewFits
<1>4. Reasons
  BY <1>1 DEF Init, Reasons, RetryHasReason, FailureHasReason, CancellationHasReason, EndHasReason
<1>. QED BY <1>2, <1>3, <1>4 DEF Causes

(* Reasons are kept by every step of a behaviour without faults.           *)
LEMMA CauseStep ==
  ASSUME Acyclic
  PROVE  TypeOK /\ SchedulerInv /\ FlowInv /\ CauseInv /\ [Next]_vars => CauseInv'
<1>1. CauseInv /\ UNCHANGED vars => CauseInv'
  BY DEF vars, CauseInv, Causes, BegunIsNotPlanned, Begun, CompletedIsSeen, ViewsFit, ViewFits,
     Reasons, RetryHasReason, FailureHasReason, CancellationHasReason, EndHasReason, Wrong,
     Steady, Ended
<1>2. ASSUME TypeOK, SchedulerInv, FlowInv, CauseInv, Next, faults' = 0 PROVE Causes'
  <2>1. Causes
    BY <1>2, Faultless DEF CauseInv
  <2>2. Reasons'
    BY <1>2, <2>1, BatchRunsStep, ReasonStays, ReasonIsGiven DEF Causes, Reasons
  <2>. QED BY <1>2, <2>1, <2>2, BegunStep, SeenStep, ViewsStep DEF Causes
<1>. QED BY <1>1, <1>2 DEF CauseInv

(* Pausing, resuming and retrying never fail a healthy plan: without       *)
(* faults a task that was never dispatched fails only with its run, and a  *)
(* run only after one of its tasks went wrong or a task-cancel overtook    *)
(* the outcome of its executor (failPlanWorkflow and its callers).         *)
THEOREM FailuresHaveCause == ASSUME Acyclic PROVE Spec => FailureHasCause
<1> DEFINE Cause == \E t \in Tasks :
               \/ task[t] \in {"failed", "cancelled", "blocked", "changes_requested"}
               \/ view[t] = "cancelled"
               \/ t \in active /\ exec[t] \in Outcomes
<1> DEFINE Step == faults = 0 =>
       /\ \A t \in Tasks : task[t] = "planned" /\ task'[t] = "failed" => run' = "failed"
       /\ run # "failed" /\ run' = "failed" => Cause
<1>1. TypeOK /\ SchedulerInv /\ FlowInv /\ CauseInv /\ [Next]_vars => [Step]_vars
  <2> SUFFICES ASSUME TypeOK, SchedulerInv, FlowInv, CauseInv, Next, faults = 0
               PROVE  /\ \A t \in Tasks : task[t] = "planned" /\ task'[t] = "failed" => run' = "failed"
                      /\ run # "failed" /\ run' = "failed" => Cause
    OBVIOUS
  <2>0. Causes
    BY DEF CauseInv
  <2>1. CASE UpdateRunStatus
    <3>1. call.op = "setRun" /\ (run' = call.to \/ (run' = run /\ task' = task))
      BY <2>1 DEF UpdateRunStatus
    <3>2. \A t \in Tasks : task[t] = "planned" /\ task'[t] = "failed" => run' = "failed"
      BY <2>1 DEF UpdateRunStatus, TasksAfterRun, TypeOK
    <3>3. run # "failed" /\ run' = "failed" => Cause
      BY <2>0, <3>1 DEF Causes, Reasons, EndHasReason, Wrong
    <3>. QED BY <3>2, <3>3
  <2>2. CASE RecordTaskResult
    <3>1. call.op = "record" /\ call.task \in Tasks /\ call.to \in {"failed", "cancelled"}
      BY <2>2 DEF RecordTaskResult, TypeOK, Calls, NoCall
    <3>2. call.to = "failed" => task[call.task] # "planned"
      BY <2>0, <3>1 DEF Causes, Reasons, FailureHasReason
    <3>. QED BY <2>2, <3>1, <3>2 DEF RecordTaskResult, TypeOK
  <2>3. CASE ResetTaskForRetry
    BY <2>3 DEF ResetTaskForRetry, TypeOK
  <2>4. ASSUME NEW u \in Tasks, Executor(u)
        PROVE  run' = run /\ \A t \in Tasks : task[t] = "planned" => task'[t] # "failed"
    <3>1. run' = run
      BY <2>4 DEF Executor, MarkTaskReady, BeginAttempt, SetAttemptStatus, FinishAttempt, ExecError
    <3>2. task[u] = "planned" => exec[u] = "none"
      BY <2>0 DEF Causes, BegunIsNotPlanned, Begun
    <3>. QED BY <2>4, <3>1, <3>2 DEF Executor, MarkTaskReady, BeginAttempt, SetAttemptStatus,
         FinishAttempt, ExecError, TypeOK
  <2>5. CASE Workflow \/ Owner \/ LoseAnswer \/ GiveUp
    BY <2>5 DEF Workflow, RunStatusSet, TaskResultRecorded, TaskRetried, Poll, Decide,
       Prepare, AwaitDispatch, SelectSignal, SelectCompletion, Owner, Ask, Deliver,
       LoseAnswer, GiveUp
  <2>. QED BY <2>1, <2>2, <2>3, <2>4, <2>5 DEF Next, Database
<1>. QED BY <1>1, TypeCorrect, SchedulerConsistent, FlowKept, CauseInit, CauseStep, PTL
     DEF Spec, FailureHasCause
=============================================================================
