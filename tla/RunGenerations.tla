---------------------------- MODULE RunGenerations ----------------------------
(***************************************************************************)
(* The generations of one plan run: StartPlan, RetryPlanRun and ControlRun *)
(* (internal/usecase/planning) act on one plan_run row that is reused by   *)
(* every retry under a new workflow id, while Temporal keeps the workflows *)
(* of all generations.  A client works in three steps (transaction, call   *)
(* to Temporal, transaction) and others act in between.  What one workflow *)
(* does inside is module PlanScheduler; here it only writes the run's      *)
(* status, and a write of a timed-out activity may arrive late.            *)
(***************************************************************************)
EXTENDS Naturals, FiniteSets

CONSTANTS
  Clients,          \* concurrent owner requests
  Tasks,            \* tasks of the plan
  MaxGenerations,   \* bound: retries (the code allows 100)
  MaxLate,          \* bound: activity writes that arrive late
  MaxCancels,       \* bound: generations an owner decides to cancel
  MaxFaults         \* bound: requests that die between two steps

ASSUME GenerationsAssumption ==
  MaxGenerations \in Nat \ {0} /\ MaxLate \in Nat /\ MaxCancels \in Nat /\ MaxFaults \in Nat

VARIABLES
  row,      \* plan_run: status, generation of workflow_id, temporal_run_id
  task,     \* task.status
  wf,       \* Temporal: the workflow of each generation
  starts,   \* how often each workflow was started
  asked,    \* generations whose workflow received the cancel signal
  wanted,   \* generations an owner saw and decided to cancel
  late,     \* status writes still on their way
  client,   \* each request: next step and the run it read
  overtaken,\* a retry committed while a request about an older generation ran
  died,     \* requests that died
  delayed   \* writes that were delayed so far

genVars == <<row, task, wf, starts, asked, wanted, late, client, overtaken, died, delayed>>

Generations == 1..MaxGenerations
RunStatuses == {"pending", "running", "paused", "completed", "failed", "cancelled"}
NoRequest == [pc |-> "idle", gen |-> 0]

TypeOK ==
  /\ row \in [status : RunStatuses \cup {"none"}, gen : 0..MaxGenerations,
              attached : 0..MaxGenerations]
  /\ task \in [Tasks -> {"planned", "completed", "failed", "cancelled"}]
  /\ wf \in [Generations -> {"none", "started", "active", "ending", "closed"}]
  /\ starts \in [Generations -> Nat] /\ asked \subseteq Generations /\ wanted \subseteq Generations
  /\ late \subseteq RunStatuses
  /\ client \in [Clients -> [pc : {"idle", "start", "attach", "cancel"},
                             gen : 0..MaxGenerations]]
  /\ overtaken \in BOOLEAN /\ died \in 0..MaxFaults /\ delayed \in 0..MaxLate

GenInit ==
  /\ row = [status |-> "none", gen |-> 0, attached |-> 0]
  /\ task = [t \in Tasks |-> "planned"]
  /\ wf = [g \in Generations |-> "none"] /\ starts = [g \in Generations |-> 0]
  /\ asked = {} /\ wanted = {} /\ late = {} /\ client = [c \in Clients |-> NoRequest]
  /\ overtaken = FALSE /\ died = 0 /\ delayed = 0

-----------------------------------------------------------------------------
(* PrepareRun: the first call of an approved plan creates the row, every    *)
(* later one gets it back in whatever status it is; StartPlan returns at    *)
(* once when a Temporal run is attached.                                    *)
FirstRunOnly == row.attached = 0 /\ row.gen = 1
Startable    == row.attached = 0

StartPlan(c) ==
  /\ client[c] = NoRequest
  /\ IF row.status = "none"
     THEN /\ row' = [status |-> "pending", gen |-> 1, attached |-> 0]
          /\ client' = [client EXCEPT ![c] = [pc |-> "start", gen |-> 1]]
     ELSE /\ Startable
          /\ client' = [client EXCEPT ![c] = [pc |-> "start", gen |-> row.gen]]
          /\ UNCHANGED row
  /\ UNCHANGED <<task, wf, starts, asked, wanted, late, overtaken, died, delayed>>

KeepRunId == [status |-> "pending", gen |-> row.gen + 1, attached |-> row.attached]
NextRun   == [status |-> "pending", gen |-> row.gen + 1, attached |-> 0]

ResetTasks == [t \in Tasks |-> IF task[t] = "completed" THEN "completed" ELSE "planned"]

RetryAnyEnd == row.status \in {"failed", "running"}
Retryable   == row.status = "failed"

NextWorkflowId == row.gen < MaxGenerations

(* PrepareRunRetry; nextPlanRetryWorkflowID numbers the workflows. *)
RetryPlanRun(c) ==
  /\ client[c] = NoRequest /\ Retryable /\ NextWorkflowId
  /\ row' = NextRun /\ task' = ResetTasks
  /\ client' = [client EXCEPT ![c] = [pc |-> "start", gen |-> row.gen + 1]]
  /\ overtaken' = (overtaken \/ \E d \in Clients \ {c} : client[d].pc \in {"start", "attach"})
  /\ UNCHANGED <<wf, starts, asked, wanted, late, died, delayed>>

(* ExecuteWorkflow under REJECT_DUPLICATE and USE_EXISTING. *)
StartsNew(g)      == wf[g] = "none"
Existing(g)       == wf[g] \in {"started", "active", "ending"}

RunnerStart(c) ==
  LET g == client[c].gen IN
  /\ client[c].pc = "start"
  /\ client' = [client EXCEPT ![c] = IF StartsNew(g) \/ Existing(g)
                                     THEN [pc |-> "attach", gen |-> g] ELSE NoRequest]
  /\ IF StartsNew(g) THEN wf' = [wf EXCEPT ![g] = "started"]
                          /\ starts' = [starts EXCEPT ![g] = @ + 1]
                     ELSE UNCHANGED <<wf, starts>>
  /\ UNCHANGED <<row, task, asked, wanted, late, overtaken, died, delayed>>

(* COALESCE(temporal_run_id, new) *)
AttachTemporalRun(c) ==
  /\ client[c].pc = "attach"
  /\ row' = [row EXCEPT !.attached = IF @ = 0 THEN client[c].gen ELSE @]
  /\ client' = [client EXCEPT ![c] = NoRequest]
  /\ UNCHANGED <<task, wf, starts, asked, wanted, late, overtaken, died, delayed>>

(* ControlRun: the status is checked, then the workflow that was read is    *)
(* signalled; Temporal refuses a workflow that is not open.                 *)
ControlRun(c) ==
  /\ client[c] = NoRequest /\ row.status \in {"pending", "running", "paused"}
  /\ client' = [client EXCEPT ![c] = [pc |-> "cancel", gen |-> row.gen]]
  /\ Cardinality(wanted \cup {row.gen}) <= MaxCancels
  /\ wanted' = wanted \cup {row.gen}
  /\ UNCHANGED <<row, task, wf, starts, asked, late, overtaken, died, delayed>>

CurrentWorkflow(c) == row.gen
Signalled(c)       == client[c].gen

Control(c) ==
  /\ client[c].pc = "cancel"
  /\ asked' = IF Existing(Signalled(c)) THEN asked \cup {Signalled(c)} ELSE asked
  /\ client' = [client EXCEPT ![c] = NoRequest]
  /\ UNCHANGED <<row, task, wf, starts, wanted, late, overtaken, died, delayed>>

(* A request's process dies, or its call to Temporal fails. *)
RequestDies(c) ==
  /\ client[c] # NoRequest /\ died < MaxFaults /\ died' = died + 1
  /\ client' = [client EXCEPT ![c] = NoRequest]
  /\ UNCHANGED <<row, task, wf, starts, asked, wanted, late, overtaken, delayed>>

-----------------------------------------------------------------------------
ValidRunTransition ==
  {<<"pending", "running">>, <<"pending", "cancelled">>, <<"pending", "failed">>,
   <<"running", "paused">>, <<"running", "completed">>, <<"running", "failed">>,
   <<"running", "cancelled">>, <<"paused", "running">>, <<"paused", "failed">>,
   <<"paused", "cancelled">>}
Accepts(to) == row.status = to \/ <<row.status, to>> \in ValidRunTransition

(* UpdateRunStatus: the row is found by the run's id, whichever generation  *)
(* the caller belongs to; a failed run fails its unfinished tasks.          *)
UpdateRunStatus(to) ==
  /\ row' = [row EXCEPT !.status = to]
  /\ task' = IF to \in {"failed", "cancelled"} /\ row.status # to
             THEN [t \in Tasks |-> IF task[t] = "planned" THEN to ELSE task[t]]
             ELSE task

(* The attempt that timed out may still commit after its successor did. *)
MayArriveLate(to) ==
  \/ UNCHANGED <<late, delayed>>
  \/ delayed < MaxLate /\ late' = late \cup {to} /\ delayed' = delayed + 1

LateWrite(to) ==
  /\ to \in late /\ late' = late \ {to}
  /\ IF Accepts(to) THEN UpdateRunStatus(to) ELSE UNCHANGED <<row, task>>
  /\ UNCHANGED <<wf, starts, asked, wanted, client, overtaken, died, delayed>>

Write(g, to, next) ==
  /\ IF Accepts(to)
     THEN UpdateRunStatus(to) /\ wf' = [wf EXCEPT ![g] = next] /\ MayArriveLate(to)
     ELSE wf' = [wf EXCEPT ![g] = "closed"] /\ UNCHANGED <<row, task, late, delayed>>
  /\ UNCHANGED <<starts, asked, wanted, client, overtaken, died>>

Begin(g) == wf[g] = "started" /\ Write(g, "running", "active")

CompleteTask(g, t) ==
  /\ wf[g] = "active" /\ row.status = "running" /\ task[t] = "planned"
  /\ task' = [task EXCEPT ![t] = "completed"]
  /\ UNCHANGED <<row, wf, starts, asked, wanted, late, client, overtaken, died, delayed>>

End(g) ==
  /\ wf[g] = "active"
  /\ \/ (\A t \in Tasks : task[t] = "completed") /\ Write(g, "completed", "ending")
     \/ Write(g, "failed", "ending")
     \/ g \in asked /\ Write(g, "cancelled", "ending")

Close(g) ==
  /\ wf[g] = "ending" /\ wf' = [wf EXCEPT ![g] = "closed"]
  /\ UNCHANGED <<row, task, starts, asked, wanted, late, client, overtaken, died, delayed>>

Workflow(g) == Begin(g) \/ End(g) \/ Close(g) \/ \E t \in Tasks : CompleteTask(g, t)

Continue(c) == RunnerStart(c) \/ AttachTemporalRun(c) \/ Control(c)

GenNext ==
  \/ \E c \in Clients : \/ StartPlan(c) \/ RetryPlanRun(c) \/ ControlRun(c)
                        \/ Continue(c) \/ RequestDies(c)
  \/ \E g \in Generations : Workflow(g)
  \/ \E to \in RunStatuses : LateWrite(to)

(* Workflows run; a request that is under way goes on unless it dies; the  *)
(* owner asks again to start a run that is pending.                        *)
Fairness ==
  /\ \A g \in Generations : WF_genVars(Workflow(g))
  /\ \A c \in Clients : WF_genVars(Continue(c))
  /\ \A c \in Clients : SF_genVars(row.status = "pending" /\ StartPlan(c))

GenSpec == GenInit /\ [][GenNext]_genVars /\ Fairness

-----------------------------------------------------------------------------
(* However many requests start a run, each generation's workflow runs once: *)
(* a workflow that has closed is never started again by a slow StartPlan.   *)
OneExecutionPerGeneration == \A g \in Generations : starts[g] <= 1

(* The row is shared by all generations, yet two of them act on it at once  *)
(* only if a write of a timed-out activity arrived late.                    *)
OneGenerationActs ==
  delayed = 0 =>
    Cardinality({g \in Generations : wf[g] \in {"started", "active"}}) <= 1

(* Generations take turns on the row they share: each runs once, and one   *)
(* at a time.                                                              *)
GenerationsTakeTurns == TypeOK /\ OneExecutionPerGeneration /\ OneGenerationActs

(* The attached Temporal run is the current generation's own, unless a      *)
(* request about an older generation was still under way when the retry     *)
(* committed: AttachTemporalRun does not look at the workflow id.           *)
AttachedIsCurrent == row.attached \in {0, row.gen} \/ overtaken

(* What an earlier generation completed is not done again by a later one.   *)
CompletedStays == [][\A t \in Tasks : task[t] = "completed" => task'[t] = "completed"]_genVars

(* Only a generation whose run the owner saw before cancelling is cancelled *)
(* (again unless a late write had made two generations act).               *)
CancelledAsAsked == [][row'.status = "cancelled" /\ row.status # "cancelled"
                        => row.gen \in wanted \/ delayed > 0]_genVars

(* A retry keeps what is done, and a cancellation hits what was meant.     *)
HistoryIsKept == CompletedStays /\ CancelledAsAsked

(* A pending run whose start failed half-way is not lost: asking again      *)
(* starts its workflow, unless a stale Temporal run got attached to it.     *)
PendingRunStarts ==
  (row.status = "pending" /\ wf[row.gen] = "none")
    ~> (row.status # "pending" \/ wf[row.gen] # "none" \/ row.attached \notin {0, row.gen})
===============================================================================
