---------------------------- MODULE PlanLifecycle ----------------------------
(***************************************************************************)
(* The plan versions of one command, from draft to run: the transactions   *)
(* of internal/adapters/postgres/planning_repository.go and                *)
(* work_item_repository.go as PostgreSQL runs them, READ COMMITTED with    *)
(* row locks, by clients that act on what they read before.                *)
(*                                                                         *)
(* A transaction is a sequence of statements.  Here a statement takes the  *)
(* locks of the rows it selects FOR UPDATE or will write, with the reads   *)
(* that follow it and precede the next lock; what the transaction writes   *)
(* is applied by its last step, which is its commit.  Everyone else sees   *)
(* committed rows only.  A transaction that waits for a lock of its last   *)
(* statement only is one atomic step.                                      *)
(*                                                                         *)
(* Bulk updates are one statement too: no row can come to match one while  *)
(* it waits, since new versions come from CreatePlan alone (advisory lock) *)
(* and a version's approval and issues from holders of its plan row.       *)
(***************************************************************************)
EXTENDS Naturals, FiniteSets

CONSTANTS
  Procs,       \* connections that can be in a transaction at once
  MaxVersion,  \* bound: versions of the plan
  Tasks        \* the tasks of every version, each with one issue

ASSUME LifecycleAssumption ==
  /\ IsFiniteSet(Procs) /\ MaxVersion \in Nat \ {0}
  /\ IsFiniteSet(Tasks) /\ Tasks # {}

VARIABLES
  command,     \* command.status
  plan,        \* plan rows: status, fingerprint, approved_fingerprint, supersedes
  approval,    \* status of the approval row a version's submission created
  issue,       \* status of the issue proposals of every version
  task,        \* status of the tasks of every version
  run,         \* plan_run.status of every version
  drafting,    \* clients that passed a check and let an agent work
  publishing,  \* versions whose publisher passed its check
  tx           \* the open transaction of every connection

rows == <<command, plan, approval, issue, task, run>>
work == <<drafting, publishing>>
vars == <<rows, work, tx>>

-----------------------------------------------------------------------------
Versions == 1..MaxVersion
CommandStatuses == {"received", "planned", "approved", "running", "completed", "failed",
                    "cancelled"}
PlanStatuses == {"none", "discussion", "awaiting_approval", "approved", "running", "paused",
                 "completed", "failed", "cancelled"}
RunStatuses  == {"none", "pending", "running", "paused", "completed", "failed", "cancelled"}
FinalTask    == {"completed", "failed", "cancelled"}

(* Fingerprint 0 is the planner's, 1 binds the issue proposals.            *)
Plan0 == [status |-> "none", fingerprint |-> 0, approved |-> {}, supersedes |-> 0]

(* What can be locked.  The issues and the tasks of a version are always    *)
(* locked by statements over all of them that one condition selects.       *)
CommandRow     == <<"command">>
PlanRow(v)     == <<"plan", v>>
RunRow(v)      == <<"run", v>>
ApprovalRow(v) == <<"approval", v>>
IssueRows(v)   == <<"issue", v>>
TaskRows(v)    == <<"task", v>>
Rows == {CommandRow} \cup ({"plan", "run", "approval", "issue", "task"} \X Versions)

Idle == [op |-> "none", at |-> "none", v |-> 0, to |-> "none", locks |-> {}]

Drafts == [kind : {"create", "propose"}, v : 0..MaxVersion]

TypeOK ==
  /\ command \in CommandStatuses
  /\ plan \in [Versions -> [status : PlanStatuses, fingerprint : {0, 1},
                            approved : SUBSET {0, 1}, supersedes : 0..MaxVersion]]
  /\ approval \in [Versions -> {"none", "pending", "approved", "rejected", "cancelled"}]
  /\ issue \in [Versions -> [Tasks -> {"none", "proposed", "published", "cancelled"}]]
  /\ task \in [Versions -> [Tasks -> {"none", "planned", "blocked"} \cup FinalTask]]
  /\ run \in [Versions -> RunStatuses]
  /\ drafting \subseteq Drafts /\ publishing \subseteq Versions
  /\ tx \in [Procs -> [op : {"none", "create", "decide", "start", "retry", "run"},
                       at : {"none", "replaced", "approvals", "work", "plans", "insert",
                             "approval", "tasks", "commit"},
                       v : 0..MaxVersion, to : PlanStatuses, locks : SUBSET Rows]]

Init ==
  /\ command = "received" /\ plan = [v \in Versions |-> Plan0]
  /\ approval = [v \in Versions |-> "none"]
  /\ issue = [v \in Versions |-> [t \in Tasks |-> "none"]]
  /\ task = issue /\ run = approval
  /\ drafting = {} /\ publishing = {} /\ tx = [p \in Procs |-> Idle]

-----------------------------------------------------------------------------
(* Transactions. *)
LockedFor(p, r) == \A q \in Procs \ {p} : r \cap tx[q].locks = {}
Unlocked(r)     == \A q \in Procs : r \cap tx[q].locks = {}

Begin(p, op, v, to, r, next) ==
  /\ tx[p] = Idle /\ LockedFor(p, r)
  /\ tx' = [tx EXCEPT ![p] = [op |-> op, at |-> next, v |-> v, to |-> to, locks |-> r]]
  /\ UNCHANGED rows
At(p, op, at) == tx[p].op = op /\ tx[p].at = at
Lock(p, r, next) ==
  /\ LockedFor(p, r)
  /\ tx' = [tx EXCEPT ![p] = [@ EXCEPT !.locks = tx[p].locks \cup r, !.at = next]]
  /\ UNCHANGED <<rows, work>>
Commit(p, r) == LockedFor(p, r) /\ tx' = [tx EXCEPT ![p] = Idle]

(* The deadlock victim, a lost connection, a cancelled request, a statement *)
(* that finds its condition unmet: rolled back.                            *)
Rollback(p) == tx[p] # Idle /\ tx' = [tx EXCEPT ![p] = Idle] /\ UNCHANGED <<rows, work>>

Existing  == {v \in Versions : plan[v].status # "none"}
Latest(v) == v \in Existing /\ \A u \in Existing : u <= v

SetPlan(v, s) == plan' = [plan EXCEPT ![v].status = s]

-----------------------------------------------------------------------------
(* CreatePlan, called after the planner has worked: for the command, or by *)
(* RevisePlan for a version it saw in discussion.                          *)
AskPlan(d) ==
  /\ d.kind = "create" /\ d \notin drafting
  /\ d.v # 0 => plan[d.v].status = "discussion"
  /\ drafting' = drafting \cup {d} /\ UNCHANGED <<rows, publishing, tx>>

Plannable == command \notin {"cancelled", "completed", "running"}

(* The advisory lock "plan:<command>" excludes what the command row does.  *)
CreateBegin(p, d) ==
  /\ d \in drafting /\ d.kind = "create" /\ drafting' = drafting \ {d}
  /\ Plannable
  /\ Begin(p, "create", d.v, "none", {CommandRow}, IF d.v = 0 THEN "approvals" ELSE "replaced")
  /\ UNCHANGED publishing

CreateReplaced(p) ==
  /\ At(p, "create", "replaced")
  /\ plan[tx[p].v].status \notin {"running", "paused", "completed", "cancelled"}
  /\ \A u \in Versions : plan[u].supersedes # tx[p].v
  /\ Lock(p, {PlanRow(tx[p].v)}, "approvals")

CreateApprovals(p) ==
  /\ At(p, "create", "approvals")
  /\ Lock(p, {ApprovalRow(v) : v \in {u \in Versions : approval[u] = "pending"}}, "work")

OpenIssues == {v \in Versions : \E t \in Tasks : issue[v][t] = "proposed"}
OpenTasks  == {v \in Versions : \E t \in Tasks : task[v][t] \in {"planned", "blocked"}}

CreateWork(p) ==
  /\ At(p, "create", "work")
  /\ Lock(p, {IssueRows(v) : v \in OpenIssues} \cup {TaskRows(v) : v \in OpenTasks}, "plans")

LiveButAwaiting == {v \in Versions : plan[v].status \in {"discussion", "approved"}}
Live == {v \in Versions : plan[v].status \in {"discussion", "awaiting_approval", "approved"}}

CreatePlans(p) ==
  /\ At(p, "create", "plans")
  /\ Lock(p, {PlanRow(v) : v \in Live}, "insert")

(* Everything the statements locked is cancelled, and the next version is  *)
(* inserted.  A version locked to be replaced keeps a status that is not   *)
(* live.                                                                   *)
CreateInsert(p) ==
  LET n == Cardinality(Existing) + 1
      held(r) == r \in tx[p].locks
      cancelled(v) == IF held(PlanRow(v)) /\ v \in Live THEN "cancelled" ELSE plan[v].status
  IN
  /\ At(p, "create", "insert") /\ n \in Versions
  /\ plan' = [v \in Versions |->
       IF v = n THEN [Plan0 EXCEPT !.status = "discussion", !.supersedes = tx[p].v]
       ELSE [plan[v] EXCEPT !.status = cancelled(v)]]
  /\ approval' = [v \in Versions |-> IF held(ApprovalRow(v)) THEN "cancelled" ELSE approval[v]]
  /\ issue' = [v \in Versions |-> [t \in Tasks |->
       IF held(IssueRows(v)) /\ issue[v][t] = "proposed" THEN "cancelled" ELSE issue[v][t]]]
  /\ task' = [v \in Versions |-> [t \in Tasks |->
       IF v = n THEN "planned"
       ELSE IF held(TaskRows(v)) /\ task[v][t] \notin FinalTask THEN "cancelled"
       ELSE task[v][t]]]
  /\ command' = "planned" /\ Commit(p, {}) /\ UNCHANGED <<run, work>>

-----------------------------------------------------------------------------
(* The issue manager reads a plan, lets its agent work and saves a proposal *)
(* for every task; a task may already have its issue.                      *)
AskIssues(v) ==
  /\ plan[v].status = "discussion" /\ \A t \in Tasks : issue[v][t] = "none"
  /\ drafting' = drafting \cup {[kind |-> "propose", v |-> v]}
  /\ UNCHANGED <<rows, publishing, tx>>

AnyStatus(v)  == plan[v].fingerprint = 0
ForThisPlan(v) == plan[v].status = "discussion" /\ plan[v].fingerprint = 0

SaveIssueProposals(v) ==
  /\ [kind |-> "propose", v |-> v] \in drafting
  /\ drafting' = drafting \ {[kind |-> "propose", v |-> v]}
  /\ Unlocked({PlanRow(v)})
  /\ ForThisPlan(v) /\ \A t \in Tasks : issue[v][t] = "none"
  /\ plan' = [plan EXCEPT ![v].fingerprint = 1]
  /\ \E s \in [Tasks -> {"proposed", "published"}] : issue' = [issue EXCEPT ![v] = s]
  /\ UNCHANGED <<command, approval, task, run, publishing, tx>>

(* SubmitPlan counts the issues of the plan's current fingerprint.         *)
IssuesProposed(v)  == \A t \in Tasks : issue[v][t] \in {"proposed", "published"}
IssuesPublished(v) == \A t \in Tasks : issue[v][t] = "published"

SubmitPlan(v) ==
  /\ Unlocked({PlanRow(v)})
  /\ plan[v].status = "discussion" /\ Latest(v) /\ IssuesProposed(v)
  /\ approval' = [approval EXCEPT ![v] = "pending"]
  /\ SetPlan(v, "awaiting_approval")
  /\ UNCHANGED <<command, issue, task, run, work, tx>>

(* decidePlan; the owner sends the fingerprint of the plan they looked at. *)
DecideBegin(p, v, to, seen) ==
  /\ plan[v].status = "awaiting_approval" /\ Latest(v)
  /\ to = "approved" => seen = plan[v].fingerprint
  /\ Begin(p, "decide", v, to, {PlanRow(v)}, "approval") /\ UNCHANGED work

DecideApproval(p) ==
  /\ At(p, "decide", "approval") /\ approval[tx[p].v] = "pending"
  /\ Lock(p, {ApprovalRow(tx[p].v)}, "commit")

Approving(ok, version) == IF ok THEN {version.fingerprint} ELSE version.approved

DecideCommit(p) ==
  LET v == tx[p].v  ok == tx[p].to = "approved" IN
  /\ At(p, "decide", "commit")
  /\ Commit(p, {CommandRow} \cup IF ok THEN {} ELSE {TaskRows(v)})
  /\ approval' = [approval EXCEPT ![v] = IF ok THEN "approved" ELSE "rejected"]
  /\ plan' = [plan EXCEPT ![v] = [@ EXCEPT !.status = tx[p].to,
                                          !.approved = Approving(ok, plan[v])]]
  /\ task' = IF ok THEN task ELSE [task EXCEPT ![v] = [t \in Tasks |-> "cancelled"]]
  /\ command' = tx[p].to
  /\ UNCHANGED <<issue, run, work>>

-----------------------------------------------------------------------------
(* IssuePublisher reads an approved plan and then publishes and marks one  *)
(* proposal after the other.                                               *)
ApprovedAsIs(v) == plan[v].approved = {plan[v].fingerprint}

AskPublish(v) ==
  /\ plan[v].status = "approved" /\ approval[v] = "approved" /\ ApprovedAsIs(v)
  /\ publishing' = publishing \cup {v} /\ UNCHANGED <<rows, drafting, tx>>

MarkWorkItemPublished(v, t) ==
  /\ v \in publishing /\ issue[v][t] = "proposed" /\ Unlocked({IssueRows(v)})
  /\ issue' = [issue EXCEPT ![v][t] = "published"]
  /\ UNCHANGED <<command, plan, approval, task, run, work, tx>>

(* PrepareRun; a run that exists is returned as it is. *)
StartBegin(p, v) ==
  /\ run[v] = "none" /\ plan[v].status = "approved" /\ Latest(v)
  /\ ApprovedAsIs(v) /\ IssuesPublished(v)
  /\ Begin(p, "start", v, "running", {PlanRow(v)}, "commit") /\ UNCHANGED work

StartCommit(p) ==
  /\ At(p, "start", "commit") /\ Commit(p, {CommandRow})
  /\ run' = [run EXCEPT ![tx[p].v] = "pending"]
  /\ SetPlan(tx[p].v, "running") /\ command' = "running"
  /\ UNCHANGED <<approval, issue, task, work>>

(* PrepareRunRetry: the failed run of the latest version starts again.     *)
RetryBegin(p, v) ==
  /\ run[v] = "failed" /\ ApprovedAsIs(v) /\ Latest(v) /\ IssuesPublished(v)
  /\ Begin(p, "retry", v, "running", {PlanRow(v), RunRow(v)}, "tasks") /\ UNCHANGED work

RetryTasks(p) == At(p, "retry", "tasks") /\ Lock(p, {TaskRows(tx[p].v)}, "commit")

RetryCommit(p) ==
  LET v == tx[p].v IN
  /\ At(p, "retry", "commit") /\ Commit(p, {CommandRow})
  /\ task' = [task EXCEPT ![v] = [t \in Tasks |-> IF @[t] = "completed" THEN @[t] ELSE "planned"]]
  /\ run' = [run EXCEPT ![v] = "pending"]
  /\ SetPlan(v, "running") /\ command' = "running"
  /\ UNCHANGED <<approval, issue, work>>

(* UpdateRunStatus, called by the workflow of the run (PlanScheduler).     *)
RunMoves == {<<"pending", "running">>, <<"running", "paused">>, <<"running", "completed">>,
             <<"paused", "running">>}
            \cup ({"pending", "running", "paused"} \X {"failed", "cancelled"})

StatusForCommand(to) == IF to = "paused" THEN "running" ELSE to

RunBegin(p, v, to) ==
  /\ <<run[v], to>> \in RunMoves
  /\ to = "completed" => \A t \in Tasks : task[v][t] = "completed"
  /\ Begin(p, "run", v, to, {RunRow(v), PlanRow(v)}, "commit") /\ UNCHANGED work

RunCommit(p) ==
  LET v == tx[p].v  to == tx[p].to IN
  /\ At(p, "run", "commit")
  /\ Commit(p, {CommandRow} \cup IF to \in {"failed", "cancelled"} THEN {TaskRows(v)} ELSE {})
  /\ run' = [run EXCEPT ![v] = to] /\ SetPlan(v, to) /\ command' = StatusForCommand(to)
  /\ task' = [task EXCEPT ![v] = [t \in Tasks |->
       CASE to = "cancelled" /\ @[t] \notin FinalTask -> "cancelled"
         [] to = "failed" /\ @[t] = "planned" -> "failed"
         [] OTHER -> @[t]]]
  /\ UNCHANGED <<approval, issue, work>>

(* The executors of a running plan (TaskExecution). *)
TaskMoves(v, t) ==
  /\ run[v] = "running" /\ task[v][t] \in {"planned", "blocked"} /\ Unlocked({TaskRows(v)})
  /\ \E s \in {"blocked", "completed", "failed"} : task' = [task EXCEPT ![v][t] = s]
  /\ UNCHANGED <<command, plan, approval, issue, run, work, tx>>

-----------------------------------------------------------------------------
Owner == \/ \E d \in Drafts : AskPlan(d)
         \/ \E v \in Versions : AskIssues(v) \/ SaveIssueProposals(v) \/ SubmitPlan(v)
                               \/ AskPublish(v)
                               \/ \E t \in Tasks : MarkWorkItemPublished(v, t) \/ TaskMoves(v, t)

Transaction(p) ==
  \/ \E d \in drafting : CreateBegin(p, d)
  \/ CreateReplaced(p) \/ CreateApprovals(p) \/ CreateWork(p) \/ CreatePlans(p)
  \/ CreateInsert(p)
  \/ \E v \in Versions :
       \/ \E to \in {"approved", "cancelled"}, seen \in {0, 1} : DecideBegin(p, v, to, seen)
       \/ StartBegin(p, v) \/ RetryBegin(p, v)
       \/ \E to \in RunStatuses : RunBegin(p, v, to)
  \/ DecideApproval(p) \/ DecideCommit(p) \/ StartCommit(p)
  \/ RetryTasks(p) \/ RetryCommit(p) \/ RunCommit(p) \/ Rollback(p)

Next == Owner \/ \E p \in Procs : Transaction(p)

Spec == Init /\ [][Next]_vars

-----------------------------------------------------------------------------
(* A version that has a run was approved with the content it still has, and *)
(* every one of its tasks has a published issue: no race between planning, *)
(* submission, publication and start loses the approval gate.              *)
RunIsApproved ==
  \A v \in Versions : run[v] # "none" =>
     /\ approval[v] = "approved" /\ plan[v].approved = {plan[v].fingerprint}
     /\ \A t \in Tasks : issue[v][t] = "published"

(* At most one version of a command is open to discussion, decision or     *)
(* start, and it is the latest one, whoever replans at the same time.      *)
OneLivePlan ==
  LET open == {v \in Versions : plan[v].status \in {"discussion", "awaiting_approval", "approved"}}
  IN  \A v \in open : Latest(v) /\ open = {v}

(* A plan that awaits approval can be decided: its approval row is pending *)
(* and its issues are those of the fingerprint the owner sees.             *)
AwaitingIsDecidable ==
  \A v \in Versions : plan[v].status = "awaiting_approval" =>
     /\ approval[v] = "pending" /\ plan[v].fingerprint = 1
     /\ \A t \in Tasks : issue[v][t] \in {"proposed", "published"}

(* The version the owner is asked about is the only live one, and asking   *)
(* is not in vain, whichever transactions overlapped before.               *)
OwnerCanDecide == TypeOK /\ OneLivePlan /\ AwaitingIsDecidable

(* What the owner may rely on about every version: see PlanVersion.        *)
Version == INSTANCE PlanVersion WITH
  status <- [v \in Versions |-> plan[v].status],
  fingerprint <- [v \in Versions |-> plan[v].fingerprint],
  approved <- [v \in Versions |-> plan[v].approved]
VersionsKept == Version!Spec

=============================================================================
