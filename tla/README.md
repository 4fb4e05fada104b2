# A verification development of agent-orchestrator

`course-dev-orchestrator` (the Go program under `src/`) lets one owner describe
work in words, turns it into a versioned plan, publishes the plan's tasks as
issues after the owner approved the exact plan text, runs the tasks as a
Temporal workflow whose steps are executed by AI coders in git worktrees, has
every change reviewed before it is committed, and prepares pull requests. This
directory holds TLA+ models of the parts whose correctness depends on order,
concurrency and failure, the TLC configurations that check them on small
instances, and proofs checked by TLAPS that hold for all instances.

All paths below are relative to `src/`.

## 1. Inventory

### Parts and how they interact

| Part | State it keeps | Operations | Interacts with |
|---|---|---|---|
| **PlanWorkflow** (`internal/workflow/plan.go`) | `state` (run and task statuses), active executor futures, `retryable` set, in workflow memory that Temporal replays | boot, signal poll, select loop, batch dispatch, finish, fail | activities (`internal/activities/plan.go`) that write the rows; five signal channels |
| **Plan rows** (`internal/adapters/postgres/planning_repository.go`) | `command`, `plan`, `approval`, `task`, `task_dependency`, `plan_run` | CreatePlan, AddPlanComment, SubmitPlan, approve/reject, PrepareRun, PrepareRunRetry, AttachTemporalRun, UpdateRunStatus, MarkTaskReady, RecordTaskResult | called by HTTP, Telegram, the conversation service and by workflow activities |
| **Work items** (`work_item_repository.go`, `internal/workitem`) | issue and pull-request proposals with fingerprints | SaveIssueProposals, publish issues, mark published, prepare and publish PR | plan rows; external issue tracker |
| **Execution service** (`internal/execution/service.go`, `execution_repository.go`, `git/task_worktree.go`) | `task_attempt`, `task_review`, `task.status`, worktree, task branch | BeginAttempt, coder run, verify, review, revise, commit, testing gate, Complete/FailAttempt | started by PlanWorkflow; runs the TypeScript Codex runner |
| **Run control** (`internal/usecase/planning`, `internal/usecase/execution`) | none of its own | StartPlan, RetryPlanRun, ControlRun, CancelTask, RetryTask | reads rows, then signals or starts workflows |
| **Plan builder** (`internal/planning`) | none | Build, refine by the planner agent, route, validate | produces the draft CreatePlan stores |
| **Verification** (`internal/execution/verifier.go`, `testing_policy.go`, `git/task_worktree.go`) | worktree, task branch | prepare, inspect, run checks, commit, gate | called by the execution service |
| **Telegram** (`internal/usecase/telegram`, `telegram_repository.go`, `adapters/telegram/poller.go`) | update receipts, one-time callback grants, poll offset | Handle, BeginUpdate, FinishUpdate, SaveCallback, ConsumeCallback, Run | every owner use case |
| **Onboarding** (`internal/usecase/onboarding`) | onboarding runs, approvals, worktree, GitLab branch and merge request | Prepare, Approve, Reject, Apply | git, discovery, GitLab |
| **Delivery** (`internal/workitem`, `adapters/workitem/github.go`) | work-item rows, GitHub issues and pull requests | prepare and publish issues and pull requests | plan rows, GitHub |
| **GitLab links** (`gitlab_repository.go`) | link row, webhook receipts | ApplyGitLabWebhook | onboarding |
| **Projects** (`internal/usecase/project`) | project, snapshots | connect, scan, archive, restore | discovery, topology |
| **Topology** (`internal/topology`, `internal/usecase/topology`) | services, relations, revision | Build, rebuild, Get | projects |
| **Conversations** (`internal/usecase/conversation`) | conversation, messages, agent thread | begin, attach, complete, fail a turn | Codex runner |
| **Architecture TARGET** (`internal/usecase/architecturetarget`) | proposals, approvals, integrations | create, revise, submit, decide, integrate, verify | catalog, plans |
| **Manifest tools** (`internal/architecturemanifest`, `internal/currentverification`) | files under `.ai/architecture` | scaffold, reconcile, draw, audit, verify CURRENT | checkouts of services |
| **Architecture catalog** (`internal/architecturecatalog`) | none | Build, Export, FleetExport | manifests, git objects |
| **Contract baseline** (`internal/contractbaseline`) | placeholder files, recorded baseline | materialize, diff gate, commit gate | plans |
| **Context retrieval** (`internal/contextretrieval`) | none, but reads files that change | Prepare, Expand, verify | planner and coder |
| **Agent control plane** (`internal/agentcontrol`, `internal/agentpolicy`) | managed assets in repositories | load catalog, propose and apply a distribution, route models | planner |
| Discovery, architecture presentation, HTTP, owner UI, CLI, TypeScript runner | none, or read-only projections | pure functions and I/O | – |

### What is hard

* **Two memories.** The workflow keeps its own picture of run and tasks while
  executors, cancellations and retries write the rows. Activities are delivered
  at least once, their answers can be lost, and after the last delivery the
  workflow gets an error for something that may have committed.
* **Check, then signal.** Owner requests are checked against the rows in one
  process and reach the workflow later, in an order given by channels and the
  selector, or find it closed.
* **Executors that outlive their purpose.** A cancelled task, a failed sibling
  or a missed heartbeat leaves an executor running over rows and a worktree that
  already belong to someone else.
* **Crash at any line of Execute.** Which rows were written decides what the next
  delivery does; everything in local variables is gone.
* **Versions and approvals.** What is approved, published and run is a specific
  fingerprint of a specific version while the owner revises, comments and
  retries, in transactions that lock rows in different orders.
* **Duplicate and lost inputs.** Updates come from a poller and a webhook, again
  and concurrently; GitLab's events come late, again and out of order.
* **Two stores, no transaction.** The database and GitHub, GitLab, Telegram, git or
  a worktree are changed one after the other; every call may fail, lose its answer
  or be the last of a process.
* **Files under one's hands.** Planners, manifest tools, retrieval and
  distribution read a checkout, compute, and use the result on a checkout that its
  owner or another tool has changed meanwhile.
* **Producers and gates that must agree.** The router and the validator, the diff
  gate and the commit gate, the scaffolder and the auditor, the catalog and the
  fleet graph derive the same facts twice, from different inputs.

### What makes each part correct

* *PlanWorkflow*: dependency order; at most `max_parallel_tasks` executors; memory
  agrees with rows when it waits; it ends only with a final run; a run fails for a
  cause; cancel ends; running moves on.
* *Execution*: the committed content is the reviewed content; answers equal rows;
  finished is final; review budget; every execution ends.
* *Plan rows and work items*: only an approved, current, fully published version
  runs; at most one version is live; approvals and plans agree; owner decisions
  are not lost to races.
* *Telegram*: a button works once, for its user, and does what it says; a message
  makes one live plan; no update is skipped or blocks the queue.
* *Onboarding, delivery*: what is published is what was approved, whole and once,
  however many attempts it takes; what failed can be applied again.
* *Run generations*: a workflow runs once; the row follows the current one; finished
  tasks survive; a pending run can be started.
* *GitLab, projects, conversations, TARGET*: repeated events change nothing; what is
  decided or archived stays so; readers see one revision; one thread answers.
* *Pure parts*: what a producer makes its gate takes, two tools agree on the same
  facts, nothing a person wrote is overwritten, and "complete" and
  "verified" are only said of what is.

## 2. Modules

Three kinds of modules. *State machines* model code that others act beside of: one
action is the code between two points where somebody else may act (a transaction, a
call, an await). *Operator modules* model code that computes: one operator per
function, over abstract inputs. *Abstract specifications* say what a part promises
and are implemented by a state machine.

| Module | Models | Kind |
|---|---|---|
| `PlanScheduler` | PlanWorkflow, the transactions of its activities, executors through their contract, owner requests, faults | state machine, proved |
| `PlanPromise` | what a reader of the plan rows may rely on | abstract, implemented by `PlanScheduler` (checked and proved) |
| `PlanSchedulerProofs` | the theorems about it (section 5) | proofs |
| `TaskExecution` | `Service.Execute`, its rows, worktree and activity deliveries | state machine, proved |
| `ExecutorContract` | what the scheduler may rely on of an executor | abstract, implemented by `TaskExecution` (checked and proved) |
| `TaskExecutionProofs` | the theorems about both | proofs |
| `TaskVerification` | worktree, independent verification, commit and Testing Policy gate | operators, proved |
| `PlanLifecycle` | plan versions, approvals, issues and runs as PostgreSQL transactions with row locks | state machine, proved |
| `PlanVersion` | what the owner may rely on about every version | abstract, implemented by `PlanLifecycle` (checked and proved) |
| `PlanLifecycleProofs` | the theorems about both | proofs |
| `RunGenerations` | start, retry and control of the generations of one run | state machine, proved |
| `TelegramOwner` | updates, receipts, buttons, poller and webhook | state machine, proved |
| `TelegramOwnerProofs` | the theorems about it | proofs |
| `Onboarding` | proposal, approval and application to a repository and GitLab | state machine, proved |
| `Delivery` | issues and pull requests of a plan at GitHub | state machine, proved |
| `PublicationProofs` | the theorems about both | proofs |
| `TargetPolicy`, `TargetWorkflow` | TARGET proposals: the pure policy, and their life | operators; state machine, proved |
| `ProjectRegistry` | projects, scans and the stored topology | state machine, proved |
| `Conversation` | turns of the owner's conversation with the operator agent | state machine, proved |
| `GitLabLinks` | the merge-request link under webhooks | state machine, proved |
| `ControlPlane` | the four components above side by side | composition, proved |
| `ControlProofs` | the theorems about the five, and about `RunGenerations` | proofs |
| `PlanBuilder`, `PlanRouting`, `PlanValidator` | how a request becomes a routed, validated task graph | operators |
| `ContractBaseline` | freezing shared contracts: placeholders and two gates | operators, proved |
| `ContextRetrieval` | context packs and their expansion over changing files | operators, proved |
| `ContextProofs` | the theorems about it | proofs |
| `AgentControl` | the catalog of agent assets, its profiles, its distribution, model routing | operators, proved |
| `ArchitectureManifests` | the manifest tools and the verification of CURRENT | operators, verification proved |
| `ManifestPublication` | how their changes reach a checkout, file by file | state machine, proved |
| `TopologyBuilder` | the topology derived from discovery reports | operators |
| `ArchitectureCatalog`, `CatalogExport` | the catalog, its graph and the fleet graph | operators, proved |
| `Knowledge` | what is promised about repositories: one question at a time, beside a checkout under publication | composition, proved |
| `KnowledgeProofs` | the theorems about publication, contracts, deliveries, CURRENT, the agent control plane, the catalog and the graphs | proofs |
| `...MC` | instances; `ControlMC`, `PublicationMC`, `TelegramOwnerMC` and `KnowledgeMC` combine components that share no state | – |
| `...Cases` | the small families of inputs the operator modules are asked about | – |

### PlanScheduler

The workflow is a sequential process, so its state is where it waits: `phase` and
the one database activity it blocks on (`call`), the dispatch activities of a batch
(`disp`) and the executor futures (`exec`). One action is the code between two
awaits:

| Code | Action |
|---|---|
| set run to running at the start, `receivePendingSignals` | `Init`, `RunStatusSet`, `Poll` |
| loop body: cancel, completions, task results, retry, pause/resume | `SelectSignal`, `SelectCompletion`, `HandleSignal`, `TaskResultRecorded` |
| finish / batch / stuck / wait | `Decide` |
| batch: `RetryPlanTask` if retryable, then dispatch, one task at a time | `Prepare`, `TaskRetried`, `Dispatch` |
| awaiting the dispatches in order | `AwaitDispatch` |
| `UpdateRunStatus`, `RecordTaskResult`, `ResetTaskForRetry`, `MarkTaskReady` | the actions of the same name |
| `ExecutePlanTask` | `BeginAttempt`, `SetAttemptStatus`, `FinishAttempt`, `ExecError` |
| `ControlRun`, `CancelTask`, `RetryTask` | `Ask` (the check), `Deliver` (the signal) |
| Temporal delivering again or giving up | `LoseAnswer`, `GiveUp` |

Signals are a set: two equal signals have the effect of one on every handler.
Feedback texts, branch names and the schedule's other fields are left out; they
decide nothing here. `buildSchedule` starts a retried run with completed tasks and
spent attempts, so `Init` admits any dependency-closed set of completed tasks.

`PlanPromise` has two variables, the run status and the set of completed tasks; the
refinement mapping is `done <- {t : task[t] = "completed"}`.

### TaskExecution

A worker is one delivery of the activity; `w[k]` holds the locals of `Execute`
(`threadID`, `replaceThreadID`, `nextReview`, `state.ChangedFiles`) and where it is.
Rows, worktree (`tree`), branch head (`head`) and agent threads survive it. File
content is a version number, 0 being the planned base; the verified set of files is
the diff to the base and the staged set is the diff to HEAD, as in `Inspect` and
`Commit`. Verification, reviewer verdicts and the Testing Policy gate are choices:
the models do not say which work is good, only what happens with either verdict.
The coder may leave any of its files changed and then succeed, fail or be blocked.

`LoseDelivery` loses the worker with its locals; `MissHeartbeat` leaves it running
while Temporal delivers again, and is a step of `OverlapNext` only, which `control` uses.
A delivery that changed files is not undone.

`ExecutorContract` is what PlanScheduler uses for each task: an attempt begins over a
row that is not completed and within its budget, the row shows what the executor
answers, an error leaves the row. `ContractKept` shows TaskExecution implements it
when deliveries do not overlap; with overlap (`control`) the review budget is what is left of it.

### PlanLifecycle

The unit of interleaving is the SQL statement. A connection's open transaction
(`tx[p]`) is at one of its statements and holds the locks of the rows it selected
`FOR UPDATE` or has written; committed rows are the variables everyone reads; the last
step of a transaction applies all it wrote. Rolling back is always possible: it stands
for PostgreSQL's deadlock victim, a lost connection, a cancelled request and every
refusal, none of which changes a row.

| Code | Action(s) |
|---|---|
| `RevisePlan`/`CreatePlan` use cases before the planner works | `AskPlan` |
| `CreatePlan` (advisory lock and command; replaced plan; approvals; work items and tasks; plans; insert) | `CreateBegin`, `CreateReplaced`, `CreateApprovals`, `CreateWork`, `CreatePlans`, `CreateInsert` |
| `IssueManager.Prepare`, `SaveIssueProposals` | `AskIssues`, `SaveIssueProposals` |
| `SubmitPlan` | `SubmitPlan` (waits for one lock, so it is one step) |
| `decidePlan` (plan; approval; tasks and command) | `DecideBegin`, `DecideApproval`, `DecideCommit` |
| `IssuePublisher.Publish`, `MarkWorkItemPublished` | `AskPublish`, `MarkWorkItemPublished` |
| `PrepareRun` | `StartBegin`, `StartCommit` |
| `PrepareRunRetry` (plan and run; tasks; command) | `RetryBegin`, `RetryTasks`, `RetryCommit` |
| `UpdateRunStatus` | `RunBegin`, `RunCommit` |
| executors' writes to `task.status` | `TaskMoves` |

Merged locks (plan and run in a retry, run and plan in a status update, advisory lock
and command) only remove states in which a transaction holds the first and waits for
the second: they block others and are left by a rollback or by going on. The
fingerprint is 0 for the planner's draft and 1 once issue proposals are bound to it:
the code changes it there only. A plan submitted and then withdrawn by a concurrent
`CreatePlan` can leave its approval row `pending`; nothing decides that row any more,
which is why `AwaitingIsDecidable` speaks of awaiting plans and not of pending
approvals. `RevisePlan` may withdraw a version that was approved while its planner
worked (`docs/implementation-plan.md:341-342` asks for the opposite): `AskPlan` checks
`discussion`, `CreateReplaced` only excludes running, paused, completed and cancelled.

### TaskVerification

The functions `TaskExecution` leaves as choices: a worktree is a function from paths
to versions, a commit what it holds. `Prepare` reuses a worktree, checks out an
existing branch or starts at the planned base; `Inspect` is the diff to the base with
the write scope and the protected paths; `Verify` runs the canonical commands the task
and the coder name; `Commit` stages the verified files; `VerifyTask` is the policy
runner with its evidence file and its report.

### RunGenerations

One `plan_run` row serves all generations of a run, Temporal keeps a workflow for each.
A client (an HTTP request) works in three steps – transaction, call to Temporal,
transaction – and may die in between.

| Code | Action |
|---|---|
| `StartPlan` (`PrepareRun` on a pending run, `Runner.Start`, `AttachTemporalRun`) | `StartPlan`, `RunnerStart`, `AttachTemporalRun` |
| `RetryPlanRun` (`PrepareRunRetry`, then as above) | `RetryPlanRun`, `RunnerStart`, `AttachTemporalRun` |
| `ControlRun` cancel: read the run, signal its workflow | `ControlRun`, `Control` |
| the workflow's `UpdateRunStatus` and completed tasks | `Begin`, `CompleteTask`, `End`, `Close` |
| a write of a timed-out activity | `LateWrite` |

What a workflow does inside is `PlanScheduler`.

### TelegramOwner

A handler is one call of `Service.Handle`, by the poller or a webhook request. Its
steps are the transactions and calls of the code: `BeginUpdate` (claim), for a text
`CreateCommand` and `CreatePlan` and for the two buttons of the answer
`SaveCancel`/`SaveInsert`, for a press `ConsumeCallback` and `Act`, then
`FinishUpdate`, `SendMessage`, `AnswerCallback`. The poller reads a batch
(`GetUpdates`), handles it in order (`PollerTake`), and stores the offset
(`SavePollOffset`). Any call may fail (`OperationFails`, `HandleFails`, `SendFails`) and
any process may crash (`Crash`); Telegram delivers what was not acknowledged again.
`Web` is the owner deciding a plan in the browser.

### Onboarding and Delivery

Both publish approved work to stores that share no transaction with the database; a
step is one call, `CallFails`, `AnswerLost` and `Crash` put a fault at any of them.
`Onboarding`: `Prepare`, `Decide`, `BeginApply`, worktree (`MakeWorktree`,
`WriteProposedFile`, `CommitProposal`), `VerifySource`, `PushBranch`, merge request
(`FindMergeRequest`, `CreateMergeRequest`), `RecordPublication`, `Complete`,
`FailApply`; the source moves and the worktree is touched in between (`Meddle`).
`Delivery`: `PrepareIssues`, publication of the issues (`BeginPublish`, `FindIssue`,
`PostIssue`, `MarkIssue`), `PreparePullRequest` and `SavePullRequestProposal`, and for a pull
request `PublishBranch`, `LookupPullRequest`, `OpenPullRequest`, `LabelPullRequest`,
`RequestReviewers`, `MarkPullRequest`.

### TargetPolicy and TargetWorkflow

A catalog has services, operations and relations and says whether it is whole; its
fingerprint is itself. `TargetPolicy` has validation, impact and verification of a
proposal. In `TargetWorkflow` an owner reads a proposal (`ReviewTarget`), the use case
checks (`CheckTransition`), the store checks again under its lock
(`StoreTransition`, `ReviseTarget`); integration is three calls (`CreateCommand`,
`CreatePlan`, `PrepareIssueDrafts`), each of which may fail and all of which may be
asked for again; `CurrentMoves` replaces CURRENT at any time.

### ProjectRegistry

A scan is `ConnectProject` or `ScanProject`, `Inspect`, `MarkScanning`, `ReadCheckout`,
`SaveDiscovery` or `MarkFailed`, around a checkout that is edited, beside archiving,
restoring and other scans; a scan may die. The topology is rebuilt in
`GatherSources` and `ReplaceTopology` and read in `BeginRead`, `ReadServices`,
`ReadRelations`, `EndRead`, one statement each.

### Conversation and GitLabLinks

A turn is `ReadConversation`, `BeginTurn` (one pending answer), `ThreadStarted` (the
first event of the runner, attached by compare-and-set), `ResultArrives` or
`RunnerFails`, `CompleteTurn` or `FailTurn`. A link is moved by `Deliver`, which
records the event, drops a duplicate and applies `ValidTransition`; GitLab's events
are in the order of `emitted` and are delivered in any order and again.

### The operator modules

They are asked questions (section 3). What the operators abstract:

* **Planning.** Projects are numbers in id order; the words of a request are the
  services, contract and migration hints they amount to, and for routing the kinds of
  clause each route is mentioned in (asked for, excluded, conditional, explained,
  planned for later). `PlanBuilder` has selection, dependency edges without cycles,
  bounded parallelism, waves, risk and the refinement by the planner agent;
  `PlanRouting` the profile, the polarity of every route, evidence-backed selection,
  contract owners and review; `PlanValidator` re-derives it.
* **Contracts.** A file is its package, imports and declarations; a hash is the file.
  Both gates are there with every refusal, and the placeholder files.
* **Retrieval.** A file is a sequence of lines, a line costs one byte; a load of the
  sources is one tree (its files in the order of the scan), and every load may see another
  one. A preparation loads twice; an expansion loads before it replays, twice to prepare the
  base again, and once more at its end.
* **Control plane.** A path is a sequence of names; checksums are contents. Two looks
  at the repository precede a write.
* **Manifests.** A checkout maps the paths that exist to manifests, drawings or
  something else. `ManifestPublication` writes the planned changes one at a time, with
  the check before each, an editor, failed writes, rollback and kills. An edit of a file
  that happens to leave what the command has read there, or what it wants there, is not told
  from the command's own work, in the code as in `EditsSurvive`.
* **Topology and catalog.** Names, routes and subjects are sequences of words; stable
  ids and digests are the tuples they are computed from, so two things have one id
  exactly when the code hashes the same tuple.

## 3. Runs

| Run | Instance | Question |
|---|---|---|
| `scheduler_safety` | a join of three tasks (3 needs 1; 2 is more urgent), two slots, two attempts, two requests, one fault | dependency order, agreement of memory and rows, how workflows end, why runs fail, `PlanPromise` |
| `scheduler_liveness` | three independent tasks, two slots, two requests of which the second is a cancel or meets one, one fault, fairness | slot limit; a received cancel ends the run, whatever is in the inbox beside it; a running run moves on |
| `lifecycle_safety` | two versions of two tasks, two connections | the approval gate, one live version, decidability, `PlanVersion` |
| `telegram_and_task` | Telegram: one text and two presses by an owner or a stranger, poller and one webhook, two grants, one fault; task: two files, two executions of two deliveries, one lost delivery, two reviews; fairness | buttons, one live plan, the offset, the queue; commit = review, answers = rows, finality, the contract, every execution ends |
| `publication` | two onboarding requests with two files, one commit of the source, one meddling, two faults; one issue request and two pull-request requests over two tasks, two faults; fairness | what is published is approved, whole and once; failed work can be applied again |
| `control` | TARGET: five catalogs, two owners, one integrator, two plan versions; registry: two projects, two scans, a rebuild, a reader; conversation: three turns; link: four events; execution: two overlapping deliveries | decisions stand, readers see one revision, one operator, repeated events, review budget |
| `knowledge` | some 200 000 questions to the operator modules; a checkout under publication with three edits, failed writes or kills; generations of a run: two clients, three generations, one late write, one dying request, one cancel, fairness | producers, gates and tools agree; nothing written by a person is lost; one execution per generation, turns, attachment, history, startability |
| `scheduler_blocked` | two independent tasks (violation) | blocked tasks wait for the owner |
| `execution_commit` | two executions (violation) | approved work is what the branch gets |
| `telegram_approve` | one text, one press, one button (violation) | the approve button approves |
| `target_revise` | the instance of `control` (violation) | a fresh revision of a draft is accepted |
| `target_matched` | the instance of `control` (violation) | what is reported as matched is there |

**Sums.** `ControlMC`, `PublicationMC` and `TelegramOwnerMC` (the Telegram interface and
the execution of one task) hold components that share no variable. Their first state chooses which one moves (`focus`), so the state graph is the sum, not the
product; a property of one component is evaluated everywhere and can only change where
it moves. `KnowledgeMC` chooses a topic in its first step, one question of that topic in
its second and stops there, or publishes manifest files or moves the generations of a run
step by step from its first state;
the properties that are proved are those of `Knowledge`, which leaves open what is asked.

**Properties with parts.** A property of a run is one promise of a component, stated as a
conjunction of named parts, which the counterexample of a changed model names:

| Property | Parts |
|---|---|
| `SchedulerInv` | `ViewIsBacked`, `BatchIsReady`, `ExecutorIsHonest`, `CompletionIsEarned`, `DependenciesFirst` |
| `WorkflowKeepsRows` | `WorkflowAgreesWithRows`, `EndedWorkflowIsSettled` |
| `RowsTellOutcomes` | `TypeOK`, `OutcomeIsDurable`, `ReviewBudget` |
| `OwnerCanDecide` | `TypeOK`, `OneLivePlan`, `AwaitingIsDecidable` |
| `ButtonsAreSafe` | `TelegramTypeOK`, `ButtonActsOnce` |
| `GenerationsTakeTurns` | `TypeOK`, `OneExecutionPerGeneration`, `OneGenerationActs` |
| `HistoryIsKept` | `CompletedStays`, `CancelledAsAsked` |
| `ApplyIsExact` | `TypeOK`, `OnlyTheProposalIsPushed`, `OneApplier`, `CompletedIsPublished` |
| `DeliveryIsExact` | `OneIssuePerRequest`, `PublishedIsComplete`, `OnlyFinishedWork` |
| `ProposalsKeepDecisions` | `CancelledStays`, `DeliveredStays` |
| `ApprovalIsHonoured` | `TargetTypeOK`, `OneCommandPerTarget`, `FinishedCoversImpact` |
| `RegistryIsWhole`, `OneOperator`, `LinkFollows` | the type invariant and `ServedIsWhole`; `AnswersShareOneThread` and `TurnsDoNotOverlap`; `RedeliveryUndoesNothing` |
| `SettledStays` | `DecisionStands`, `ArchivedUntilRestored`, `AnswerStays`, `MergedStays` |
| `PlanningIsSound` | drafts: `DraftsAreAcceptable`, `DraftsRespectRelations`, `ChoicesAreClosed`, `ChecksCanBeTrusted`; agent: `RefinementsAreSound`, `AcyclicAnswersAreTaken`; routing: `RoutingsPass`, `ExclusionsAreKept`, `BoundariesAreOwned`; catalog: `CatalogsCanPlan`, `PlannersMatch`; scopes: `ScopesAreRead` |
| `ToolsConverge` | `ManifestToolsAgree`, `ReconcileKeepsAuthored`, `InterruptedResumes`, `CountsAgree`, `TopologiesAreStable`, `ConsumersAreSeen` |
| `CurrentIsTrue` | `VerifiedIsProven`, `DeclarationsAreAccounted`, `CleanIsProven`, `FleetGraphIsLocked` |
| `LocalWorkIsKept` | `EditsSurvive`, `FailuresUndo`, `DistributionKeepsLocalWork` |
| `ContractsAreFrozen` (`FreezeIsSound`) | `MaterializingConverges`, `PlansAreMaterialized`, `GatesAgree`, `FrozenIsContractOnly` |
| `WorkIsVerified` (`DeliveryIsSound`) | `OutcomeIsEarned`, `DoneIsProven`, `RepeatedCommitIsSame` |
| `PacksAreTrue` | packs (`PackIsTrue`): `EvidenceIsCurrent`, `CompleteIsWhole`; expansions (`ExpansionIsTrue`): `EvidenceIsCurrent`, `Keeps`, `CostsAdd`, `IsBase`; `MergeIsExcerpt` |

**Bounds and why they are enough.** Three tasks are the least that have a dependency
and a competitor for a slot; two slots the least where slots matter; two attempts the
least with a retry and an exhausted budget. Two requests give every pair of owner
actions in both orders. In `scheduler_liveness` the second of them is a cancel or is made
while a cancel is on its way, and no task is completed before (`CancelSpec`): a cancel is
then in the inbox beside every other signal, arrived before or after it. Any single request
is covered too; pairs without a cancel are only checked for safety (`scheduler_safety`), which
keeps the run within minutes. One fault puts a lost answer or an exhausted activity at any
point of any behaviour. In TaskExecution two files are needed to tell the staged from
the verified set, two executions to have a retry, and two reviews to have a revision
(`MaxReviewAttempts` is at most 2 in the configuration). Two versions are a plan and
its replacement; every transaction touches at most those. Two connections give every
pair of overlapping transactions. Three generations have a first, a retry and a retry
of a retry, of which a slow request may belong to any. Two presses with one webhook
beside the poller repeat a press, press both buttons, and deliver one press twice at
once. Two faults in publication reach a failed attempt whose repetition fails too. Two
scans, a rebuild and a reader are explored two at a time (`TwoAtOnce`), which keeps
every pair. Three turns have two that overlap and one after them. Four events are
moves of a merge request, some new, some late, some repeated. The families of questions
vary one or two things at a time around a whole case and are small enough to be
enumerated; they do not cover their functions, they reach every branch of them.

Symmetry is over connections and tasks (`lifecycle_safety`), projects, scans and the two
deliveries (`control`), which no constant distinguishes; no run with symmetry checks
liveness. Every bound is a constant, and no theorem depends on its value.

**Deadlock** checking is off because every run's system really stops: a workflow that
has ended, an execution that has answered, requests that are used up, a question that
has been answered.

**What the violation runs show.** `scheduler_blocked`: `README.md:497-498` has blocked
tasks wait for the owner; with no other task runnable the workflow fails the plan
(`internal/workflow/plan.go:273`). `execution_commit`: a retry that takes a committed
file back to its base leaves the file in no diff, so the approved worktree and the branch
differ (`internal/adapters/git/task_worktree.go:264`). `target_revise`: `UpdateDraft`
compares the revision with the one before the one it is given, and refuses every
revision of a draft (`architecture_target_repository.go:162`). `telegram_approve`: the
button under a plan approves without a fingerprint (`usecase/telegram/service.go:298`),
which the repository requires (`planning_repository.go:407`), so the press is used up and
the plan still awaits approval; `test/mvp/rehearsal_test.go:173-179` and
`README.md:614-615` have it approved. `target_matched`: an added dependency, contract, event
or responsibility is `MATCHED` once CURRENT has changed in anything, when the services or
operations it names exist (`architecturetarget/verification.go:235`), observed or not;
`docs/architecture-manifest-v1.md:99-101` keeps what cannot be proved an explicit unknown.

### Behaviours worth knowing

Met while modelling, kept by the models as the code has them, and excluded from a
property by name where one would fail:

* A pause that races the last completion leaves a paused run without a workflow
  (`planning_repository.go:905`, `workflow/plan.go:216`).
* An executor writes over a row that was cancelled meanwhile
  (`execution_repository.go:331`).
* A retried task resumes the thread whose work was rejected
  (`execution_repository.go:205`; `docs/architecture-conventions.md:224-226` has a fresh one).
* Deliveries that overlap after a missed heartbeat may edit a worktree the reviewer has
  approved (`execution/service.go:232`).
* A retry that was read before a newer version was approved starts the outdated one
  (`planning_repository.go:558`; `README.md:473`).
* A retry that touches only some of the files committed before can have its commit
  refused (`task_worktree.go:272`).
* `RevisePlan` may withdraw a version approved while its planner worked
  (`docs/implementation-plan.md:341-342`).
* A late failed-write of an earlier generation makes a running run retryable, so two
  generations act; a slow start attaches the older Temporal run to a retried run.
* A request whose process dies leaves its conversation answer pending and every later
  turn refused, its onboarding run `applying`, or its project `scanning`.
* Two first turns that overlap start two threads; the second is refused and its turn
  fails.
* A second integration of a TARGET may make a new plan version, which cancels an
  approved one. `changes_requested` is in effect the end of a proposal. Verification looks
  at services and operations only, so that removing a dependency between services that stay
  is never `MATCHED` (`usecase/architecturetarget/verification.go:254`), as adding one always is.
* Every approve button under a plan is refused, and the press is used up; rejecting and
  the other buttons work.
* A project may be archived while it is being scanned (`README.md:279-280`;
  `project_repository.go:168-206`).
* A chain of more than `MAX_REQUIRED_TASK_DEPTH` tasks is refused for a plan an agent
  refined, even if only the parallelism limit made it; boundary candidates are grouped
  over all projects, so two projects that route one boundary kind conflict; a source
  without the boundary's kind may be chosen and is then refused by the validator; an
  evidence index cut at 500 can make the validator refuse a routed plan.
* The diff gate does not look for secrets in approved files that are unchanged, the
  commit gate does not look at sizes; of Go declarations with one name only the last is
  compared; Go contracts may add types, TypeScript ones may not.
* Expanding a pack under a scoped policy makes the policy apply without adding its
  facet, so the pack is blocked; expansion never lifts `PARTIAL`.
* An asset whose target moves is in conflict for ever; routes may depend on each other in
  a cycle.
* The audit accepts drawings that are out of date; `service.yml` is taken by the
  scaffolder only; `Verify` audits after its second look at HEAD
  (`currentverification/verify.go:196` and the comment at 103-107); a reconciliation that
  is killed leaves what it had written; an edit between the check and the write of a rollback
  is lost (`architecturemanifest/reconcile.go:327-336`; the model takes both in one step).
* Two projects that answer to one alias: the first by name is taken; two dependencies
  that differ in surrounding spaces give one edge id; a summary subscriber of a publisher
  that only its operations declare gets a second edge from an unknown one.
* `EVIDENCE_PRESENT` is not compared with the evidence file, which has a fixed path and
  may be of an earlier attempt; a write scope that ends in a slash holds no file below
  it; `node_modules` of an earlier delivery are reused after the lock file changed.

## 4. Fairness

*Scheduler.* Temporal keeps delivering a scheduled activity to a polling worker, so
database activities, dispatches and the begin of an executor are weakly fair while the
workflow is open; an executor ends within its activity timeouts (2 h per delivery, 6 h
overall), with or without a result, so `FinishAttempt \/ ExecError` is weakly fair but
neither alone; the workflow's own steps are weakly fair; a handler that passed its
check does send its signal. Owner requests and faults carry no fairness.
`CancelEndsRun` and `RunningMovesOn` exclude `phase = "aborted"`: when the database
refuses or stays unreachable for every delivery, the workflow returns an error and
nothing in the code takes the run further.

*Execution.* Every worker step is weakly fair (`SumFairness` of `TelegramOwnerMC`): the
runner and every check run under a timeout of the activity. Losing a delivery is not fair.

*Generations.* Workflows and requests under way go on; a request may die. That a
pending run is started again is the owner's doing, often enough: strong fairness of
`StartPlan` on a pending run, which `PendingRunStarts` needs because the request that
should have started it may be gone.

*Telegram.* A poller that is up polls, takes and saves (`Polling` is weakly fair), and a
handler that has begun goes on; webhooks and users owe nothing. An error of `Handle` ends
the poller and its process (`internal/adapters/telegram/poller.go:47-49`,
`cmd/course-dev-orchestrator/main.go:88-92`) and nothing in the repository starts it again (`docker-compose` has no such service, `make telegram` is `go run`),
so `PollerStart` has no fairness: that somebody starts it whenever it has ended
(`[]<>poll.up`) is the hypothesis of `QueueDrains`.

*Onboarding.* A request goes on unless it dies; the owner applies a failed run again
(strong fairness of `BeginApply`). `FailedIsApplied` allows the base to have moved, the
worktree to have been touched, and a request that died holding the run.

## 5. Proofs

Every state machine has proofs: each safety invariant and each action property of theirs
that a run checks, and the three refinements, are theorems for every value of the
constants; so are the promises of `Knowledge`, about contracts, deliveries, CURRENT, context packs and local
work, for every question a tool may be asked. The exceptions
are named at the end of this section. Each
proof follows one scheme: the property is strengthened until a step from any state that
satisfies it keeps it, and the theorem combines *initially*, *step* and *implies* with the
temporal rule. What the strengthening adds is what the code relies on without saying so.
TLC checks the properties themselves, and `SchedulerInv` as it is proved, on the
instances of section 3.

**`PlanSchedulerProofs`.** For every set of tasks, dependency graph, slot limit, attempt
limit, request and fault bound:

| Theorem | States |
|---|---|
| `TypeCorrect` | `[]TypeOK` |
| `SchedulerConsistent` | `[]SchedulerInv`, inductive |
| `DependenciesRespected` | `[]DependenciesFirst` |
| `SchedulerKeepsPromise` | the scheduler implements `PlanPromise` |
| `FlowKept` | `[]FlowInv`, inductive beside the others |
| `SlotsBoundExecutors` | `[]ParallelLimit` |
| `WorkflowFollowsRows` | `[]WorkflowKeepsRows` |
| `FailuresHaveCause` | `FailureHasCause`, of plans without cycles |

`DependenciesFirst` alone is not inductive: that a dispatched task has completed
prerequisites depends on what the workflow believed when it chose the batch. The
strengthening has five parts, each needed by the next: a task the workflow takes for
completed is completed (`ViewIsBacked`); the queue, the awaited dispatches and any
dispatch activity still in flight are over completed prerequisites
(`BatchIsReady`); an executor scheduled or at work is too, works on a row that is not
completed and answers `completed` only over a completed row (`ExecutorIsHonest`); the
run is asked to complete only when every row is completed (`CompletionIsEarned`); and
`DependenciesFirst` itself. The steps rest on a few facts used everywhere: a completed
row stays completed under every action (`CompletedStays`), so finished prerequisites
stay finished (`DepsDoneStays`); an answer is an answer to the same call
(`AnswerKeepsCall`).

The promise is proved as a refinement: every step under the invariant is a
`CompleteTask`, `MoveRun`, `CompleteRun` or a stutter. `CompletionIsEarned` is what makes
a `CompleteRun` step legal, `ExecutorIsHonest` what makes a `CompleteTask` step respect
the dependencies.

The slot limit and the agreement of memory and rows need the flow of the workflow
(`FlowInv`), which the owner and every fault may interrupt: what it waits for fits
where it stands (`CallFits`); while it is steady, that is neither ended nor on its way to an
end, every slot, dispatch and executor belongs to a task its view shows at that stage, and
there are no more than `MaxParallel` (`SlotsAreKept`); the run row is what the workflow
believes or what it has just asked for (`RunIsKnown`); and a task's row follows the view,
because only the task's own dispatch and executor write it (`ViewIsTrue`).

Why a run fails is the work of `CauseInv`, about behaviours without faults: a task somebody
has begun to work on is not planned any more (`BegunIsNotPlanned`); only its executor
completes a task, and the workflow will hear of it (`CompletedIsSeen`); a steady workflow has
no failed or cancelled task in its view, and one that waits for its owner waits in the row too
(`ViewsFit`); and every activity the workflow asks for has its reason, which lasts while
the activity is under way, whatever executors and owners do meanwhile (`Reasons`). For a
call of `failPlanWorkflow` that reason is a task that went wrong (`Wrong`). The one place
where the shape of the plan matters is a workflow with nothing open and nothing to start: it
has a task that waits for its owner, since otherwise a planned task of the lowest rank could
start (`StuckHasCause`, by `WFMin`). This needs a plan without cycles (`Acyclic`), the
hypothesis of `FailuresHaveCause`: the gate takes a plan only if peeling its waves reaches every task (`Validate` of
`PlanBuilder`, `internal/planning/validator.go`), and on a cycle the workflow would fail a
healthy plan.
TLC checked `CauseInv` on the instance of `scheduler_safety` before it was proved.

**`TaskExecutionProofs`.** Two invariants. `OverlapInv` is about the rows alone and holds
also when a delivery that missed its heartbeat goes on beside its successor: a delivery
works on an execution that has begun, and never thinks more reviews are open than the
rows say (`ReviewsInOrder`). It gives `BudgetSurvivesOverlap` (`ReviewBudget`, of
`OverlapSpec`; the run `control` checks it on two overlapping deliveries). `ExecutionInv`
adds what holds when deliveries follow each other: the one delivery at work is the only
writer, so the rows stay open while it works, show what it reports when they are
closed (`RowsAgree`), and from an approval to its commit the worktree stays what was
approved (`HeadIsReviewed`). It gives `RowsAreTheTruth` (`RowsTellOutcomes`),
`CommitsAreReviewed` (`CommitWasReviewed`) and the refinement `ExecutionKeepsContract`: the
execution implements `ExecutorContract`, the abstraction of it in `PlanScheduler`.

**`PlanLifecycleProofs`.** `LifecycleInv` (theorem `LifecycleKept`) has five parts: a row lock
has one holder (`LocksExclude`); versions are numbered in the order of their creation
(`VersionsGrow`); at most one is live (`OneLivePlan`); plan, approval, issues and run of a
version fit together, whoever wrote them (`VersionsAreSound`); and what an open
transaction has read stays true because of the locks it holds (`TxsAreSound`). The last is
the argument of the code: a transaction that creates a version has the command locked and,
before it inserts, every live plan; one that decides, starts or retries has its plan locked,
so the condition it re-read holds when it commits. Theorems: `OnlyApprovedRuns`
(`RunIsApproved`), `OwnerIsAskedOnce` (`OwnerCanDecide`), `LifecycleKeepsVersions` (the
refinement of `PlanVersion`, for each version).

**`ControlProofs`, generations of a run.** `GenerationsInv` says that a request knows a generation that is
or was current, that later generations have not begun and none began twice, and, as long
as no write of a timed-out activity was delayed, that earlier ones have ended and the row's
status is that of the current workflow (`RowIsCurrent`). Theorems: `GenerationsNeverOverlap` (`GenerationsTakeTurns`), `AttachedRunIsCurrent`
(`AttachedIsCurrent`) and the action property `HistoryKept` (`HistoryIsKept`).

**`TelegramOwnerProofs`.** The invariant has three parts, for rows (`RowsInv`: receipts,
commands, plans and buttons refer to rows that exist), handlers (`HandlersInv`: a handler
has consumed the button whose operation it is about to call, holds locked the buttons it
is about to cancel, and shares neither with another handler) and the poller (`PollerInv`:
what its batch begins with is at the offset, and no unclaimed message below is missing).
Theorems: `ButtonsActSafely` (`ButtonsAreSafe`), `MessageHasOneLivePlan`
(`OneLivePlanPerMessage`), `OffsetPassesClaimedOnly` (`OffsetSkipsNothing`).

**`PublicationProofs`, onboarding.** A request knows what its attempt did only through the stores it wrote
to, so `ApplyInv` says for each point of Apply what holds of worktree, remote and
merge request (`WorkIsDone`), that a run that is being applied is held by one request
(`RunsAreHeld`, `OneApplier`) and that what was pushed or finished is whole; a branch an
earlier attempt or a person left is checked again before it is resumed. Theorem:
`AppliesExactly` (`ApplyIsExact`).

**`PublicationProofs`, delivery.** `DeliveryInv` says for each point of a pull-request request how far
GitHub is; nothing it relies on is ever taken back (`WorldGrows`), so it holds for any
number of requests side by side (`PullRequestsAreWhole`, and the action property
`DecisionsAreKept`). Issues are another matter: nothing holds the plan between `findIssue`
and POST, so two requests side by side may each open one. `PublishingInv` counts: the
issues of a task and the requests about to open one are together at most the requests.
`DeliversExactly` (`DeliveryIsExact`) therefore promises no more issues of a task than there
are requests, and one issue when there is one, as in the run.

**`KnowledgeProofs`, publication of manifests.** What the tools plan enters in one point each: a plan of
scaffold only creates files (`ScaffoldCreates`), a plan of reconcile names for each file what
it read there (`ReconcileReads`), a drawing is of one content (`DrawingReplaces`). The
invariant says that a file that was checked and is to be replaced is still what was read
(`CheckedIsSeen`, because nobody edits it in the window the documentation names), and that
each planned file of a reconciliation is its editor's, reported, as it was, or as a step
that is still to be undone left it (`Undoable`). Theorems: `EditsAlwaysSurvive`
(`EditsSurvive`) and `FailuresAlwaysUndo` (`FailuresUndo`), for every checkout, report and number of
edits, failed writes and kills. `EditsSurvive` first said less, that only the removal of a
file to be created may be undone; the proof did not go through, and TLC found why with three
faults: an editor who creates a file again that the command has removed, and then removes it,
leaves what the command left, and the rollback restores the original.

**`KnowledgeProofs`, frozen contracts.** These theorems are about operators, so each states the
promise for every question `q`, where the run asks a family of them. `GatesAlwaysAgree`
(`GatesAgree`): the diff gate and the commit gate are written apart
(`contractbaseline/verifier.go:37` and `:173`): one goes through the planned references and the
changed paths, the other through the files that were recorded. They give one verdict because
what is recorded has one file for each path of the plan (`FilesArePaths`, for the duplicates
the second gate counts) and a target that is missing fails both. `FrozenBaselinesAreContractOnly`
(`FrozenIsContractOnly`): what both gates let through keeps every Go function and declaration of the
base (`GoFileIsContractOnly`) and imports along the routes of its owner (`GoImportsFollowRoutes`).
The placeholders are written one boundary after the other, each over what the ones before
have written, so their two theorems walk over the boundaries: `PlansAreAlwaysMaterialized`
(`PlansAreMaterialized`) says that what is materialized is what the plan announced to its consumers,
`MaterializingAlwaysConverges` (`MaterializingConverges`) that no file that stands is touched, that
owners' surfaces are kept and that a repetition finds everything in place, also after a run that
stopped half-way: the second walk finds at each boundary what the first one left at its end,
not only at that boundary (`Walked`). Such a walk is a recursive function over the numbers up to
the length of a sequence; that it exists, and what each of its steps keeps, is an induction
over a set of numbers (`NumbersFrom`). `ContractsAreAlwaysFrozen` joins the four.

**`KnowledgeProofs`, deliveries.** `CompletedSteps` takes a completed delivery apart into the steps
of `Execute`: promotion of a blocked answer, verification, commit, policy. `DoneIsAlwaysProven`
(`DoneIsProven`) needs no hypothesis. `OutcomesAreEarned` (`OutcomeIsEarned`) rests on what commands
may have written meanwhile (`RanIn`) and on what a commit takes from the worktree
(`CommitFacts`): a file a command adds after the inspection makes the commit refuse, so nothing
unverified joins it. `RepeatsKeepTheCommit` (`RepeatedCommitIsSame`) follows a delivery that was lost after
its commit: the worktree that `Prepare` gives back is the commit, commands that run again write
the same files, the inspection finds the verified set, nothing is dirty, and the commit found is
taken. `WorkIsAlwaysVerified` joins the three. That a scope means the paths it was planned with
is compared with a second reading of scopes by the run (`ScopesAreRead`, in `PlanningIsSound`).

**`KnowledgeProofs`, CURRENT.** Four promises, joined in `CurrentIsAlwaysTrue`.
`CurrentIsAlwaysProven` (`VerifiedIsProven`): a root is verified only if it was read whole, did not move
between the two looks and audits complete, and a bad root hides nothing of the others.
`DeclarationsAlwaysAccounted` (`DeclarationsAreAccounted`): a consumer is related to exactly the
services that provide its reference, a subscriber to those that publish it, and what nobody answers is
an unknown edge or debt. A relation comes from one of four places (direct dependency, consumer,
producer, unknown end), and merging relations of one id keeps their ends.
`CleanGraphsAreProven` (`CleanIsProven`): a graph without diagnostics is exported of sources that are
covered, clean and at the captured commit, whose declarations are the objects of that commit and
whose discovered operations are all declared; the last is a walk over the discovered operations,
with the same induction (`CountWalks`). `FleetGraphsAreLocked` (`FleetGraphIsLocked`): every reference
of the fleet graph is pinned by its lock (`LockedSourceIs`), an external product comes from an
interaction that somebody authored with confidence and evidence (`MovingIsAuthored`), and no two edges share an
id, for which the two kinds of ids are taken apart (`MovedTell`, `MixedTell`).

**`KnowledgeProofs`, agent control plane.** `DistributionsAlwaysKeepLocalWork`
(`DistributionKeepsLocalWork`): a distribution writes what was approved over what was seen, only over
content it distributed itself, and a second one finds everything current.
`PlannersAlwaysMatchReviews`: planning never thinks less of work than its review does.
`LoadedCatalogsAlwaysPlan`: each owner of a catalog that loads has a surface where its contracts
may be, and updating one asset reaches no other. `LocalWorkIsAlwaysKept` joins the first with the
theorems about publication.

**`ContextProofs`.** The argument follows a preparation through its walks, each a recursive function whose
steps keep a fact (`LoadWalks`, `RetrieveWalks`, `JoinWalks`, `PackWalks`, `ReplayWalks`). A load keeps of
each file what was read, and remembers the sources it could not read whole (`LoadIs`).
Whatever resolver is asked, it finds excerpts of units with their citations (`ResolveFinds`); verification
keeps only those the load proves (`VerifyKeeps`), and deduplication covers each of them by an excerpt that
lasts (`DedupedIs`), because merged excerpts are excerpts (`MergesAreExcerpts`). Packing
either holds what is mandatory or says that the budget does not suffice, and never counts less than
before (`PackingKeeps`); what a pack is called follows from what is open in it (`BuildIs`,
`CompleteStatusIs`). The second load, which must give the same as the first, makes this true of the
sources as they are then: `PreparedPacksAreTrue` (`PackIsTrue`). `ExpansionsAreTrue` (`ExpansionIsTrue`) is
an induction over the history: each replayed step leaves a pack of the same promise (`ReplayedHolds`),
and since the replay is over loads that equal the first, its result is what the first load would
have given (`ReplaysTheSame`). What the base held is required in the grown pack, so it is there or the
expansion is refused (`RequiredIs`, `GrownPackIs`). `PacksAreAlwaysTrue` joins the three.

**`ControlProofs`.** One invariant for each of the four components, and a theorem for each
safety and action property: `DecisionsOnTargetsStand` and `TargetsAreHonoured`,
`RegistryStaysWhole` and `ArchivesHold`, `ConversationHasOneOperator` and `AnswersAreKept`,
`LinkFollowsItsRequest` and `MergedLinksStay`; `SettledStaysSettled` combines the four for
`ControlSpec`. What an approved TARGET covers is its whole impact: the impact is computed in
rounds over the relations, and a round that is not closed adds a service, so as many
rounds as services close it. The proof takes the least round that would contradict this
(`WFMin`), because an induction theorem with an operator parameter is out of the provers'
reach.

**Assumptions.** They are the ASSUMEs of the modules, evaluated by TLC on the runs'
constants. `PlanScheduler`: tasks are a finite non-empty set of naturals, no task depends
on itself, `MaxParallel` is 1..3 and `MaxAttempts` 1..8 (both validated by
`validateSchedule`); acyclicity is a hypothesis of `FailuresHaveCause` only. The others: sets of rows and processes
are finite, budgets and the models' bounds are naturals, and distinguished values
(`Foreign`, `External`, `NoThread`, the poller among the hooks) are none of the ordinary
ones. The theorems about `ManifestPublication` state theirs (`ChecksOut`): checkouts and
reports are finite, the commands are the three, an editor leaves one content or nothing.
Those about questions state the shape of the data: records have their fields, sequences are
sequences, trees are over one set of paths, plans are finite (`FreezeFits` with `IsPlanOf` and
`PutsOnSurface`, `WorkFits`, `DistributionFits`, `PacksFit` with `IsRequest` and `IsScan`, and `CurrentFits` of `IsRoots`, `DeclaresPairs`,
`ExportFits`, `FleetFits`). Two say more than types: a plan puts a new Go contract on a surface of
its owner, as the router derives it, and `external:...` is no repository's identity, as the identity validators
guarantee. TLC found every question of the run to satisfy these hypotheses. No theorem
assumes a size.

**Only model-checked.** Everything that rests on fairness or `ENABLED`, which the provers do
not handle: `CancelEndsRun`, `RunningMovesOn`, `ExecutionEnds`, `PendingRunStarts`,
`QueueDrains`, `FailedIsApplied`. `PlanningIsSound`: the planner and the router are RECURSIVE operators,
which tlapm cannot reason about, and folds over words; they are compared with their reference properties case
by case. `ToolsConverge`, which compares derivations by folds and sorting with each other, and runs a
tool again on its own result.

## 6. Not modelled, and the plan

Left out for good, each with its reason in `PROJECT.json`: discovery heuristics
(patterns over text), architecture presentation and process files (layout), HTTP
routing and the owner's UI (decoding and read-only projections), the CLI (wiring), the
schema (its constraints are part of the transactions that meet them) and the TypeScript
runner (a pipe to the SDK).

Left out of a component that is modelled: how the words of a request become routed
instructions (`planning/routing_analysis.go` and the text heuristics of `routing.go`);
the Go and test resolvers of context retrieval and the project analysis (language
parsing); rendering of diagrams and documents; YAML and JSON decoding; hashing; the
live synchronisation with GitLab, which no entry point reaches; deciding a proposed
conversation action, a guarded update of a row nothing else reads; the proposal for
the global policy file, which is never applied; label and milestone races at GitHub
and the delay of its search; voice messages and read-only commands of Telegram.
Writing to a repository by the control plane is external: no adapter in the source does
it.
