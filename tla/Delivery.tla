------------------------------- MODULE Delivery -------------------------------
(***************************************************************************)
(* Delivery of a plan to GitHub (internal/workitem over the work_item rows *)
(* and internal/adapters/workitem): IssueManager.Prepare proposes an issue *)
(* per task, IssuePublisher.Publish opens them, PullRequestManager.Prepare *)
(* drafts the pull request of a completed task, PullRequestPublisher       *)
(* pushes its branch and opens the draft.  The database and GitHub share   *)
(* no transaction: a call may fail, its answer may be lost, the process    *)
(* may die between two calls, and requests run side by side.               *)
(***************************************************************************)
EXTENDS Naturals, FiniteSets, FiniteSetsExt

CONSTANTS
  Tasks,       \* the plan's tasks: numbers, in the order of their ids
  Publishers,  \* concurrent requests to publish the plan's issues
  Deliverers,  \* concurrent requests to prepare or publish a pull request
  MaxBroken    \* bound: failed calls, lost answers and crashes

ASSUME TasksAssumption    == Tasks \subseteq Nat \ {0}
ASSUME RequestsAssumption == IsFiniteSet(Publishers) /\ MaxBroken \in Nat

VARIABLES
  plan,     \* the plan's status
  done,     \* completed tasks: each has an attempt with a reviewed commit
  issue,    \* status of each task's issue row
  hub,      \* how many issues at GitHub carry each task's marker
  pr,       \* status of each task's pull-request row
  branch,   \* tasks whose branch is at GitHub
  hubpr,    \* how far the pull request of each branch is made at GitHub
  pub, del, \* the requests
  broken

rows == <<plan, done, issue, pr>>
github == <<hub, branch, hubpr>>
deliveryVars == <<rows, github, pub, del, broken>>

NoTask  == 0
IdlePub == [pc |-> "idle", todo |-> {}]
IdleDel == [pc |-> "idle", task |-> NoTask]

DeliveryTypeOK ==
  /\ plan \in {"discussion", "approved", "running", "cancelled"}
  /\ done \subseteq Tasks /\ branch \subseteq Tasks
  /\ issue \in [Tasks -> {"none", "proposed", "published", "cancelled"}]
  /\ hub \in [Tasks -> Nat]
  /\ pr \in [Tasks -> {"none", "proposed", "published"}]
  /\ hubpr \in [Tasks -> {"none", "bare", "labelled", "complete"}]
  /\ pub \in [Publishers -> [pc : {"idle", "find", "post", "mark"}, todo : SUBSET Tasks]]
  /\ del \in [Deliverers -> [pc : {"idle", "draft", "push", "lookup", "open", "label",
                                   "review", "mark"}, task : Tasks \cup {NoTask}]]
  /\ broken \in 0..MaxBroken

DeliveryInit ==
  /\ plan = "discussion" /\ done = {} /\ branch = {} /\ broken = 0
  /\ issue = [t \in Tasks |-> "none"] /\ pr = [t \in Tasks |-> "none"]
  /\ hub = [t \in Tasks |-> 0] /\ hubpr = [t \in Tasks |-> "none"]
  /\ pub = [p \in Publishers |-> IdlePub] /\ del = [d \in Deliverers |-> IdleDel]

-----------------------------------------------------------------------------
(* The rest of the plan's life as far as delivery reads it.  The manager   *)
(* saves one proposal per task, some of them an existing source issue.     *)
PrepareIssues ==
  /\ plan = "discussion" /\ \A t \in Tasks : issue[t] = "none"
  /\ issue' \in [Tasks -> {"proposed", "published"}]
  /\ UNCHANGED <<plan, done, pr, github, pub, del, broken>>

Approve ==
  /\ plan = "discussion" /\ \A t \in Tasks : issue[t] # "none"
  /\ plan' = "approved" /\ UNCHANGED <<done, issue, pr, github, pub, del, broken>>

(* A next version of the plan cancels this one and its open proposals.     *)
Supersede ==
  /\ plan \in {"discussion", "approved"} /\ plan' = "cancelled"
  /\ issue' = [t \in Tasks |-> IF issue[t] = "proposed" THEN "cancelled" ELSE issue[t]]
  /\ UNCHANGED <<done, pr, github, pub, del, broken>>

StartRun ==
  /\ plan = "approved" /\ \A t \in Tasks : issue[t] = "published"
  /\ plan' = "running" /\ UNCHANGED <<done, issue, pr, github, pub, del, broken>>

CancelRun ==
  /\ plan = "running" /\ plan' = "cancelled"
  /\ UNCHANGED <<done, issue, pr, github, pub, del, broken>>

CompleteTask(t) ==
  /\ plan = "running" /\ t \notin done /\ done' = done \cup {t}
  /\ UNCHANGED <<plan, issue, pr, github, pub, del, broken>>

Breaks == broken < MaxBroken /\ broken' = broken + 1

-----------------------------------------------------------------------------
(* IssuePublisher.Publish reads the bundle once; then each proposal is     *)
(* looked up by its marker, opened when there is none, and marked.         *)
Go(p, pc) == pub' = [pub EXCEPT ![p].pc = pc]
Current(p) == Min(pub[p].todo)
PublishStops(p) == pub' = [pub EXCEPT ![p] = IdlePub]

(* validateIssuePublicationBundle *)
Publishable ==
  /\ plan = "approved"
  /\ \A t \in Tasks : issue[t] \in {"proposed", "published"}

BeginPublish(p) ==
  /\ pub[p] = IdlePub /\ Publishable
  /\ LET open == {t \in Tasks : issue[t] = "proposed"} IN
       /\ open # {} /\ pub' = [pub EXCEPT ![p] = [pc |-> "find", todo |-> open]]
  /\ UNCHANGED <<rows, github, del, broken>>

Blind(p) == "post"
AfterFind(p) == IF hub[Current(p)] > 0 THEN "mark" ELSE "post"

FindIssue(p) ==
  /\ pub[p].pc = "find" /\ Go(p, AfterFind(p))
  /\ UNCHANGED <<rows, github, del, broken>>

(* Labels and milestone are made first; the answer to POST may be lost.    *)
PostIssue(p) ==
  /\ pub[p].pc = "post"
  /\ hub' = [hub EXCEPT ![Current(p)] = @ + 1]
  /\ \/ Go(p, "mark") /\ UNCHANGED broken
     \/ PublishStops(p) /\ Breaks
  /\ UNCHANGED <<rows, branch, hubpr, del>>

Markable(t) == issue[t] \in {"proposed", "published"}

MarkIssue(p) ==
  LET t == Current(p)  rest == pub[p].todo \ {t} IN
  /\ pub[p].pc = "mark"
  /\ issue' = IF Markable(t) THEN [issue EXCEPT ![t] = "published"] ELSE issue
  /\ pub' = [pub EXCEPT ![p] = IF Markable(t) /\ rest # {}
                               THEN [pc |-> "find", todo |-> rest] ELSE IdlePub]
  /\ UNCHANGED <<plan, done, pr, github, del, broken>>

PublishFails(p) ==
  /\ pub[p] # IdlePub /\ PublishStops(p) /\ Breaks
  /\ UNCHANGED <<rows, github, del>>

-----------------------------------------------------------------------------
(* PullRequestManager.context: a completed task of the approved version,   *)
(* whose issue is published.  A plan whose task completed was approved and *)
(* keeps its approved fingerprint, also after its run was cancelled.       *)
Deliverable(t) == t \in done /\ issue[t] = "published"

Moved(r, to) == IF to = "idle" THEN IdleDel ELSE [r EXCEPT !.pc = to]

Moves(d, from, to) ==
  /\ del[d].pc = from
  /\ del' = [del EXCEPT ![d] = Moved(del[d], to)]

PreparePullRequest(d, t) ==
  /\ del[d] = IdleDel /\ Deliverable(t)
  /\ del' = [del EXCEPT ![d] = [pc |-> "draft", task |-> t]]
  /\ UNCHANGED <<rows, github, pub, broken>>

(* The first draft of a task stays: the insert keeps a row that is there.  *)
Overwritten(old) == "proposed"
KeptOrProposed(old) == IF old = "none" THEN "proposed" ELSE old

SavePullRequestProposal(d) ==
  /\ Moves(d, "draft", "idle")
  /\ pr' = [pr EXCEPT ![del[d].task] = KeptOrProposed(@)]
  /\ UNCHANGED <<plan, done, issue, github, pub, broken>>

Deliver(d, t) ==
  /\ del[d] = IdleDel /\ pr[t] = "proposed" /\ Deliverable(t)
  /\ del' = [del EXCEPT ![d] = [pc |-> "push", task |-> t]]
  /\ UNCHANGED <<rows, github, pub, broken>>

PublishBranch(d) ==
  /\ Moves(d, "push", "lookup") /\ branch' = branch \cup {del[d].task}
  /\ UNCHANGED <<rows, hub, hubpr, pub, broken>>

AfterPullRequestLookup(t) == IF hubpr[t] = "none" THEN "open" ELSE "label"

LookupPullRequest(d) ==
  /\ Moves(d, "lookup", AfterPullRequestLookup(del[d].task))
  /\ UNCHANGED <<rows, github, pub, broken>>

(* GitHub refuses a second pull request for a branch.                      *)
OpenPullRequest(d) ==
  LET t == del[d].task  fresh == hubpr[t] = "none" IN
  /\ del[d].pc = "open"
  /\ hubpr' = IF fresh THEN [hubpr EXCEPT ![t] = "bare"] ELSE hubpr
  /\ \/ Moves(d, "open", IF fresh THEN "label" ELSE "idle") /\ UNCHANGED broken
     \/ Moves(d, "open", "idle") /\ Breaks
  /\ UNCHANGED <<rows, hub, branch, pub>>

LabelPullRequest(d) ==
  /\ Moves(d, "label", "review")
  /\ hubpr' = [hubpr EXCEPT ![del[d].task] = IF @ = "bare" THEN "labelled" ELSE @]
  /\ UNCHANGED <<rows, hub, branch, pub, broken>>

RequestReviewers(d) ==
  /\ Moves(d, "review", "mark") /\ hubpr' = [hubpr EXCEPT ![del[d].task] = "complete"]
  /\ UNCHANGED <<rows, hub, branch, pub, broken>>

MarkPullRequest(d) ==
  /\ Moves(d, "mark", "idle") /\ pr' = [pr EXCEPT ![del[d].task] = "published"]
  /\ UNCHANGED <<plan, done, issue, github, pub, broken>>

DeliveryFails(d) ==
  /\ del[d] # IdleDel /\ del' = [del EXCEPT ![d] = IdleDel] /\ Breaks
  /\ UNCHANGED <<rows, github, pub>>

-----------------------------------------------------------------------------
DeliveryNext ==
  \/ PrepareIssues \/ Approve \/ Supersede \/ StartRun \/ CancelRun
  \/ \E t \in Tasks : CompleteTask(t)
  \/ \E p \in Publishers :
       BeginPublish(p) \/ FindIssue(p) \/ PostIssue(p) \/ MarkIssue(p) \/ PublishFails(p)
  \/ \E d \in Deliverers :
       \/ \E t \in Tasks : PreparePullRequest(d, t) \/ Deliver(d, t)
       \/ SavePullRequestProposal(d) \/ PublishBranch(d) \/ LookupPullRequest(d)
       \/ OpenPullRequest(d) \/ LabelPullRequest(d) \/ RequestReviewers(d)
       \/ MarkPullRequest(d) \/ DeliveryFails(d)

DeliverySpec == DeliveryInit /\ [][DeliveryNext]_deliveryVars

-----------------------------------------------------------------------------
(* A task gets no second issue however often publishing broke off and was  *)
(* asked for again, also after the answer to POST was lost (findIssue).    *)
(* Only requests that look for the marker side by side may each open one:  *)
(* nothing holds the plan between findIssue and POST.                      *)
OneIssuePerRequest == \A t \in Tasks : hub[t] <= Cardinality(Publishers)

(* A row says published only when the branch is at GitHub and its pull     *)
(* request has labels, milestone, assignees and reviewers, whichever of    *)
(* the calls failed in an earlier request (PublishPullRequest repeats them *)
(* for a pull request it finds).                                           *)
PublishedIsComplete ==
  \A t \in Tasks : pr[t] = "published" => hubpr[t] = "complete" /\ t \in branch

(* Only the reviewed work of a completed task leaves the machine.          *)
OnlyFinishedWork ==
  \A t \in Tasks : (t \in branch \/ hubpr[t] # "none") => t \in done /\ issue[t] = "published"

(* What GitHub holds of a plan is an issue of each task, once, and whole   *)
(* pull requests of reviewed work, over however many attempts.             *)
DeliveryIsExact == OneIssuePerRequest /\ PublishedIsComplete /\ OnlyFinishedWork

(* A publisher that read the plan before it was superseded does not bring  *)
(* a cancelled proposal back (MarkWorkItemPublished checks the status).    *)
CancelledStays == [][\A t \in Tasks : issue[t] = "cancelled" => issue'[t] = "cancelled"]_deliveryVars

(* A published pull request is not turned into a proposal again by a       *)
(* second Prepare whose agent worked meanwhile (ON CONFLICT).              *)
DeliveredStays == [][\A t \in Tasks : pr[t] = "published" => pr'[t] = "published"]_deliveryVars

(* Nothing that was decided while a request worked is undone by its answer.*)
ProposalsKeepDecisions == CancelledStays /\ DeliveredStays
=============================================================================
