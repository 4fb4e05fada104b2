---------------------------- MODULE TaskExecution ----------------------------
(***************************************************************************)
(* The execution of one task: Service.Execute (internal/execution) with    *)
(* the task, task_attempt and task_review rows it writes, the worktree its *)
(* coder edits and the Temporal activity that delivers it, again and again *)
(* until it answers or its attempts are spent.                             *)
(*                                                                         *)
(* Execution e is the e-th ExecutePlanTask activity of the task and owns   *)
(* attempt row e (workflow_id).  A worker is one delivery of it.  What a   *)
(* worker knows is lost with it; rows and worktree stay.                   *)
(***************************************************************************)
EXTENDS Naturals, FiniteSets

CONSTANTS
  Files,          \* the files the coder may change
  Workers,        \* deliveries that can run at once
  MaxAttempts,    \* Service.MaxTaskAttempts
  MaxReviews,     \* Service.MaxReviewAttempts
  MaxDeliveries,  \* the retry policy of the activity
  MaxFaults       \* bound: lost deliveries and missed heartbeats

ASSUME ExecutionAssumption ==
  /\ IsFiniteSet(Files) /\ Files # {} /\ IsFiniteSet(Workers) /\ Workers # {}
  /\ MaxAttempts \in 1..8 /\ MaxReviews \in 1..2 /\ MaxDeliveries \in Nat \ {0}
  /\ MaxFaults \in Nat

VARIABLES
  task,      \* task.status
  att,       \* task_attempt row of every execution
  review,    \* task_review rows of every attempt
  threads,   \* agent threads started so far; their ids are 1..threads
  tree,      \* version of every file in the worktree, 0 is the planned base
  head,      \* version of every file in the HEAD of the task branch
  written,     \* versions written so far
  cur,       \* the current execution
  job,       \* its activity: queued, running or done
  tries,     \* deliveries of the activity
  outcome,   \* what it answered
  w,         \* what every worker knows
  approved,  \* ghost: the content the last approving reviewer looked at
  accepted,  \* ghost: what approving reviewers ever looked at, file by file
  missed,    \* ghost: did a delivery that missed its heartbeat go on?
  faults

taskRows     == <<task, att, review>>
worktree == <<tree, head, written>>
activity == <<cur, job, tries, outcome>>
ghosts   == <<approved, accepted, missed>>
vars     == <<taskRows, threads, worktree, activity, w, ghosts, faults>>

-----------------------------------------------------------------------------
Executions == 1..MaxAttempts
ReviewNumbers == 1..(MaxReviews + 1)
Outcomes   == {"completed", "failed", "blocked", "changes_requested", "error"}
AttemptStatuses == {"none", "running", "verification", "review", "changes_requested",
                    "blocked", "completed", "failed"}
TaskStatuses == {"ready", "running", "verification", "changes_requested", "blocked",
                 "completed", "failed"}
Finished == {"completed", "failed", "blocked"}

NoAttempt == [status |-> "none", thread |-> 0, reviews |-> 0]
NoReview  == [status |-> "none", thread |-> 0]

(* A worker is where it is in Execute, in which execution, with the locals *)
(* threadID, replaceThreadID, nextReview, state.ChangedFiles, the reviewer *)
(* thread and the outcome it is about to persist or return.                *)
Points == {"idle", "coder", "coding", "check", "verify", "review", "reviewing",
           "changes", "commit", "gate", "complete", "fail", "report"}
NoDelivery == [at |-> "idle", ex |-> 0, live |-> FALSE, thread |-> 0, replace |-> 0,
         next |-> 1, seen |-> {}, reviewer |-> 0, to |-> "error"]

Content == [Files -> Nat]
(* Rows and deliveries when n threads have started.                        *)
AttemptRow(n) == [status : AttemptStatuses, thread : 0..n, reviews : {0} \cup ReviewNumbers]
ReviewRow(n)  == [status : {"none", "running", "approved", "changes_requested"}, thread : 0..n]
Delivery(n)   == [at : Points, ex : 0..MaxAttempts, live : BOOLEAN, thread : 0..n,
                  replace : 0..n, next : ReviewNumbers, seen : SUBSET Files,
                  reviewer : 0..n, to : Outcomes]

TypeOK ==
  /\ task \in TaskStatuses
  /\ att \in [Executions -> AttemptRow(threads)]
  /\ review \in [Executions -> [ReviewNumbers -> ReviewRow(threads)]]
  /\ threads \in Nat /\ written \in Nat /\ faults \in Nat
  /\ tree \in Content /\ head \in Content /\ approved \in Content
  /\ accepted \subseteq Files \X Nat /\ missed \in BOOLEAN
  /\ cur \in Executions /\ job \in {"queued", "running", "done"}
  /\ tries \in 0..MaxDeliveries /\ outcome \in Outcomes \cup {"none"}
  /\ w \in [Workers -> Delivery(threads)]

Init ==
  /\ task = "ready" /\ att = [e \in Executions |-> NoAttempt]
  /\ review = [e \in Executions |-> [n \in ReviewNumbers |-> NoReview]]
  /\ threads = 0 /\ written = 0 /\ faults = 0
  /\ tree = [f \in Files |-> 0] /\ head = tree /\ approved = tree /\ accepted = {} /\ missed = FALSE
  /\ cur = 1 /\ job = "queued" /\ tries = 0 /\ outcome = "none"
  /\ w = [k \in Workers |-> NoDelivery]

-----------------------------------------------------------------------------
(* Steps of a worker. *)
Attempt(k)  == att[w[k].ex]
Goto(k, at) == w' = [w EXCEPT ![k].at = at]
FailWith(k, to) == w' = [w EXCEPT ![k] = [@ EXCEPT !.at = "fail", !.to = to]]
ReturnError(k)  == w' = [w EXCEPT ![k] = [@ EXCEPT !.at = "report", !.to = "error"]]

SetStatus(e, s) == att' = [att EXCEPT ![e].status = s]

(* A new attempt resumes the thread of the last attempt that was blocked or *)
(* sent back.                                                              *)
Resumable == {e \in Executions : /\ att[e].thread # 0
                                 /\ att[e].status \in {"blocked", "changes_requested"}}
PreviousThread == IF Resumable = {} THEN 0
                  ELSE att[CHOOSE e \in Resumable : \A o \in Resumable : o <= e].thread

Start(k, thread, reviews) ==
  w' = [w EXCEPT ![k] = [NoDelivery EXCEPT !.at = "coder", !.ex = cur, !.live = TRUE,
                                     !.thread = thread, !.next = reviews + 1]]
Return(k, to) ==
  w' = [w EXCEPT ![k] = [NoDelivery EXCEPT !.at = "report", !.ex = cur, !.live = TRUE, !.to = to]]

(* terminalAttemptOutcome: a repeated delivery returns what was persisted. *)
RepeatsCompleted == att[cur].status = "completed"
Repeats == att[cur].status \in Finished

BlockedIsFailed  == IF att[cur].status = "blocked" THEN "failed" ELSE att[cur].status
PersistedOutcome == att[cur].status

AttemptCount == Cardinality({e \in Executions : att[e].status # "none"})

BeginAttempt(k) ==
  /\ job = "queued" /\ w[k].at = "idle"
  /\ job' = "running" /\ tries' = tries + 1
  /\ \/ /\ Repeats
        /\ Return(k, PersistedOutcome) /\ UNCHANGED <<task, att>>
     \/ /\ ~Repeats /\ att[cur].status # "none"
        /\ Start(k, att[cur].thread, att[cur].reviews) /\ UNCHANGED <<task, att>>
     \/ /\ att[cur].status = "none"
        /\ task = "completed" \/ AttemptCount >= MaxAttempts
        /\ Return(k, "error") /\ UNCHANGED <<task, att>>
     \/ /\ att[cur].status = "none"
        /\ task # "completed" /\ AttemptCount < MaxAttempts
        /\ att' = [att EXCEPT ![cur] = [status |-> "running", thread |-> PreviousThread,
                                        reviews |-> 0]]
        /\ task' = "running" /\ Start(k, PreviousThread, 0)
  /\ UNCHANGED <<review, threads, worktree, cur, outcome, ghosts, faults>>

(* The runner reports its thread before anything else; the callback stores *)
(* it with AttachAgentThread or ReplaceAgentThread.                        *)
ThreadStorable(k, id) == LET row == Attempt(k) IN
  IF w[k].replace = 0 THEN row.thread \in {0, id}
  ELSE row.thread = w[k].replace /\ row.status = "changes_requested"

StartCoder(k) ==
  /\ w[k].at = "coder"
  /\ \E id \in 1..(threads + 1) :
       /\ id = IF w[k].thread = 0 THEN threads + 1 ELSE w[k].thread
       /\ threads' = IF id > threads THEN id ELSE threads
       /\ \/ /\ ThreadStorable(k, id)
             /\ att' = [att EXCEPT ![w[k].ex].thread = id]
             /\ w' = [w EXCEPT ![k] = [@ EXCEPT !.at = "coding", !.thread = id, !.replace = 0]]
          \/ /\ ~ThreadStorable(k, id)
             /\ FailWith(k, "failed") /\ UNCHANGED att
  /\ UNCHANGED <<task, review, worktree, activity, ghosts, faults>>

(* The coder changes any of its files, takes others back to the base, and  *)
(* answers, or does not.                                                   *)
CoderResult(k) ==
  /\ w[k].at = "coding"
  /\ \E changed, reverted \in SUBSET Files :
        /\ changed \cap reverted = {}
        /\ tree' = [f \in Files |-> IF f \in changed THEN written + 1
                                   ELSE IF f \in reverted THEN 0 ELSE tree[f]]
        /\ written' = IF changed = {} THEN written ELSE written + 1
  /\ \/ Goto(k, "check")
     \/ \E to \in {"failed", "blocked", "changes_requested"} : FailWith(k, to)
  /\ UNCHANGED <<taskRows, threads, head, activity, ghosts, faults>>

(* SetAttemptStatus; its guard lets a blocked attempt be reopened.         *)
Open(k) == Attempt(k).status \notin {"completed", "failed"}

BeginVerification(k) ==
  /\ w[k].at = "check"
  /\ \/ Open(k) /\ SetStatus(w[k].ex, "verification") /\ task' = "verification"
                /\ Goto(k, "verify")
     \/ ~Open(k) /\ ReturnError(k) /\ UNCHANGED <<task, att>>
  /\ UNCHANGED <<review, threads, worktree, activity, ghosts, faults>>

Changed == {f \in Files : tree[f] # 0}

AnyReview(k) == TRUE
ReviewLeft(k) == w[k].next <= MaxReviews

Verify(k) ==
  /\ w[k].at = "verify"
  /\ \/ FailWith(k, "changes_requested")
     \/ /\ Changed # {} /\ ReviewLeft(k)
        /\ w' = [w EXCEPT ![k] = [@ EXCEPT !.at = "review", !.seen = Changed]]
  /\ UNCHANGED <<taskRows, threads, worktree, activity, ghosts, faults>>

(* The reviewer's thread opens review `next' of the attempt.               *)
Opened(e, n) == IF att[e].reviews < n THEN n ELSE att[e].reviews

BeginReview(k) ==
  /\ w[k].at = "review"
  /\ threads' = threads + 1
  /\ LET e == w[k].ex  n == w[k].next IN
     \/ /\ review[e][n].status = "none"
        /\ review' = [review EXCEPT ![e][n] = [status |-> "running", thread |-> threads']]
        /\ att' = [att EXCEPT ![e] = [@ EXCEPT !.status = "review", !.reviews = Opened(e, n)]]
        /\ w' = [w EXCEPT ![k] = [@ EXCEPT !.at = "reviewing", !.reviewer = threads']]
     \/ /\ review[e][n].status # "none"
        /\ FailWith(k, "failed") /\ UNCHANGED <<att, review>>
  /\ UNCHANGED <<task, worktree, activity, ghosts, faults>>

CreateReview(k) ==
  /\ w[k].at = "reviewing"
  /\ LET e == w[k].ex  n == w[k].next IN
     \E verdict \in {"approved", "changes_requested"} :
        /\ review' = [review EXCEPT ![e][n].status = verdict]
        /\ SetStatus(e, "review")
        /\ \/ /\ verdict = "approved" /\ Goto(k, "commit")
              /\ approved' = tree /\ accepted' = accepted \cup {<<f, tree[f]>> : f \in Files}
           \/ /\ verdict = "changes_requested" /\ Goto(k, "changes")
              /\ UNCHANGED <<approved, accepted>>
  /\ UNCHANGED <<task, threads, worktree, activity, missed, faults>>

(* The runner failed or its answer is invalid, before or after its thread. *)
AgentFails(k) ==
  /\ w[k].at \in {"coder", "review", "reviewing"}
  /\ FailWith(k, "failed")
  /\ UNCHANGED <<taskRows, threads, worktree, activity, ghosts, faults>>

(* Requested changes: a revision in a new coder thread, or the owner.      *)
CommitAnyway(k) == Goto(k, "commit")
AskOwner(k) == FailWith(k, "changes_requested")

Revise(k) ==
  /\ w[k].at = "changes"
  /\ \/ w[k].next >= MaxReviews /\ AskOwner(k) /\ UNCHANGED <<task, att>>
     \/ /\ w[k].next < MaxReviews /\ Open(k)
        /\ SetStatus(w[k].ex, "changes_requested") /\ task' = "changes_requested"
        /\ w' = [w EXCEPT ![k] = [@ EXCEPT !.at = "coder", !.replace = w[k].thread,
                                           !.thread = 0, !.next = w[k].next + 1]]
     \/ w[k].next < MaxReviews /\ ~Open(k) /\ ReturnError(k) /\ UNCHANGED <<task, att>>
  /\ UNCHANGED <<review, threads, worktree, activity, ghosts, faults>>

(* TaskWorktree.Commit: the changed paths are those verified, and each of  *)
(* them differs from HEAD and is staged; a clean worktree over an earlier  *)
(* commit is that commit.                                                  *)
Unstaged == {f \in Files : tree[f] # head[f]}
CanCommit(k) == Changed = w[k].seen /\ (Unstaged = {} \/ w[k].seen \subseteq Unstaged)
Staged(k) == [f \in Files |-> IF f \in w[k].seen THEN tree[f] ELSE head[f]]

Commit(k) ==
  /\ w[k].at = "commit"
  /\ \/ CanCommit(k) /\ head' = Staged(k) /\ Goto(k, "gate")
     \/ ~CanCommit(k) /\ ReturnError(k) /\ UNCHANGED head
  /\ UNCHANGED <<taskRows, threads, tree, written, activity, ghosts, faults>>

(* The Testing Policy gate, then CompleteAttempt or FailAttempt.           *)
TestingPolicy(k) ==
  /\ w[k].at = "gate"
  /\ Goto(k, "complete") \/ FailWith(k, "blocked")
  /\ UNCHANGED <<taskRows, threads, worktree, activity, ghosts, faults>>

CompleteAttempt(k) ==
  /\ w[k].at = "complete"
  /\ \/ /\ Attempt(k).status # "failed"
        /\ SetStatus(w[k].ex, "completed") /\ task' = "completed"
        /\ w' = [w EXCEPT ![k] = [@ EXCEPT !.at = "report", !.to = "completed"]]
     \/ Attempt(k).status = "failed" /\ ReturnError(k) /\ UNCHANGED <<task, att>>
  /\ UNCHANGED <<review, threads, worktree, activity, ghosts, faults>>

FailAttempt(k) ==
  /\ w[k].at = "fail"
  /\ SetStatus(w[k].ex, w[k].to) /\ task' = w[k].to
  /\ Goto(k, "report")
  /\ UNCHANGED <<review, threads, worktree, activity, ghosts, faults>>

-----------------------------------------------------------------------------
(* The activity.  An error or a lost delivery is retried while deliveries   *)
(* are left; a delivery that is no longer the current one is not heard.     *)
RedeliverSilently ==
  /\ job' = IF tries < MaxDeliveries THEN "queued" ELSE "running"
  /\ UNCHANGED outcome
Redeliver ==
  /\ job' = IF tries < MaxDeliveries THEN "queued" ELSE "done"
  /\ outcome' = IF tries < MaxDeliveries THEN outcome ELSE "error"

ReportBack(k) ==
  /\ w[k].at = "report"
  /\ w' = [w EXCEPT ![k] = NoDelivery]
  /\ \/ ~w[k].live /\ UNCHANGED <<job, outcome>>
     \/ w[k].live /\ w[k].to = "error" /\ Redeliver
     \/ w[k].live /\ w[k].to # "error" /\ job' = "done" /\ outcome' = w[k].to
  /\ UNCHANGED <<taskRows, threads, worktree, cur, tries, ghosts, faults>>

(* The worker died, or a call it made failed and Execute returned.         *)
LoseDelivery(k) ==
  /\ w[k].live /\ faults < MaxFaults /\ faults' = faults + 1
  /\ w' = [w EXCEPT ![k] = NoDelivery] /\ Redeliver
  /\ UNCHANGED <<taskRows, threads, worktree, cur, tries, ghosts>>

(* The worker missed its heartbeats but is still running.                  *)
MissHeartbeat(k) ==
  /\ w[k].live /\ faults < MaxFaults /\ faults' = faults + 1
  /\ w' = [w EXCEPT ![k].live = FALSE] /\ Redeliver /\ missed' = TRUE
  /\ UNCHANGED <<taskRows, threads, worktree, cur, tries, approved, accepted>>

(* What the scheduler does with an answer: RecordTaskResult of an error,   *)
(* ResetTaskForRetry and the next execution when the owner retries.        *)
RecordError ==
  /\ job = "done" /\ outcome = "error" /\ task \notin {"completed", "failed"}
  /\ task' = "failed"
  /\ UNCHANGED <<att, review, threads, worktree, activity, w, ghosts, faults>>

RetryTask ==
  /\ job = "done" /\ outcome \in {"blocked", "changes_requested"}
  /\ task \in {"failed", "blocked", "changes_requested"} /\ AttemptCount < MaxAttempts
  /\ task' = "ready" /\ cur' = cur + 1 /\ job' = "queued" /\ tries' = 0 /\ outcome' = "none"
  /\ UNCHANGED <<att, review, threads, worktree, w, ghosts, faults>>

Execute(k) == \/ BeginAttempt(k) \/ StartCoder(k) \/ CoderResult(k) \/ BeginVerification(k)
              \/ Verify(k) \/ BeginReview(k) \/ CreateReview(k) \/ AgentFails(k)
              \/ Revise(k) \/ Commit(k) \/ TestingPolicy(k) \/ CompleteAttempt(k)
              \/ FailAttempt(k) \/ ReportBack(k)

Next == \/ \E k \in Workers : Execute(k) \/ LoseDelivery(k)
        \/ RecordError \/ RetryTask

Spec == Init /\ [][Next]_vars

(* As Next, with deliveries that go on next to their successors (bound to  *)
(* MaxFaults like lost deliveries).                                        *)
OverlapNext == Next \/ \E k \in Workers : MissHeartbeat(k)
OverlapSpec == Init /\ [][OverlapNext]_vars

-----------------------------------------------------------------------------
(* What a completed task has changed on its branch is what reviewers who   *)
(* approved it looked at, and every file its last reviewer saw changed is  *)
(* there as he saw it, however often coder, verifier and commit were       *)
(* repeated.                                                               *)
CommitWasReviewed ==
  task = "completed" =>
    \A f \in Files : /\ head[f] # 0 => <<f, head[f]>> \in accepted
                     /\ approved[f] # 0 => head[f] = approved[f]

(* What the activity answered is what the rows say: a repeated delivery    *)
(* never answers differently from the outcome an earlier one persisted.    *)
OutcomeIsDurable ==
  job = "done" /\ outcome # "error" => att[cur].status = outcome /\ task = outcome

(* The review budget survives crashes: reviews are opened one by one, at   *)
(* most MaxReviews of an attempt, and none is opened twice.                *)
ReviewBudget ==
  \A e \in Executions :
     /\ att[e].reviews <= MaxReviews
     /\ \A n \in ReviewNumbers : review[e][n].status # "none" <=> n <= att[e].reviews

(* Attempt, review and task rows tell what happened, although no delivery  *)
(* knows what an earlier one did except from them.                         *)
RowsTellOutcomes == TypeOK /\ OutcomeIsDurable /\ ReviewBudget

(* "A separate read-only reviewer thread must approve the actual worktree  *)
(* before the worker commits" (README.md): the commit is that worktree.    *)
ApprovedIsCommitted == task = "completed" => head = approved

(* The scheduler relies on ExecutorContract only. *)
Progress == IF job = "done" THEN outcome
            ELSE IF att[cur].status = "none" THEN "scheduled"
            ELSE IF att[cur].status \in Finished THEN att[cur].status
            ELSE "working"
Contract == INSTANCE ExecutorContract WITH attempts <- AttemptCount, exec <- Progress
ContractKept == Contract!Spec
=============================================================================
