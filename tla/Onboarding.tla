------------------------------ MODULE Onboarding ------------------------------
(***************************************************************************)
(* Onboarding of one repository: Prepare, Approve, Reject and Apply of     *)
(* internal/usecase/onboarding over the onboarding_run and approval rows,  *)
(* the Git worktree an approved proposal is written to, the push and the   *)
(* merge request at GitLab.  Apply is a sequence of steps over four stores *)
(* (database, worktree, remote, GitLab): each step may fail, its answer    *)
(* may be lost, the process may die, and a failed run is applied again.    *)
(*                                                                         *)
(* A run is named by the commit its proposal was made from (the proposal   *)
(* and its checksum are a function of the snapshot) and by dry_run.        *)
(***************************************************************************)
EXTENDS Naturals, FiniteSets

CONSTANTS
  Files,       \* paths the proposal creates or updates, all in write scope
  Foreign,     \* a path that is not part of the proposal
  GitLab,      \* TRUE when GitLab is configured for the project
  Workers,     \* concurrent Apply requests
  MaxCommits,  \* bound: commits made in the source checkout
  MaxMeddling, \* bound: edits of the source or the worktree by somebody else
  MaxFaults    \* bound: failed calls, lost answers and crashes

ASSUME FilesAssumption  == Foreign \notin Files
ASSUME BoundsAssumption == MaxCommits \in Nat /\ MaxMeddling \in Nat /\ MaxFaults \in Nat

VARIABLES
  head, dirty,  \* the source checkout
  snap,         \* latest discovery snapshot
  prep,         \* a Prepare whose generator is working
  row, approval,\* onboarding_run.status and its approval's status
  wt,           \* worktree and branch of each run: changed and committed paths
  remote,       \* what each run's branch holds at GitLab
  mr,           \* the merge request of each run
  worker,       \* the Apply requests
  meddled, faults

source == <<head, dirty, snap>>
vars == <<source, prep, row, approval, wt, remote, mr, worker, meddled, faults>>

Commits == 0..MaxCommits
Runs    == Commits \X BOOLEAN
Base(r)   == r[1]
DryRun(r) == r[2]
NoSnapshot == [commit |-> 0, dirty |-> TRUE]
NoRun   == <<MaxCommits + 1, TRUE>>
Idle    == [pc |-> "idle", run |-> NoRun]
NoBranch == [made |-> FALSE, tree |-> {}, commit |-> {}]
Paths   == Files \cup {Foreign}

TypeOK ==
  /\ head \in Commits /\ dirty \in BOOLEAN
  /\ snap \in [commit : Commits, dirty : BOOLEAN]
  /\ prep \in Runs \cup {NoRun}
  /\ row \in [Runs -> {"none", "proposal_ready", "awaiting_approval", "applying",
                       "merge_request_created", "completed", "failed", "cancelled"}]
  /\ approval \in [Runs -> {"none", "pending", "approved", "rejected"}]
  /\ wt \in [Runs -> [made : BOOLEAN, tree : SUBSET Paths, commit : SUBSET Paths]]
  /\ remote \in [Runs -> SUBSET Paths]
  /\ mr \in [Runs -> {"none", "opened", "closed"}]
  /\ worker \in [Workers -> [pc : {"idle", "begun", "write", "commit", "verify", "push",
                   "find", "create", "record", "complete", "fail"}, run : Runs \cup {NoRun}]]
  /\ meddled \in 0..MaxMeddling /\ faults \in 0..MaxFaults

Init ==
  /\ head = 0 /\ dirty = FALSE /\ snap = NoSnapshot /\ prep = NoRun
  /\ row = [r \in Runs |-> "none"] /\ approval = [r \in Runs |-> "none"]
  /\ wt = [r \in Runs |-> NoBranch] /\ remote = [r \in Runs |-> {}]
  /\ mr = [r \in Runs |-> "none"] /\ worker = [a \in Workers |-> Idle]
  /\ meddled = 0 /\ faults = 0

-----------------------------------------------------------------------------
(* The developer's checkout moves on; a scan stores what it sees.           *)
Meddle == meddled < MaxMeddling /\ meddled' = meddled + 1

SourceChanges ==
  /\ \/ head < MaxCommits /\ head' = head + 1 /\ dirty' = FALSE /\ Meddle
     \/ ~dirty /\ dirty' = TRUE /\ UNCHANGED head /\ Meddle
     \/ dirty /\ dirty' = FALSE /\ UNCHANGED <<head, meddled>>
  /\ UNCHANGED <<snap, prep, row, approval, wt, remote, mr, worker, faults>>

Scan ==
  /\ snap' = [commit |-> head, dirty |-> dirty]
  /\ UNCHANGED <<head, dirty, prep, row, approval, wt, remote, mr, worker, meddled, faults>>

(* Prepare.Handle: the snapshot must be clean and describe the checkout as  *)
(* it is now; then the generator works, and the run is created.             *)
Prepare(dry) ==
  /\ prep = NoRun
  /\ ~snap.dirty /\ ~dirty /\ head = snap.commit
  /\ prep' = <<snap.commit, dry>>
  /\ UNCHANGED <<source, row, approval, wt, remote, mr, worker, meddled, faults>>

(* CreateOrGet: the same proposal of the same snapshot is the same run, as  *)
(* far as it has got; a run that is no dry run gets its pending approval.   *)
Reopened(r) == IF DryRun(r) THEN "proposal_ready" ELSE "awaiting_approval"
Created(r) ==
  IF row[r] # "none" THEN row[r] ELSE Reopened(r)

CreateOrGet ==
  /\ prep # NoRun
  /\ row' = [row EXCEPT ![prep] = Created(prep)]
  /\ approval' = [approval EXCEPT ![prep] =
                    IF @ = "none" /\ ~DryRun(prep) THEN "pending" ELSE @]
  /\ prep' = NoRun
  /\ UNCHANGED <<source, wt, remote, mr, worker, meddled, faults>>

Decide(r, decision) ==
  /\ approval[r] = "pending"
  /\ approval' = [approval EXCEPT ![r] = decision]
  /\ row' = IF decision = "rejected" THEN [row EXCEPT ![r] = "cancelled"] ELSE row
  /\ UNCHANGED <<source, prep, wt, remote, mr, worker, meddled, faults>>

-----------------------------------------------------------------------------
(* BeginApply: exactly one request may hold a run in applying.              *)
Applicable(r) == row[r] \in {"awaiting_approval", "failed"}
Approved(r)   == approval[r] = "approved"

BeginApply(a, r) ==
  /\ worker[a] = Idle /\ Applicable(r) /\ Approved(r)
  /\ row' = [row EXCEPT ![r] = "applying"]
  /\ worker' = [worker EXCEPT ![a] = [pc |-> "begun", run |-> r]]
  /\ UNCHANGED <<source, prep, approval, wt, remote, mr, meddled, faults>>

At(a, pc)   == worker[a].pc = pc
Goto(a, pc) == worker' = [worker EXCEPT ![a].pc = pc]
R(a)        == worker[a].run

AnyPath(S)   == TRUE
Permitted(S) == S \subseteq Files

OnBase(r) == head = Base(r) /\ ~dirty

(* validate, then the worktree: reused, restored from its branch or made    *)
(* on the approved base; what its branch already holds must be approved.    *)
MakeWorktree(a) ==
  /\ At(a, "begun")
  /\ IF OnBase(R(a)) /\ Permitted(wt[R(a)].commit)
     THEN Goto(a, "write") /\ wt' = [wt EXCEPT ![R(a)].made = TRUE]
     ELSE Goto(a, "fail") /\ UNCHANGED wt
  /\ UNCHANGED <<source, prep, row, approval, remote, mr, meddled, faults>>

(* writeProposedFile installs one file after the other, each by a rename.   *)
(* A file the branch already holds is rewritten with the same content.      *)
Unwritten(r) == Files \ (wt[r].tree \cup wt[r].commit)

WriteProposedFile(a, f) ==
  /\ At(a, "write") /\ f \in Unwritten(R(a))
  /\ wt' = [wt EXCEPT ![R(a)].tree = @ \cup {f}]
  /\ UNCHANGED <<source, prep, row, approval, remote, mr, worker, meddled, faults>>

(* The scope of what changed is checked before staging and after it; an     *)
(* empty index means that an earlier attempt already committed.             *)
Committed(b) == [b EXCEPT !.commit = b.commit \cup b.tree, !.tree = {}]

CommitProposal(a) ==
  /\ At(a, "write") /\ Unwritten(R(a)) = {}
  /\ IF Permitted(wt[R(a)].tree)
     THEN /\ wt' = [wt EXCEPT ![R(a)] = Committed(wt[R(a)])]
          /\ Goto(a, "verify")
     ELSE Goto(a, "fail") /\ UNCHANGED wt
  /\ UNCHANGED <<source, prep, row, approval, remote, mr, meddled, faults>>

VerifySource(a) ==
  /\ At(a, "verify")
  /\ Goto(a, IF ~OnBase(R(a)) THEN "fail" ELSE IF GitLab THEN "push" ELSE "complete")
  /\ UNCHANGED <<source, prep, row, approval, wt, remote, mr, meddled, faults>>

-----------------------------------------------------------------------------
(* Publish: push the branch, look for an open merge request of the branch,  *)
(* create one when there is none.  GitLab refuses a second open one.        *)
PushBranch(a) ==
  /\ At(a, "push") /\ Goto(a, "find")
  /\ remote' = [remote EXCEPT ![R(a)] = wt[R(a)].commit]
  /\ UNCHANGED <<source, prep, row, approval, wt, mr, meddled, faults>>

AlwaysCreate(a) == "create"
AfterLookup(a)  == IF mr[R(a)] = "opened" THEN "record" ELSE "create"

FindMergeRequest(a) ==
  /\ At(a, "find") /\ Goto(a, AfterLookup(a))
  /\ UNCHANGED <<source, prep, row, approval, wt, remote, mr, meddled, faults>>

CreateMergeRequest(a) ==
  /\ At(a, "create")
  /\ IF mr[R(a)] = "opened"
     THEN Goto(a, "fail") /\ UNCHANGED mr
     ELSE Goto(a, "record") /\ mr' = [mr EXCEPT ![R(a)] = "opened"]
  /\ UNCHANGED <<source, prep, row, approval, wt, remote, meddled, faults>>

RecordPublication(a) ==
  /\ At(a, "record")
  /\ IF row[R(a)] \in {"applying", "merge_request_created"}
     THEN row' = [row EXCEPT ![R(a)] = "merge_request_created"] /\ Goto(a, "complete")
     ELSE Goto(a, "fail") /\ UNCHANGED row
  /\ UNCHANGED <<source, prep, approval, wt, remote, mr, meddled, faults>>

Complete(a) ==
  /\ At(a, "complete") /\ row' = [row EXCEPT ![R(a)] = "completed"]
  /\ worker' = [worker EXCEPT ![a] = Idle]
  /\ UNCHANGED <<source, prep, approval, wt, remote, mr, meddled, faults>>

Failed(r)   == [row EXCEPT ![r] = "failed"]

FailApply(a) ==
  /\ At(a, "fail") /\ row' = Failed(R(a))
  /\ worker' = [worker EXCEPT ![a] = Idle]
  /\ UNCHANGED <<source, prep, approval, wt, remote, mr, meddled, faults>>

Step(a) ==
  \/ MakeWorktree(a) \/ (\E f \in Files : WriteProposedFile(a, f)) \/ CommitProposal(a)
  \/ VerifySource(a) \/ PushBranch(a) \/ FindMergeRequest(a) \/ CreateMergeRequest(a)
  \/ RecordPublication(a) \/ Complete(a) \/ FailApply(a)

-----------------------------------------------------------------------------
Fault == faults < MaxFaults /\ faults' = faults + 1

(* A call fails before it has an effect, or has its effect and its answer   *)
(* is lost; either way Apply records the failure.  CompleteApply's error is *)
(* returned as it is.                                                       *)
AfterError(w) == IF w.pc = "complete" THEN Idle ELSE [w EXCEPT !.pc = "fail"]

CallFails(a) ==
  /\ Fault /\ ~At(a, "idle") /\ ~At(a, "fail")
  /\ worker' = [worker EXCEPT ![a] = AfterError(worker[a])]
  /\ UNCHANGED <<source, prep, row, approval, wt, remote, mr, meddled>>

AnswerLost(a) ==
  /\ Fault /\ At(a, "create") /\ mr[R(a)] # "opened"
  /\ mr' = [mr EXCEPT ![R(a)] = "opened"] /\ Goto(a, "fail")
  /\ UNCHANGED <<source, prep, row, approval, wt, remote, meddled>>

(* The process dies, or the request is cancelled, which fails FailApply too *)
Crash(a) ==
  /\ Fault /\ ~At(a, "idle") /\ worker' = [worker EXCEPT ![a] = Idle]
  /\ UNCHANGED <<source, prep, row, approval, wt, remote, mr, meddled>>

(* Somebody edits or commits to a run's worktree while it is not written to *)
TouchWorktree(r) ==
  /\ Meddle /\ wt[r].made /\ \A a \in Workers : R(a) # r
  /\ \/ wt' = [wt EXCEPT ![r].tree = @ \cup {Foreign}]
     \/ wt' = [wt EXCEPT ![r].commit = @ \cup {Foreign}]
  /\ UNCHANGED <<source, prep, row, approval, remote, mr, worker, faults>>

CloseMergeRequest(r) ==
  /\ Meddle /\ mr[r] = "opened" /\ mr' = [mr EXCEPT ![r] = "closed"]
  /\ UNCHANGED <<source, prep, row, approval, wt, remote, worker, faults>>

Next ==
  \/ SourceChanges \/ Scan \/ CreateOrGet
  \/ \E dry \in BOOLEAN : Prepare(dry)
  \/ \E r \in Runs : \/ Decide(r, "approved") \/ Decide(r, "rejected")
                     \/ TouchWorktree(r) \/ CloseMergeRequest(r)
  \/ \E a \in Workers : \/ Step(a) \/ CallFails(a) \/ AnswerLost(a) \/ Crash(a)
                        \/ \E r \in Runs : BeginApply(a, r)

(* A request goes on unless it dies; the owner applies a failed run again.  *)
Fairness ==
  /\ \A a \in Workers : WF_vars(Step(a))
  /\ \A r \in Runs : SF_vars(\E a \in Workers : BeginApply(a, r))

Spec == Init /\ [][Next]_vars /\ Fairness

-----------------------------------------------------------------------------
(* Whatever happened between the attempts, a branch that reaches GitLab     *)
(* holds the files of an approved proposal, all of them and nothing else.   *)
OnlyTheProposalIsPushed ==
  \A r \in Runs : remote[r] # {} => approval[r] = "approved" /\ remote[r] = Files

(* Two requests never work on the worktree and branch of one run at once.   *)
OneApplier ==
  \A a, b \in Workers : a # b /\ R(a) # NoRun => R(a) # R(b)

(* A run is completed only when its branch was pushed and GitLab had a      *)
(* merge request of it, also when that took several attempts.               *)
CompletedIsPublished ==
  \A r \in Runs : row[r] = "completed" /\ GitLab =>
                     remote[r] = wt[r].commit \ {Foreign} /\ mr[r] # "none"

(* Applying publishes the approved proposal, one request at a time, and    *)
(* says so only when it is done, over however many attempts.               *)
ApplyIsExact == TypeOK /\ OnlyTheProposalIsPushed /\ OneApplier /\ CompletedIsPublished

(* A failed attempt does not lose an approved proposal: applied again it    *)
(* gets completed, unless the base has moved, the worktree was touched or   *)
(* a request died holding the run.                                          *)
FailedIsApplied ==
  \A r \in Runs :
    (row[r] = "failed" /\ approval[r] = "approved")
      ~> (row[r] \in {"completed", "merge_request_created", "applying"} /\ \A a \in Workers : R(a) # r)
         \/ ~OnBase(r) \/ Foreign \in wt[r].tree \cup wt[r].commit
===============================================================================
