---------------------------- MODULE PublicationProofs ----------------------------
(***************************************************************************)
(* What reaches the Git hosts, proved: onboarding at GitLab and the issues *)
(* and pull requests of a plan at GitHub, for every number of files, runs, *)
(* tasks, requests, edits by others, failed calls and lost answers.        *)
(***************************************************************************)
EXTENDS Onboarding, Delivery, TLAPS, WellFoundedInduction, FiniteSetTheorems

-----------------------------------------------------------------------------
(***************************************************************************)
(* Onboarding.                                                             *)
(*                                                                         *)
(* Each request knows what its attempt has done only through the stores it *)
(* wrote to, so the invariant says, for each point of Apply, what must     *)
(* hold of them; that nobody else writes to them meanwhile is because a    *)
(* run in applying is held by one request, and because a branch a request  *)
(* resumes is checked again, whatever an earlier attempt or a person left. *)
(***************************************************************************)

Rows      == {"none", "proposal_ready", "awaiting_approval", "applying",
              "merge_request_created", "completed", "failed", "cancelled"}
Approvals == {"none", "pending", "approved", "rejected"}
Branches  == [made : BOOLEAN, tree : SUBSET Paths, commit : SUBSET Paths]
Points    == {"begun", "write", "commit", "verify", "push", "find", "create", "record",
              "complete", "fail"}
Requests  == [pc : Points \cup {"idle"}, run : Runs \cup {NoRun}]

(* A request that works on a run holds it: the run is approved, in         *)
(* applying, and nobody begins it again.                                   *)
Held(r) ==
  r \in Runs /\ approval[r] = "approved" /\ row[r] \in {"applying", "merge_request_created"}
RunsAreHeld ==
  \A a \in Workers : worker[a] = Idle \/ (worker[a].pc \in Points /\ Held(R(a)))

(* What an attempt has done when it is at a point.                         *)
Whole(r) == wt[r].commit = Files
WorkIsDone ==
  \A a \in Workers :
    /\ At(a, "write") => Permitted(wt[R(a)].commit)
    /\ worker[a].pc \in {"verify", "push", "find", "create", "record", "complete"} => Whole(R(a))
    /\ worker[a].pc \in {"find", "create", "record"} => remote[R(a)] = Files
    /\ At(a, "complete") /\ GitLab => remote[R(a)] = Files /\ mr[R(a)] # "none"
    /\ At(a, "record") => mr[R(a)] # "none"

(* What a completed run leaves; its branch may be committed to afterwards. *)
CompletedIsWhole ==
  \A r \in Runs : row[r] = "completed" /\ GitLab =>
    remote[r] = Files /\ Files \subseteq wt[r].commit /\ mr[r] # "none"

ApplyInv == /\ TypeOK /\ RunsAreHeld /\ OneApplier /\ WorkIsDone
            /\ OnlyTheProposalIsPushed /\ CompletedIsWhole

-----------------------------------------------------------------------------
(* The mark of no run is no run.                                           *)
LEMMA NoRunIsNone == NoRun \notin Runs
  BY BoundsAssumption DEF NoRun, Runs, Commits

(* Nothing is proposed at first.                                           *)
LEMMA InitApply == Init => ApplyInv
<1> SUFFICES ASSUME Init PROVE ApplyInv
  OBVIOUS
<1>1. TypeOK
  <2>1. head \in Commits /\ NoSnapshot \in [commit : Commits, dirty : BOOLEAN]
        /\ 0 \in 0..MaxMeddling /\ 0 \in 0..MaxFaults
    BY BoundsAssumption DEF Init, NoSnapshot, Commits
  <2>2. NoBranch \in Branches /\ Idle \in Requests
    BY DEF NoBranch, Branches, Idle, Requests
  <2>. QED BY <2>1, <2>2 DEF Init, TypeOK, Branches, Requests, Points
<1>2. \A a \in Workers : worker[a] = Idle /\ R(a) = NoRun /\ worker[a].pc = "idle"
  BY DEF Init, Idle, R
<1>3. RunsAreHeld /\ OneApplier /\ WorkIsDone
  BY <1>2 DEF RunsAreHeld, OneApplier, WorkIsDone, At
<1>4. OnlyTheProposalIsPushed /\ CompletedIsWhole
  BY DEF Init, OnlyTheProposalIsPushed, CompletedIsWhole
<1>. QED BY <1>1, <1>3, <1>4 DEF ApplyInv

(* The types of the parts, as the steps use them.                          *)
LEMMA ApplyTypes ==
  ASSUME TypeOK
  PROVE  /\ row \in [Runs -> Rows] /\ approval \in [Runs -> Approvals]
         /\ wt \in [Runs -> Branches] /\ remote \in [Runs -> SUBSET Paths]
         /\ mr \in [Runs -> {"none", "opened", "closed"}] /\ worker \in [Workers -> Requests]
  BY DEF TypeOK, Rows, Approvals, Branches, Requests, Points

-----------------------------------------------------------------------------
(* Steps of others than the requests write no run that a request holds.    *)
LEMMA OthersStep ==
  ASSUME ApplyInv,
         \/ SourceChanges \/ Scan \/ CreateOrGet
         \/ \E dry \in BOOLEAN : Prepare(dry)
         \/ \E r \in Runs : \/ Decide(r, "approved") \/ Decide(r, "rejected")
                            \/ TouchWorktree(r) \/ CloseMergeRequest(r)
  PROVE  ApplyInv'
<1> USE DEF ApplyInv, RunsAreHeld, OneApplier, WorkIsDone, OnlyTheProposalIsPushed,
            CompletedIsWhole, Held, Whole, At, R, source
<1>1. CASE SourceChanges
  <2>1. head' \in Commits /\ dirty' \in BOOLEAN /\ meddled' \in 0..MaxMeddling
    <3>1. head \in Nat /\ meddled \in Nat /\ head <= MaxCommits /\ meddled <= MaxMeddling
          /\ dirty \in BOOLEAN
      BY BoundsAssumption DEF TypeOK, Commits
    <3>2. head' = head \/ (head < MaxCommits /\ head' = head + 1)
      BY <1>1 DEF SourceChanges
    <3>3. meddled' = meddled \/ (meddled < MaxMeddling /\ meddled' = meddled + 1)
      BY <1>1 DEF SourceChanges, Meddle
    <3>4. dirty' \in BOOLEAN
      BY <1>1 DEF SourceChanges
    <3>. QED BY <3>1, <3>2, <3>3, <3>4, BoundsAssumption DEF Commits
  <2>2. UNCHANGED <<snap, prep, row, approval, wt, remote, mr, worker, faults>>
    BY <1>1 DEF SourceChanges
  <2>. QED BY <2>1, <2>2 DEF TypeOK
<1>2. CASE Scan
  BY <1>2 DEF Scan, TypeOK
<1>3. CASE CreateOrGet
  <2>1. TypeOK'
    BY <1>3 DEF CreateOrGet, Created, Reopened, TypeOK
  <2>2. \A r \in Runs : row'[r] = row[r] \/ (row[r] = "none" /\ row'[r] # "completed")
    <3>1. prep \in Runs /\ row' = [row EXCEPT ![prep] = Created(prep)]
      BY <1>3 DEF CreateOrGet, TypeOK
    <3>2. Created(prep) = row[prep] \/ (row[prep] = "none" /\ Created(prep) # "completed")
      <4>1. Reopened(prep) = "proposal_ready" \/ Reopened(prep) = "awaiting_approval"
        BY DEF Reopened
      <4>. QED BY <4>1 DEF Created
    <3>3. \A r \in Runs : row'[r] = IF r = prep THEN Created(prep) ELSE row[r]
      BY <3>1, ApplyTypes
    <3>. QED BY <3>2, <3>3
  <2>3. \A r \in Runs : approval'[r] = approval[r] \/ approval[r] = "none"
    BY <1>3, ApplyTypes DEF CreateOrGet
  <2>. QED BY <1>3, <2>1, <2>2, <2>3 DEF CreateOrGet
<1>4. ASSUME NEW dry \in BOOLEAN, Prepare(dry) PROVE ApplyInv'
  <2>1. snap.commit \in Commits /\ <<snap.commit, dry>> \in Runs
    BY <1>4 DEF TypeOK, Runs
  <2>2. /\ prep' = <<snap.commit, dry>>
        /\ UNCHANGED <<source, row, approval, wt, remote, mr, worker, meddled, faults>>
    BY <1>4 DEF Prepare
  <2>3. TypeOK'
    BY <2>1, <2>2 DEF TypeOK
  <2>. QED BY <2>2, <2>3
<1>5. ASSUME NEW r \in Runs, Decide(r, "approved") \/ Decide(r, "rejected") PROVE ApplyInv'
  <2>1. TypeOK'
    <3>1. PICK d \in {"approved", "rejected"} : Decide(r, d)
      BY <1>5
    <3>2. approval' \in [Runs -> {"none", "pending", "approved", "rejected"}]
      BY <3>1 DEF Decide, TypeOK
    <3>3. row' = row \/ row' = [row EXCEPT ![r] = "cancelled"]
      BY <3>1 DEF Decide
    <3>4. row' \in [Runs -> {"none", "proposal_ready", "awaiting_approval", "applying",
                             "merge_request_created", "completed", "failed", "cancelled"}]
      BY <3>3 DEF TypeOK
    <3>5. UNCHANGED <<source, prep, wt, remote, mr, worker, meddled, faults>>
      BY <3>1 DEF Decide
    <3>. QED BY <3>2, <3>4, <3>5 DEF TypeOK
  <2>2. \A q \in Runs : approval[q] = "approved" => approval'[q] = "approved" /\ row'[q] = row[q]
    BY <1>5, ApplyTypes DEF Decide
  <2>3. \A q \in Runs : row'[q] = row[q] \/ row'[q] = "cancelled"
    BY <1>5, ApplyTypes DEF Decide
  <2>. QED BY <1>5, <2>1, <2>2, <2>3 DEF Decide
<1>6. ASSUME NEW r \in Runs, TouchWorktree(r) PROVE ApplyInv'
  <2>0. PICK b \in Branches : wt' = [wt EXCEPT ![r] = b] /\ wt[r].commit \subseteq b.commit
    <3>1. wt[r] \in Branches /\ Foreign \in Paths
      BY ApplyTypes DEF Paths
    <3>2. CASE wt' = [wt EXCEPT ![r].tree = @ \cup {Foreign}]
      <4> DEFINE b == [wt[r] EXCEPT !.tree = wt[r].tree \cup {Foreign}]
      <4>1. b \in Branches /\ wt[r].commit \subseteq b.commit
        BY <3>1 DEF Branches
      <4>2. wt' = [wt EXCEPT ![r] = b]
        BY <3>2
      <4>. QED BY <4>1, <4>2
    <3>3. CASE wt' = [wt EXCEPT ![r].commit = @ \cup {Foreign}]
      <4> DEFINE b == [wt[r] EXCEPT !.commit = wt[r].commit \cup {Foreign}]
      <4>1. b \in Branches /\ wt[r].commit \subseteq b.commit
        BY <3>1 DEF Branches
      <4>2. wt' = [wt EXCEPT ![r] = b]
        BY <3>3
      <4>. QED BY <4>1, <4>2
    <3>. QED BY <1>6, <3>2, <3>3 DEF TouchWorktree
  <2>1. TypeOK'
    <3>1. wt' \in [Runs -> Branches]
      BY <2>0, ApplyTypes
    <3>2. meddled' \in 0..MaxMeddling
      BY <1>6, BoundsAssumption DEF TouchWorktree, Meddle, TypeOK
    <3>. QED BY <1>6, <3>1, <3>2 DEF TouchWorktree, TypeOK, Branches
  <2>2. /\ \A q \in Runs \ {r} : wt'[q] = wt[q]
        /\ wt[r].commit \subseteq wt'[r].commit
    BY <2>0, ApplyTypes
  <2>3. \A a \in Workers : R(a) # r
    BY <1>6 DEF TouchWorktree
  <2>4. UNCHANGED <<row, approval, remote, mr, worker>>
    BY <1>6 DEF TouchWorktree
  <2>5. RunsAreHeld' /\ OneApplier' /\ OnlyTheProposalIsPushed'
    BY <2>4
  <2>6. \A a \in Workers : worker[a] # Idle => wt'[R(a)] = wt[R(a)]
    BY <2>2, <2>3
  <2>7. WorkIsDone'
    BY <2>4, <2>6 DEF Idle
  <2>8. CompletedIsWhole'
    BY <2>2, <2>4
  <2>. QED BY <2>1, <2>5, <2>7, <2>8
<1>7. ASSUME NEW r \in Runs, CloseMergeRequest(r) PROVE ApplyInv'
  <2>1. TypeOK'
    BY <1>7, BoundsAssumption DEF CloseMergeRequest, Meddle, TypeOK
  <2>2. \A q \in Runs : mr[q] # "none" => mr'[q] # "none"
    BY <1>7, ApplyTypes DEF CloseMergeRequest
  <2>. QED BY <1>7, <2>1, <2>2 DEF CloseMergeRequest
<1>. QED BY <1>1, <1>2, <1>3, <1>4, <1>5, <1>6, <1>7

-----------------------------------------------------------------------------
(* When one request moves within its run, it is enough to look at that     *)
(* run: no other request is on it.                                         *)
LEMMA RequestMoves ==
  ASSUME ApplyInv, NEW a \in Workers, worker[a] # Idle,
         NEW pc \in Points, Goto(a, pc),
         UNCHANGED <<source, prep, approval, meddled>>, faults' \in 0..MaxFaults,
         row' \in [Runs -> Rows], wt' \in [Runs -> Branches], remote' \in [Runs -> SUBSET Paths],
         mr' \in [Runs -> {"none", "opened", "closed"}],
         row'[R(a)] \in {"applying", "merge_request_created"},
         \A r \in Runs \ {R(a)} : /\ row'[r] = row[r] /\ wt'[r] = wt[r]
                                  /\ remote'[r] = remote[r] /\ mr'[r] = mr[r],
         remote'[R(a)] \in {{}, Files},
         /\ pc = "write" => Permitted(wt'[R(a)].commit)
         /\ pc \in {"verify", "push", "find", "create", "record", "complete"} =>
              wt'[R(a)].commit = Files
         /\ pc \in {"find", "create", "record"} => remote'[R(a)] = Files
         /\ pc = "complete" /\ GitLab => remote'[R(a)] = Files /\ mr'[R(a)] # "none"
         /\ pc = "record" => mr'[R(a)] # "none"
  PROVE  ApplyInv'
<1> DEFINE r0 == R(a)
<1>1. r0 \in Runs /\ Held(r0) /\ worker[a].pc \in Points
  BY DEF ApplyInv, RunsAreHeld, Held
<1>2. /\ worker'[a].pc = pc /\ worker'[a].run = r0
      /\ \A b \in Workers \ {a} : worker'[b] = worker[b]
  BY ApplyTypes DEF Goto, ApplyInv, R, Requests
<1>3. \A b \in Workers \ {a} : R(b) # r0
  BY <1>1, NoRunIsNone DEF ApplyInv, OneApplier
<1>4. RunsAreHeld'
  BY <1>1, <1>2, <1>3 DEF ApplyInv, RunsAreHeld, Held, R
<1>5. OneApplier'
  BY <1>2 DEF ApplyInv, OneApplier, R
<1>6. WorkIsDone'
  <2>1. ASSUME NEW b \in Workers \ {a}
        PROVE  /\ worker'[b] = worker[b]
               /\ worker[b] # Idle => wt'[R(b)] = wt[R(b)] /\ remote'[R(b)] = remote[R(b)]
                                      /\ mr'[R(b)] = mr[R(b)]
    BY <1>2, <1>3 DEF ApplyInv, RunsAreHeld, Held
  <2>. QED BY <1>2, <2>1 DEF ApplyInv, WorkIsDone, Whole, At, R, Idle
<1>7. OnlyTheProposalIsPushed'
  BY <1>1 DEF ApplyInv, OnlyTheProposalIsPushed, Held
<1>8. CompletedIsWhole'
  BY <1>1 DEF ApplyInv, CompletedIsWhole
<1>9. worker' \in [Workers -> Requests]
  <2>1. worker' = [worker EXCEPT ![a] = [worker[a] EXCEPT !.pc = pc]]
    BY DEF Goto
  <2>2. [worker[a] EXCEPT !.pc = pc] \in Requests
    BY ApplyTypes DEF ApplyInv, Requests
  <2>. QED BY <2>1, <2>2, ApplyTypes DEF ApplyInv
<1>10. TypeOK'
  BY <1>9 DEF ApplyInv, TypeOK, source, Rows, Branches, Requests, Points
<1>. QED BY <1>4, <1>5, <1>6, <1>7, <1>8, <1>10 DEF ApplyInv

(* A step that only moves on needs nothing but what the next point says.   *)
LEMMA RequestGoes ==
  ASSUME ApplyInv, NEW a \in Workers, worker[a] # Idle,
         NEW pc \in Points, Goto(a, pc), faults' \in 0..MaxFaults,
         UNCHANGED <<source, prep, row, approval, wt, remote, mr, meddled>>,
         /\ pc = "write" => Permitted(wt[R(a)].commit)
         /\ pc \in {"verify", "push", "find", "create", "record", "complete"} =>
              wt[R(a)].commit = Files
         /\ pc \in {"find", "create", "record"} => remote[R(a)] = Files
         /\ pc = "complete" /\ GitLab => remote[R(a)] = Files /\ mr[R(a)] # "none"
         /\ pc = "record" => mr[R(a)] # "none"
  PROVE  ApplyInv'
<1>1. R(a) \in Runs /\ Held(R(a)) /\ remote[R(a)] \in {{}, Files}
  BY DEF ApplyInv, RunsAreHeld, Held, OnlyTheProposalIsPushed
<1>2. row'[R(a)] \in {"applying", "merge_request_created"}
  BY <1>1 DEF Held
<1>3. /\ row' \in [Runs -> Rows] /\ wt' \in [Runs -> Branches] /\ remote' \in [Runs -> SUBSET Paths]
      /\ mr' \in [Runs -> {"none", "opened", "closed"}]
  BY ApplyTypes DEF ApplyInv
<1>. QED BY <1>1, <1>2, <1>3, RequestMoves

(* When a request ends, its run is nobody's.                               *)
LEMMA RequestEnds ==
  ASSUME ApplyInv, NEW a \in Workers, worker[a] # Idle,
         worker' = [worker EXCEPT ![a] = Idle], faults' \in 0..MaxFaults,
         UNCHANGED <<source, prep, approval, wt, remote, mr, meddled>>, row' \in [Runs -> Rows],
         \A r \in Runs \ {R(a)} : row'[r] = row[r],
         row'[R(a)] = "completed" /\ GitLab => At(a, "complete")
  PROVE  ApplyInv'
<1>0. R(a) \in Runs /\ Held(R(a))
  BY DEF ApplyInv, RunsAreHeld, Held
<1>1. \A b \in Workers \ {a} : worker'[b] = worker[b] /\ R(b) # R(a)
  BY <1>0, NoRunIsNone, ApplyTypes DEF ApplyInv, OneApplier
<1>2. worker'[a] = Idle
  BY ApplyTypes DEF ApplyInv
<1>3. RunsAreHeld'
  BY <1>0, <1>1, <1>2 DEF ApplyInv, RunsAreHeld, Held, R
<1>4. OneApplier'
  <2>1. \A b \in Workers : R(b)' # NoRun => b # a /\ R(b)' = R(b)
    BY <1>0, <1>1, <1>2 DEF R, Idle
  <2>. QED BY <2>1, <1>0, <1>1, <1>2 DEF ApplyInv, OneApplier, R, Idle
<1>5. WorkIsDone'
  BY <1>0, <1>1, <1>2 DEF ApplyInv, WorkIsDone, Whole, At, R, Idle
<1>6. OnlyTheProposalIsPushed'
  BY DEF ApplyInv, OnlyTheProposalIsPushed
<1>7. CompletedIsWhole'
  BY <1>0, <1>1 DEF ApplyInv, CompletedIsWhole, WorkIsDone, Whole, At
<1>8. worker' \in [Workers -> Requests]
  BY ApplyTypes DEF ApplyInv, Requests, Idle
<1>9. TypeOK'
  BY <1>8 DEF ApplyInv, TypeOK, source, Rows, Requests, Points
<1>. QED BY <1>3, <1>4, <1>5, <1>6, <1>7, <1>9 DEF ApplyInv

(* Each step of Apply moves the request within its run or ends it.         *)
LEMMA RequestStep ==
  ASSUME ApplyInv, NEW a \in Workers, Step(a)
  PROVE  ApplyInv'
<1> DEFINE r0 == R(a)
           Rest == UNCHANGED <<source, prep, approval, meddled>> /\ faults' \in 0..MaxFaults
<1>0. worker[a] # Idle
  BY DEF Step, MakeWorktree, WriteProposedFile, CommitProposal, VerifySource, PushBranch,
         FindMergeRequest, CreateMergeRequest, RecordPublication, Complete, FailApply, At, Idle
<1>1. /\ r0 \in Runs /\ row[r0] \in {"applying", "merge_request_created"}
      /\ approval[r0] = "approved" /\ remote[r0] \in {{}, Files} /\ faults \in 0..MaxFaults
  BY <1>0 DEF ApplyInv, RunsAreHeld, Held, OnlyTheProposalIsPushed, TypeOK
<1>2. /\ row \in [Runs -> Rows] /\ wt \in [Runs -> Branches] /\ remote \in [Runs -> SUBSET Paths]
      /\ mr \in [Runs -> {"none", "opened", "closed"}] /\ Files \in SUBSET Paths
  BY ApplyTypes DEF ApplyInv, Paths
<1>3. CASE MakeWorktree(a)
  <2>1. Rest /\ UNCHANGED <<row, remote, mr>>
    BY <1>1, <1>3 DEF MakeWorktree, source
  <2>2. CASE OnBase(r0) /\ Permitted(wt[r0].commit)
    <3> DEFINE b == [wt[r0] EXCEPT !.made = TRUE]
    <3>1. b \in Branches /\ b.commit = wt[r0].commit
      BY <1>1, <1>2 DEF Branches
    <3>2. Goto(a, "write") /\ wt' = [wt EXCEPT ![r0] = b]
      BY <1>3, <2>2 DEF MakeWorktree
    <3> HIDE DEF b
    <3>3. /\ wt' \in [Runs -> Branches] /\ Permitted(wt'[r0].commit)
          /\ \A r \in Runs \ {r0} : wt'[r] = wt[r]
      BY <1>1, <1>2, <2>2, <3>1, <3>2
    <3>. QED BY <1>0, <1>1, <1>2, <2>1, <3>2, <3>3, RequestMoves DEF Points
  <2>3. CASE ~ (OnBase(r0) /\ Permitted(wt[r0].commit))
    <3>1. Goto(a, "fail") /\ UNCHANGED wt
      BY <1>3, <2>3 DEF MakeWorktree
    <3>. QED BY <1>0, <2>1, <3>1, RequestGoes DEF Points
  <2>. QED BY <2>2, <2>3
<1>4. ASSUME NEW f \in Files, WriteProposedFile(a, f) PROVE ApplyInv'
  <2> DEFINE b == [wt[r0] EXCEPT !.tree = wt[r0].tree \cup {f}]
  <2>1. /\ Rest /\ UNCHANGED <<row, remote, mr, worker>> /\ At(a, "write")
        /\ wt' = [wt EXCEPT ![r0] = b]
    BY <1>1, <1>4 DEF WriteProposedFile, source
  <2>2. b \in Branches /\ b.commit = wt[r0].commit
    BY <1>1, <1>2 DEF Branches, Paths
  <2> HIDE DEF b
  <2>3. /\ wt' \in [Runs -> Branches] /\ wt'[r0].commit = wt[r0].commit
        /\ \A r \in Runs \ {r0} : wt'[r] = wt[r]
    BY <1>1, <1>2, <2>1, <2>2
  <2>4. Goto(a, "write")
    BY <2>1, ApplyTypes DEF Goto, At, ApplyInv, Requests
  <2>5. Permitted(wt'[r0].commit)
    BY <2>1, <2>3 DEF ApplyInv, WorkIsDone
  <2>. QED BY <1>0, <1>1, <1>2, <2>1, <2>3, <2>4, <2>5, RequestMoves DEF Points
<1>5. CASE CommitProposal(a)
  <2>1. Rest /\ UNCHANGED <<row, remote, mr>> /\ At(a, "write") /\ Unwritten(r0) = {}
    BY <1>1, <1>5 DEF CommitProposal, source
  <2>2. CASE Permitted(wt[r0].tree)
    <3> DEFINE b == Committed(wt[r0])
    <3>1. Permitted(wt[r0].commit)
      BY <2>1 DEF ApplyInv, WorkIsDone
    <3>2. b \in Branches /\ b.commit = wt[r0].commit \cup wt[r0].tree
      BY <1>1, <1>2 DEF Branches, Committed
    <3>3. b.commit = Files
      BY <2>1, <2>2, <3>1, <3>2 DEF Permitted, Unwritten
    <3>4. Goto(a, "verify") /\ wt' = [wt EXCEPT ![r0] = b]
      BY <1>5, <2>2 DEF CommitProposal
    <3> HIDE DEF b
    <3>5. /\ wt' \in [Runs -> Branches] /\ wt'[r0].commit = Files
          /\ \A r \in Runs \ {r0} : wt'[r] = wt[r]
      BY <1>1, <1>2, <3>2, <3>3, <3>4
    <3>. QED BY <1>0, <1>1, <1>2, <2>1, <3>4, <3>5, RequestMoves DEF Points
  <2>3. CASE ~Permitted(wt[r0].tree)
    <3>1. Goto(a, "fail") /\ UNCHANGED wt
      BY <1>5, <2>3 DEF CommitProposal
    <3>. QED BY <1>0, <2>1, <3>1, RequestGoes DEF Points
  <2>. QED BY <2>2, <2>3
<1>6. CASE VerifySource(a)
  <2>1. Rest /\ UNCHANGED <<row, wt, remote, mr>> /\ wt[r0].commit = Files
    BY <1>1, <1>6 DEF VerifySource, source, ApplyInv, WorkIsDone, Whole, At
  <2>2. Goto(a, "fail") \/ (GitLab /\ Goto(a, "push")) \/ (~GitLab /\ Goto(a, "complete"))
    BY <1>6 DEF VerifySource
  <2>. QED BY <1>0, <2>1, <2>2, RequestGoes DEF Points
<1>7. CASE PushBranch(a)
  <2>1. /\ Rest /\ UNCHANGED <<row, wt, mr>> /\ Goto(a, "find") /\ wt[r0].commit = Files
        /\ remote' = [remote EXCEPT ![r0] = Files]
    BY <1>1, <1>7 DEF PushBranch, source, ApplyInv, WorkIsDone, Whole, At
  <2>2. /\ remote' \in [Runs -> SUBSET Paths] /\ remote'[r0] = Files
        /\ \A r \in Runs \ {r0} : remote'[r] = remote[r]
    BY <1>1, <1>2, <2>1
  <2>. QED BY <1>0, <1>1, <1>2, <2>1, <2>2, RequestMoves DEF Points
<1>8. CASE FindMergeRequest(a)
  <2>1. /\ Rest /\ UNCHANGED <<row, wt, remote, mr>> /\ Goto(a, AfterLookup(a))
        /\ wt[r0].commit = Files /\ remote[r0] = Files
    BY <1>1, <1>8 DEF FindMergeRequest, source, ApplyInv, WorkIsDone, Whole, At
  <2>2. (AfterLookup(a) = "record" /\ mr[r0] # "none") \/ AfterLookup(a) = "create"
    BY DEF AfterLookup
  <2>. QED BY <1>0, <2>1, <2>2, RequestGoes DEF Points
<1>9. CASE CreateMergeRequest(a)
  <2>1. /\ Rest /\ UNCHANGED <<row, wt, remote>> /\ wt[r0].commit = Files /\ remote[r0] = Files
    BY <1>1, <1>9 DEF CreateMergeRequest, source, ApplyInv, WorkIsDone, Whole, At
  <2>2. CASE mr[r0] = "opened"
    <3>1. Goto(a, "fail") /\ UNCHANGED mr
      BY <1>9, <2>2 DEF CreateMergeRequest
    <3>. QED BY <1>0, <2>1, <3>1, RequestGoes DEF Points
  <2>3. CASE mr[r0] # "opened"
    <3>1. Goto(a, "record") /\ mr' = [mr EXCEPT ![r0] = "opened"]
      BY <1>9, <2>3 DEF CreateMergeRequest
    <3>2. /\ mr' \in [Runs -> {"none", "opened", "closed"}] /\ mr'[r0] = "opened"
          /\ \A r \in Runs \ {r0} : mr'[r] = mr[r]
      BY <1>1, <1>2, <3>1
    <3>. QED BY <1>0, <1>1, <1>2, <2>1, <3>1, <3>2, RequestMoves DEF Points
  <2>. QED BY <2>2, <2>3
<1>10. CASE RecordPublication(a)
  <2>1. /\ Rest /\ UNCHANGED <<wt, remote, mr>> /\ Goto(a, "complete")
        /\ wt[r0].commit = Files /\ remote[r0] = Files /\ mr[r0] # "none"
        /\ row' = [row EXCEPT ![r0] = "merge_request_created"]
    BY <1>1, <1>10 DEF RecordPublication, source, ApplyInv, WorkIsDone, Whole, At
  <2>2. /\ row' \in [Runs -> Rows] /\ row'[r0] = "merge_request_created"
        /\ \A r \in Runs \ {r0} : row'[r] = row[r]
    BY <1>1, <1>2, <2>1 DEF Rows
  <2>. QED BY <1>0, <1>1, <1>2, <2>1, <2>2, RequestMoves DEF Points
<1>11. CASE Complete(a) \/ FailApply(a)
  <2>1. /\ Rest /\ UNCHANGED <<wt, remote, mr, approval>> /\ worker' = [worker EXCEPT ![a] = Idle]
        /\ \/ row' = [row EXCEPT ![r0] = "completed"] /\ At(a, "complete")
           \/ row' = [row EXCEPT ![r0] = "failed"]
    BY <1>1, <1>11 DEF Complete, FailApply, Failed, source
  <2>2. /\ row' \in [Runs -> Rows] /\ \A r \in Runs \ {r0} : row'[r] = row[r]
        /\ row'[r0] = "completed" => At(a, "complete")
    BY <1>1, <1>2, <2>1 DEF Rows
  <2>. QED BY <1>0, <2>1, <2>2, RequestEnds
<1>. QED BY <1>3, <1>4, <1>5, <1>6, <1>7, <1>8, <1>9, <1>10, <1>11 DEF Step

-----------------------------------------------------------------------------
(* A failed call, a lost answer and a death leave no more behind than the  *)
(* steps before them did.                                                  *)
LEMMA FaultStep ==
  ASSUME ApplyInv, NEW a \in Workers, CallFails(a) \/ AnswerLost(a) \/ Crash(a)
  PROVE  ApplyInv'
<1> DEFINE r0 == R(a)
<1>1. worker[a] # Idle /\ worker[a] \in Requests
  BY ApplyTypes DEF CallFails, AnswerLost, Crash, At, Idle, ApplyInv
<1>2. faults' \in 0..MaxFaults
  BY BoundsAssumption DEF CallFails, AnswerLost, Crash, Fault, ApplyInv, TypeOK
<1>3. /\ r0 \in Runs /\ row[r0] \in {"applying", "merge_request_created"}
      /\ approval[r0] = "approved" /\ remote[r0] \in {{}, Files}
  BY <1>1 DEF ApplyInv, RunsAreHeld, Held, OnlyTheProposalIsPushed
<1>4. /\ row \in [Runs -> Rows] /\ wt \in [Runs -> Branches] /\ remote \in [Runs -> SUBSET Paths]
      /\ mr \in [Runs -> {"none", "opened", "closed"}]
  BY ApplyTypes DEF ApplyInv
<1>5. CASE CallFails(a)
  <2>1. UNCHANGED <<source, prep, row, approval, wt, remote, mr, meddled>>
    BY <1>5 DEF CallFails
  <2>2. CASE At(a, "complete")
    <3>1. worker' = [worker EXCEPT ![a] = Idle]
      BY <1>5, <2>2 DEF CallFails, AfterError, At
    <3>. QED BY <1>1, <1>2, <1>3, <1>4, <2>1, <3>1, RequestEnds
  <2>3. CASE ~At(a, "complete")
    <3>1. Goto(a, "fail")
      BY <1>5, <2>3 DEF CallFails, AfterError, At, Goto
    <3>. QED BY <1>1, <1>2, <2>1, <3>1, RequestGoes DEF Points
  <2>. QED BY <2>2, <2>3
<1>6. CASE AnswerLost(a)
  <2>1. /\ UNCHANGED <<source, prep, row, approval, wt, remote, meddled>> /\ Goto(a, "fail")
        /\ mr' = [mr EXCEPT ![r0] = "opened"]
    BY <1>6 DEF AnswerLost
  <2>2. /\ mr' \in [Runs -> {"none", "opened", "closed"}] /\ \A r \in Runs \ {r0} : mr'[r] = mr[r]
    BY <1>3, <1>4, <2>1
  <2>. QED BY <1>1, <1>2, <1>3, <1>4, <2>1, <2>2, RequestMoves DEF Points
<1>7. CASE Crash(a)
  BY <1>1, <1>2, <1>3, <1>4, <1>7, RequestEnds DEF Crash
<1>. QED BY <1>5, <1>6, <1>7

(* BeginApply takes a run that nobody holds.                               *)
LEMMA BeginStep ==
  ASSUME ApplyInv, NEW a \in Workers, NEW r \in Runs, BeginApply(a, r)
  PROVE  ApplyInv'
<1> DEFINE w == [pc |-> "begun", run |-> r]
<1>1. /\ worker[a] = Idle /\ approval[r] = "approved" /\ row[r] \in {"awaiting_approval", "failed"}
      /\ row' = [row EXCEPT ![r] = "applying"] /\ worker' = [worker EXCEPT ![a] = w]
      /\ UNCHANGED <<source, prep, approval, wt, remote, mr, meddled, faults>>
  BY DEF BeginApply, Applicable, Approved
<1>2. row' \in [Runs -> Rows] /\ row'[r] = "applying" /\ \A q \in Runs \ {r} : row'[q] = row[q]
  BY <1>1, ApplyTypes DEF ApplyInv, Rows
<1>3. /\ worker' \in [Workers -> Requests] /\ worker'[a] = w
      /\ \A b \in Workers \ {a} : worker'[b] = worker[b]
  BY <1>1, ApplyTypes DEF ApplyInv, Requests, Points
<1>4. \A b \in Workers : R(b) # r
  BY <1>1, NoRunIsNone DEF ApplyInv, RunsAreHeld, Held, R, Idle
<1>5. TypeOK'
  BY <1>1, <1>2, <1>3 DEF ApplyInv, TypeOK, source, Rows, Requests, Points
<1>6. RunsAreHeld'
  <2>1. \A b \in Workers \ {a} : R(b)' = R(b) /\ (worker[b] # Idle => R(b) \in Runs \ {r})
    BY <1>3, <1>4 DEF ApplyInv, RunsAreHeld, Held, R
  <2>. QED BY <1>1, <1>2, <1>3, <2>1 DEF ApplyInv, RunsAreHeld, Held, R, Points
<1>7. OneApplier'
  BY <1>3, <1>4 DEF ApplyInv, OneApplier, R
<1>8. WorkIsDone'
  BY <1>1, <1>3 DEF ApplyInv, WorkIsDone, Whole, At, R
<1>9. OnlyTheProposalIsPushed' /\ CompletedIsWhole'
  BY <1>1, <1>2 DEF ApplyInv, OnlyTheProposalIsPushed, CompletedIsWhole
<1>. QED BY <1>5, <1>6, <1>7, <1>8, <1>9 DEF ApplyInv

(* Every step keeps the invariant.                                         *)
LEMMA ApplyStep == ApplyInv /\ [Next]_vars => ApplyInv'
<1> SUFFICES ASSUME ApplyInv, [Next]_vars PROVE ApplyInv'
  OBVIOUS
<1>1. CASE UNCHANGED vars
  BY <1>1 DEF vars, source, ApplyInv, TypeOK, RunsAreHeld, Held, OneApplier, WorkIsDone, Whole, At,
     R, OnlyTheProposalIsPushed, CompletedIsWhole
<1>2. CASE Next
  BY <1>2, OthersStep, RequestStep, FaultStep, BeginStep DEF Next
<1>. QED BY <1>1, <1>2

(* Onboarding pushes the files of an approved proposal, all of them and    *)
(* nothing else, one request at a time, and a run says completed only when *)
(* they are at GitLab with a merge request: for every number of files,     *)
(* concurrent requests, failed calls, lost answers, deaths and edits of    *)
(* the worktree by others between two attempts.                            *)
THEOREM AppliesExactly == Spec => []ApplyIsExact
<1>1. ApplyInv => ApplyIsExact
  <2> SUFFICES ASSUME ApplyInv PROVE ApplyIsExact
    OBVIOUS
  <2>1. ASSUME NEW r \in Runs, row[r] = "completed", GitLab
        PROVE  remote[r] = wt[r].commit \ {Foreign} /\ mr[r] # "none"
    <3>1. remote[r] = Files /\ Files \subseteq wt[r].commit /\ mr[r] # "none"
      BY <2>1 DEF ApplyInv, CompletedIsWhole
    <3>2. wt[r].commit \subseteq Files \cup {Foreign}
      BY ApplyTypes DEF ApplyInv, Branches, Paths
    <3>. QED BY <3>1, <3>2, FilesAssumption
  <2>. QED BY <2>1 DEF ApplyInv, ApplyIsExact, CompletedIsPublished
<1>. QED BY <1>1, InitApply, ApplyStep, PTL DEF Spec

-----------------------------------------------------------------------------
(***************************************************************************)
(* Delivery.                                                               *)
(*                                                                         *)
(* A request for a pull request trusts that the task it began with stays   *)
(* completed and its issue published, and that what it finds at GitHub is  *)
(* never taken back; so the invariant says for each point of a request     *)
(* how far GitHub is.  Issues are another matter: between looking for the  *)
(* marker and POST nothing keeps a second request from doing the same, so  *)
(* the invariant counts the requests about to open an issue of a task with *)
(* the issues it has.                                                      *)
(***************************************************************************)

IssueStates == {"none", "proposed", "published", "cancelled"}
HubPrStates == {"none", "bare", "labelled", "complete"}
PubRecord   == [pc : {"idle", "find", "post", "mark"}, todo : SUBSET Tasks]
DelPoints   == {"draft", "push", "lookup", "open", "label", "review", "mark"}
DelRecord   == [pc : DelPoints \cup {"idle"}, task : Tasks \cup {NoTask}]

RowsTyped ==
  /\ issue \in [Tasks -> IssueStates] /\ pr \in [Tasks -> {"none", "proposed", "published"}]
  /\ hubpr \in [Tasks -> HubPrStates] /\ del \in [Deliverers -> DelRecord]

(* What a pull-request request may rely on, point by point.                *)
T(d) == del[d].task
Working(d, points) == del[d].pc \in points
RequestsAreBacked ==
  \A d \in Deliverers : del[d] = IdleDel \/
    /\ T(d) \in Tasks /\ Deliverable(T(d)) /\ del[d].pc # "idle"
    /\ Working(d, {"lookup", "open", "label", "review", "mark"}) => T(d) \in branch
    /\ Working(d, {"label", "review", "mark"}) => hubpr[T(d)] # "none"
    /\ Working(d, {"mark"}) => hubpr[T(d)] = "complete"

DeliveryInv == /\ RowsTyped /\ RequestsAreBacked /\ done \subseteq Tasks /\ branch \subseteq Tasks
               /\ PublishedIsComplete /\ OnlyFinishedWork

(* The publisher's side: a request has something to do.  A task's issues   *)
(* and the requests that have not found any are at most the requests.      *)
About(t) == {p \in Publishers : pub[p].pc = "post" /\ Current(p) = t}
PublishingInv ==
  /\ hub \in [Tasks -> Nat] /\ pub \in [Publishers -> PubRecord]
  /\ \A p \in Publishers : pub[p] = IdlePub \/ (pub[p].todo # {} /\ pub[p].pc # "idle")
  /\ \A t \in Tasks : hub[t] + Cardinality(About(t)) <= Cardinality(Publishers)

-----------------------------------------------------------------------------
(* Nothing that a pull-request request relies on is ever taken back.       *)
WorldGrows ==
  /\ done \subseteq done' /\ done' \subseteq Tasks
  /\ branch \subseteq branch' /\ branch' \subseteq Tasks
  /\ \A t \in Tasks : /\ issue[t] = "published" => issue'[t] = "published"
                      /\ hubpr[t] # "none" => hubpr'[t] # "none"
                      /\ hubpr[t] = "complete" => hubpr'[t] = "complete"
                      /\ pr[t] = "published" => pr'[t] = "published"

(* No request and no row is there at first.                                *)
LEMMA InitDelivery == DeliveryInit => DeliveryInv
  BY DEF DeliveryInit, DeliveryInv, RowsTyped, RequestsAreBacked, PublishedIsComplete, OnlyFinishedWork,
         IssueStates, HubPrStates, DelRecord, IdleDel

(* Steps of the plan, of its run and of the publisher leave pull requests  *)
(* alone.                                                                  *)
LEMMA PlanSteps ==
  ASSUME DeliveryInv, UNCHANGED <<pr, branch, hubpr, del>>,
         done \subseteq done', done' \subseteq Tasks,
         issue' \in [Tasks -> IssueStates],
         \A t \in Tasks : issue[t] = "published" => issue'[t] = "published"
  PROVE  DeliveryInv' /\ WorldGrows
  BY DEF DeliveryInv, RowsTyped, RequestsAreBacked, Working, T, Deliverable, PublishedIsComplete,
         OnlyFinishedWork, WorldGrows

(* One request moves, and GitHub and the rows grow by what it did.         *)
LEMMA DeliveryRequestMoves ==
  ASSUME DeliveryInv, NEW d \in Deliverers, NEW w \in DelRecord,
         del' = [del EXCEPT ![d] = w], UNCHANGED <<done, issue>>, WorldGrows,
         pr' \in [Tasks -> {"none", "proposed", "published"}], hubpr' \in [Tasks -> HubPrStates],
         w = IdleDel \/
           /\ w.task \in Tasks /\ Deliverable(w.task) /\ w.pc # "idle"
           /\ w.pc \in {"lookup", "open", "label", "review", "mark"} => w.task \in branch'
           /\ w.pc \in {"label", "review", "mark"} => hubpr'[w.task] # "none"
           /\ w.pc = "mark" => hubpr'[w.task] = "complete",
         PublishedIsComplete', OnlyFinishedWork'
  PROVE  DeliveryInv'
<1>1. /\ del' \in [Deliverers -> DelRecord] /\ del'[d] = w
      /\ \A e \in Deliverers \ {d} : del'[e] = del[e]
  BY DEF DeliveryInv, RowsTyped
<1>2. RowsTyped'
  BY <1>1 DEF DeliveryInv, RowsTyped
<1>3. RequestsAreBacked'
  <2>1. ASSUME NEW e \in Deliverers \ {d}, del[e] # IdleDel
        PROVE  /\ T(e)' \in Tasks /\ Deliverable(T(e))' /\ del'[e].pc # "idle"
               /\ Working(e, {"lookup", "open", "label", "review", "mark"})' => T(e)' \in branch'
               /\ Working(e, {"label", "review", "mark"})' => hubpr'[T(e)'] # "none"
               /\ Working(e, {"mark"})' => hubpr'[T(e)'] = "complete"
    BY <1>1, <2>1 DEF DeliveryInv, RequestsAreBacked, Working, T, Deliverable, WorldGrows
  <2>. QED BY <1>1, <2>1 DEF RequestsAreBacked, Working, T, Deliverable
<1>. QED BY <1>2, <1>3 DEF DeliveryInv, WorldGrows

-----------------------------------------------------------------------------
(* One call of a pull-request request.                                     *)
LEMMA DeliveryRequestStep ==
  ASSUME DeliveryInv, NEW d \in Deliverers,
         \/ \E t \in Tasks : PreparePullRequest(d, t) \/ Deliver(d, t)
         \/ SavePullRequestProposal(d) \/ PublishBranch(d) \/ LookupPullRequest(d)
         \/ OpenPullRequest(d) \/ LabelPullRequest(d) \/ RequestReviewers(d)
         \/ MarkPullRequest(d) \/ DeliveryFails(d)
  PROVE  DeliveryInv' /\ WorldGrows
<1> DEFINE t0 == T(d)
           at(pc) == [pc |-> pc, task |-> t0]
<1>0. /\ del \in [Deliverers -> DelRecord] /\ hubpr \in [Tasks -> HubPrStates]
      /\ pr \in [Tasks -> {"none", "proposed", "published"}] /\ issue \in [Tasks -> IssueStates]
      /\ done \subseteq Tasks /\ branch \subseteq Tasks /\ IdleDel \in DelRecord
      /\ PublishedIsComplete /\ OnlyFinishedWork
  BY DEF DeliveryInv, RowsTyped, DelRecord, IdleDel
<1>1. \A from \in DelPoints, to \in DelPoints :
        Moves(d, from, to) => /\ del[d] # IdleDel /\ del[d].pc = from
                             /\ del' = [del EXCEPT ![d] = at(to)] /\ at(to) \in DelRecord
  <2> TAKE from \in DelPoints, to \in DelPoints
  <2> HAVE Moves(d, from, to)
  <2>1. del[d].pc = from /\ del' = [del EXCEPT ![d] = [del[d] EXCEPT !.pc = to]]
    BY DEF Moves, Moved, DelPoints
  <2>2. del[d] \in DelRecord /\ del[d].pc # "idle"
    BY <1>0, <2>1 DEF DelPoints
  <2>3. [del[d] EXCEPT !.pc = to] = at(to) /\ at(to) \in DelRecord
    BY <2>2 DEF DelRecord, T
  <2>4. del[d] # IdleDel
    BY <2>2 DEF IdleDel
  <2>5. del' = [del EXCEPT ![d] = at(to)]
    BY <2>1, <2>3
  <2> HIDE DEF at
  <2>. QED BY <2>1, <2>3, <2>4, <2>5
<1>2. \A from \in DelPoints :
        Moves(d, from, "idle") => /\ del[d] # IdleDel /\ del[d].pc = from
                                 /\ del' = [del EXCEPT ![d] = IdleDel]
  BY DEF Moves, Moved, IdleDel, DelPoints
<1>3. del[d] # IdleDel => /\ t0 \in Tasks /\ Deliverable(t0)
                          /\ t0 \in done /\ issue[t0] = "published"
                          /\ Working(d, {"lookup", "open", "label", "review", "mark"}) => t0 \in branch
                          /\ Working(d, {"label", "review", "mark"}) => hubpr[t0] # "none"
                          /\ Working(d, {"mark"}) => hubpr[t0] = "complete"
  BY DEF DeliveryInv, RequestsAreBacked, Deliverable
<1>4. ASSUME NEW t \in Tasks, PreparePullRequest(d, t) \/ Deliver(d, t) PROVE DeliveryInv' /\ WorldGrows
  <2>1. PICK pc \in {"draft", "push"} :
          del' = [del EXCEPT ![d] = [pc |-> pc, task |-> t]] /\ Deliverable(t)
    BY <1>4 DEF PreparePullRequest, Deliver
  <2>2. UNCHANGED <<plan, done, issue, pr, hub, branch, hubpr>>
    BY <1>4 DEF PreparePullRequest, Deliver, rows, github
  <2>3. [pc |-> pc, task |-> t] \in DelRecord /\ WorldGrows
    BY <1>0, <2>2 DEF DelRecord, DelPoints, WorldGrows
  <2>4. PublishedIsComplete' /\ OnlyFinishedWork'
    BY <1>0, <2>2 DEF PublishedIsComplete, OnlyFinishedWork
  <2>. QED BY <1>0, <2>1, <2>2, <2>3, <2>4, DeliveryRequestMoves
<1>5. CASE SavePullRequestProposal(d)
  <2>1. /\ Moves(d, "draft", "idle") /\ UNCHANGED <<done, issue, branch, hubpr>>
        /\ pr' = [pr EXCEPT ![t0] = KeptOrProposed(pr[t0])]
    BY <1>5 DEF SavePullRequestProposal, github, T
  <2>2. /\ pr' \in [Tasks -> {"none", "proposed", "published"}]
        /\ \A t \in Tasks : pr'[t] = "published" <=> pr[t] = "published"
    BY <1>0, <2>1 DEF KeptOrProposed
  <2>3. WorldGrows /\ PublishedIsComplete' /\ OnlyFinishedWork'
    BY <1>0, <2>1, <2>2 DEF WorldGrows, PublishedIsComplete, OnlyFinishedWork
  <2>4. del' = [del EXCEPT ![d] = IdleDel]
    BY <1>2, <2>1 DEF DelPoints
  <2>. QED BY <1>0, <2>1, <2>2, <2>3, <2>4, DeliveryRequestMoves
<1>6. CASE PublishBranch(d)
  <2>1. /\ Moves(d, "push", "lookup") /\ UNCHANGED <<done, issue, pr, hubpr>>
        /\ branch' = branch \cup {t0}
    BY <1>6 DEF PublishBranch, rows, T
  <2>2. del[d] # IdleDel /\ del' = [del EXCEPT ![d] = at("lookup")] /\ at("lookup") \in DelRecord
    BY <1>1, <2>1 DEF DelPoints
  <2>3. WorldGrows /\ PublishedIsComplete' /\ OnlyFinishedWork'
    BY <1>0, <1>3, <2>1, <2>2 DEF WorldGrows, PublishedIsComplete, OnlyFinishedWork
  <2>. QED BY <1>0, <1>3, <2>1, <2>2, <2>3, DeliveryRequestMoves
<1>7. CASE LookupPullRequest(d)
  <2>1. Moves(d, "lookup", AfterPullRequestLookup(t0)) /\ UNCHANGED <<done, issue, pr, branch, hubpr>>
    BY <1>7 DEF LookupPullRequest, rows, github, T
  <2>2. AfterPullRequestLookup(t0) = "open" \/ (AfterPullRequestLookup(t0) = "label" /\ hubpr[t0] # "none")
    BY DEF AfterPullRequestLookup
  <2>3. PICK pc \in {"open", "label"} : pc = AfterPullRequestLookup(t0) /\ (pc = "label" => hubpr[t0] # "none")
    BY <2>2
  <2>4. /\ del[d] # IdleDel /\ del[d].pc = "lookup" /\ del' = [del EXCEPT ![d] = at(pc)]
        /\ at(pc) \in DelRecord
    BY <1>1, <2>1, <2>3 DEF DelPoints
  <2>5. WorldGrows /\ PublishedIsComplete' /\ OnlyFinishedWork'
    BY <1>0, <2>1 DEF WorldGrows, PublishedIsComplete, OnlyFinishedWork
  <2>6. t0 \in branch'
    BY <1>3, <2>1, <2>4 DEF Working
  <2>. QED BY <1>0, <1>3, <2>1, <2>3, <2>4, <2>5, <2>6, DeliveryRequestMoves
<1>8. CASE OpenPullRequest(d)
  <2>1. /\ del[d].pc = "open" /\ UNCHANGED <<done, issue, pr, branch>>
        /\ hubpr' = IF hubpr[t0] = "none" THEN [hubpr EXCEPT ![t0] = "bare"] ELSE hubpr
        /\ \/ Moves(d, "open", "idle")
           \/ Moves(d, "open", "label") /\ hubpr[t0] = "none"
    BY <1>8 DEF OpenPullRequest, rows, T
  <2>2. del[d] # IdleDel
    BY <2>1 DEF IdleDel
  <2>3. /\ hubpr' \in [Tasks -> HubPrStates] /\ hubpr'[t0] # "none"
        /\ \A t \in Tasks : hubpr[t] # "none" => hubpr'[t] = hubpr[t]
        /\ \A t \in Tasks \ {t0} : hubpr'[t] = hubpr[t]
    BY <1>0, <1>3, <2>1, <2>2 DEF HubPrStates
  <2>4. WorldGrows /\ PublishedIsComplete' /\ OnlyFinishedWork'
    BY <1>0, <1>3, <2>1, <2>2, <2>3 DEF WorldGrows, PublishedIsComplete, OnlyFinishedWork
  <2>5. CASE Moves(d, "open", "idle")
    <3>1. del' = [del EXCEPT ![d] = IdleDel]
      BY <1>2, <2>5 DEF DelPoints
    <3>. QED BY <1>0, <2>1, <2>3, <2>4, <3>1, DeliveryRequestMoves
  <2>6. CASE Moves(d, "open", "label")
    <3>1. del' = [del EXCEPT ![d] = at("label")] /\ at("label") \in DelRecord
      BY <1>1, <2>6 DEF DelPoints
    <3>2. t0 \in branch'
      BY <1>3, <2>1, <2>2 DEF Working
    <3>. QED BY <1>0, <1>3, <2>1, <2>2, <2>3, <2>4, <3>1, <3>2, DeliveryRequestMoves
  <2>. QED BY <2>1, <2>5, <2>6
<1>9. CASE LabelPullRequest(d)
  <2>1. /\ Moves(d, "label", "review") /\ UNCHANGED <<done, issue, pr, branch>>
        /\ hubpr' = [hubpr EXCEPT ![t0] = IF hubpr[t0] = "bare" THEN "labelled" ELSE hubpr[t0]]
    BY <1>9 DEF LabelPullRequest, rows, T
  <2>2. /\ del[d] # IdleDel /\ del[d].pc = "label" /\ del' = [del EXCEPT ![d] = at("review")]
        /\ at("review") \in DelRecord
    BY <1>1, <2>1 DEF DelPoints
  <2>3. t0 \in branch' /\ hubpr[t0] # "none" /\ t0 \in Tasks
    BY <1>3, <2>1, <2>2 DEF Working
  <2>4. /\ hubpr' \in [Tasks -> HubPrStates] /\ hubpr'[t0] # "none"
        /\ \A t \in Tasks : /\ hubpr'[t] = "none" <=> hubpr[t] = "none"
                            /\ hubpr[t] = "complete" => hubpr'[t] = "complete"
    BY <1>0, <2>1, <2>3 DEF HubPrStates
  <2>5. WorldGrows /\ PublishedIsComplete' /\ OnlyFinishedWork'
    BY <1>0, <2>1, <2>4 DEF WorldGrows, PublishedIsComplete, OnlyFinishedWork
  <2>. QED BY <1>0, <1>3, <2>1, <2>2, <2>3, <2>4, <2>5, DeliveryRequestMoves
<1>10. CASE RequestReviewers(d)
  <2>1. /\ Moves(d, "review", "mark") /\ UNCHANGED <<done, issue, pr, branch>>
        /\ hubpr' = [hubpr EXCEPT ![t0] = "complete"]
    BY <1>10 DEF RequestReviewers, rows, T
  <2>2. /\ del[d] # IdleDel /\ del[d].pc = "review" /\ del' = [del EXCEPT ![d] = at("mark")]
        /\ at("mark") \in DelRecord
    BY <1>1, <2>1 DEF DelPoints
  <2>3. t0 \in branch' /\ t0 \in Tasks
    BY <1>3, <2>1, <2>2 DEF Working
  <2>4. /\ hubpr' \in [Tasks -> HubPrStates] /\ hubpr'[t0] = "complete"
        /\ \A t \in Tasks \ {t0} : hubpr'[t] = hubpr[t]
    BY <1>0, <2>1, <2>3 DEF HubPrStates
  <2>5. WorldGrows /\ PublishedIsComplete' /\ OnlyFinishedWork'
    BY <1>0, <1>3, <2>1, <2>2, <2>4 DEF WorldGrows, PublishedIsComplete, OnlyFinishedWork
  <2>. QED BY <1>0, <1>3, <2>1, <2>2, <2>3, <2>4, <2>5, DeliveryRequestMoves
<1>11. CASE MarkPullRequest(d)
  <2>1. /\ Moves(d, "mark", "idle") /\ UNCHANGED <<done, issue, branch, hubpr>>
        /\ pr' = [pr EXCEPT ![t0] = "published"]
    BY <1>11 DEF MarkPullRequest, github, T
  <2>2. del[d] # IdleDel /\ del[d].pc = "mark" /\ del' = [del EXCEPT ![d] = IdleDel]
    BY <1>2, <2>1 DEF DelPoints
  <2>3. t0 \in branch /\ hubpr[t0] = "complete" /\ t0 \in Tasks
    BY <1>3, <2>2 DEF Working
  <2>4. /\ pr' \in [Tasks -> {"none", "proposed", "published"}] /\ pr'[t0] = "published"
        /\ \A t \in Tasks \ {t0} : pr'[t] = pr[t]
    BY <1>0, <2>1, <2>3
  <2>5. WorldGrows /\ PublishedIsComplete' /\ OnlyFinishedWork'
    BY <1>0, <2>1, <2>3, <2>4 DEF WorldGrows, PublishedIsComplete, OnlyFinishedWork
  <2>. QED BY <1>0, <2>1, <2>2, <2>4, <2>5, DeliveryRequestMoves
<1>12. CASE DeliveryFails(d)
  <2>1. del' = [del EXCEPT ![d] = IdleDel] /\ UNCHANGED <<done, issue, pr, branch, hubpr>>
    BY <1>12 DEF DeliveryFails, rows, github
  <2>2. WorldGrows /\ PublishedIsComplete' /\ OnlyFinishedWork'
    BY <1>0, <2>1 DEF WorldGrows, PublishedIsComplete, OnlyFinishedWork
  <2>. QED BY <1>0, <2>1, <2>2, DeliveryRequestMoves
<1>. QED BY <1>4, <1>5, <1>6, <1>7, <1>8, <1>9, <1>10, <1>11, <1>12

-----------------------------------------------------------------------------
(* The steps of the plan and of the publishers.                            *)
LEMMA OtherStep ==
  ASSUME DeliveryInv,
         \/ PrepareIssues \/ Approve \/ Supersede \/ StartRun \/ CancelRun
         \/ \E t \in Tasks : CompleteTask(t)
         \/ \E p \in Publishers :
              BeginPublish(p) \/ FindIssue(p) \/ PostIssue(p) \/ MarkIssue(p) \/ PublishFails(p)
  PROVE  DeliveryInv' /\ WorldGrows
<1>0. issue \in [Tasks -> IssueStates] /\ done \subseteq Tasks
  BY DEF DeliveryInv, RowsTyped
<1>1. UNCHANGED <<pr, branch, hubpr, del>>
  BY DEF PrepareIssues, Approve, Supersede, StartRun, CancelRun, CompleteTask, BeginPublish,
         FindIssue, PostIssue, MarkIssue, PublishFails, rows, github
<1>2. done \subseteq done' /\ done' \subseteq Tasks
  BY <1>0 DEF PrepareIssues, Approve, Supersede, StartRun, CancelRun, CompleteTask, BeginPublish,
         FindIssue, PostIssue, MarkIssue, PublishFails, rows, github
<1>3. CASE issue' = issue
  BY <1>0, <1>1, <1>2, <1>3, PlanSteps
<1>4. CASE PrepareIssues
  <2>1. issue' \in [Tasks -> IssueStates] /\ \A t \in Tasks : issue[t] # "published"
    BY <1>0, <1>4 DEF PrepareIssues, IssueStates
  <2>. QED BY <1>1, <1>2, <2>1, PlanSteps
<1>5. CASE Supersede
  <2>1. /\ issue' \in [Tasks -> IssueStates]
        /\ \A t \in Tasks : issue[t] = "published" => issue'[t] = "published"
    BY <1>0, <1>5 DEF Supersede, IssueStates
  <2>. QED BY <1>1, <1>2, <2>1, PlanSteps
<1>6. ASSUME NEW p \in Publishers, MarkIssue(p) PROVE DeliveryInv' /\ WorldGrows
  <2>1. issue' = issue \/ issue' = [issue EXCEPT ![Current(p)] = "published"]
    BY <1>6 DEF MarkIssue
  <2>2. /\ issue' \in [Tasks -> IssueStates]
        /\ \A t \in Tasks : issue[t] = "published" => issue'[t] = "published"
    BY <1>0, <2>1 DEF IssueStates
  <2>. QED BY <1>1, <1>2, <2>2, PlanSteps
<1>7. issue' = issue \/ PrepareIssues \/ Supersede \/ \E p \in Publishers : MarkIssue(p)
  BY DEF Approve, StartRun, CancelRun, CompleteTask, BeginPublish, FindIssue, PostIssue, PublishFails,
         rows
<1>. QED BY <1>3, <1>4, <1>5, <1>6, <1>7

(* Every step keeps what pull requests rest on and takes none of it back.  *)
LEMMA DeliveryStep == DeliveryInv /\ [DeliveryNext]_deliveryVars => DeliveryInv' /\ WorldGrows
<1> SUFFICES ASSUME DeliveryInv, [DeliveryNext]_deliveryVars PROVE DeliveryInv' /\ WorldGrows
  OBVIOUS
<1>1. CASE UNCHANGED deliveryVars
  <2>1. UNCHANGED <<done, issue, pr, branch, hubpr, del>>
    BY <1>1 DEF deliveryVars, rows, github
  <2>. QED BY <2>1, PlanSteps DEF DeliveryInv, RowsTyped
<1>2. CASE DeliveryNext
  BY <1>2, OtherStep, DeliveryRequestStep DEF DeliveryNext
<1>. QED BY <1>1, <1>2

-----------------------------------------------------------------------------
(* The task a publisher takes next is one it has to do.                    *)
LEMMA CurrentIsOpen ==
  ASSUME NEW p \in Publishers, pub[p].todo \in SUBSET Tasks, pub[p].todo # {}
  PROVE  Current(p) \in pub[p].todo
<1> DEFINE S == pub[p].todo
<1>1. S \in SUBSET Nat
  BY TasksAssumption
<1>2. PICK n \in S : \A m \in S : ~ (<<m, n>> \in OpToRel(<, Nat))
  BY <1>1, WFMin, NatLessThanWellFounded, Zenon
<1>3. \A m \in S : ~ (m < n)
  BY <1>1, <1>2 DEF OpToRel
<1>4. \A m \in S : n <= m
  BY <1>1, <1>3
<1>. QED BY <1>1, <1>4 DEF Current, Min

(* Requests about to open an issue of a task are some of the publishers.   *)
LEMMA AboutIsFinite ==
  ASSUME NEW t PROVE IsFiniteSet(About(t)) /\ Cardinality(About(t)) \in Nat
                     /\ Cardinality(About(t)) <= Cardinality(Publishers)
                     /\ Cardinality(Publishers) \in Nat
<1>1. About(t) \subseteq Publishers /\ IsFiniteSet(Publishers)
  BY RequestsAssumption DEF About
<1>. QED BY <1>1, FS_Subset, FS_CardinalityType

(* The bound survives a step that opens no issue, if whoever is newly      *)
(* about to open one has found none.                                       *)
LEMMA NothingOpened ==
  ASSUME hub \in [Tasks -> Nat], hub' = hub, NEW t \in Tasks,
         hub[t] + Cardinality(About(t)) <= Cardinality(Publishers),
         About(t)' \subseteq About(t) \/ hub[t] = 0,
         About(t)' \subseteq Publishers
  PROVE  hub'[t] + Cardinality(About(t)') <= Cardinality(Publishers)
<1>1. Cardinality(About(t)') \in Nat /\ Cardinality(About(t)') <= Cardinality(Publishers)
  BY RequestsAssumption, FS_Subset, FS_CardinalityType
<1>2. CASE About(t)' \subseteq About(t)
  <2>1. Cardinality(About(t)') <= Cardinality(About(t))
    BY <1>2, AboutIsFinite, FS_Subset
  <2>. QED BY <1>1, <2>1, AboutIsFinite
<1>3. CASE hub[t] = 0
  BY <1>1, <1>3
<1>. QED BY <1>2, <1>3

(* A request that opens an issue is no longer about to.                    *)
LEMMA OneOpened ==
  ASSUME hub \in [Tasks -> Nat], NEW p, NEW t \in Tasks, p \in About(t), hub'[t] = hub[t] + 1,
         hub[t] + Cardinality(About(t)) <= Cardinality(Publishers),
         About(t)' = About(t) \ {p}
  PROVE  hub'[t] + Cardinality(About(t)') <= Cardinality(Publishers)
<1>1. Cardinality(About(t)') = Cardinality(About(t)) - 1
  BY AboutIsFinite, FS_RemoveElement
<1>2. hub[t] \in Nat
  OBVIOUS
<1>. QED BY <1>1, <1>2, AboutIsFinite

(* What a request did not find may be there when it posts, but not more    *)
(* often than there are requests.                                          *)
LEMMA PublishingStep == PublishingInv /\ [DeliveryNext]_deliveryVars => PublishingInv'
<1> SUFFICES ASSUME PublishingInv, [DeliveryNext]_deliveryVars PROVE PublishingInv'
  OBVIOUS
<1>1. CASE UNCHANGED <<hub, pub>>
  BY <1>1 DEF PublishingInv, Current, About
<1>2. ASSUME NEW p \in Publishers,
             BeginPublish(p) \/ FindIssue(p) \/ PostIssue(p) \/ MarkIssue(p) \/ PublishFails(p)
      PROVE  PublishingInv'
  <2>0. /\ hub \in [Tasks -> Nat] /\ pub \in [Publishers -> PubRecord]
        /\ pub[p] = IdlePub \/ (pub[p].todo # {} /\ pub[p].pc # "idle")
        /\ \A t \in Tasks : hub[t] + Cardinality(About(t)) <= Cardinality(Publishers)
    BY DEF PublishingInv
  <2>1. ASSUME NEW w \in PubRecord, pub' = [pub EXCEPT ![p] = w], hub' \in [Tasks -> Nat],
               w = IdlePub \/ (w.todo # {} /\ w.pc # "idle"),
               \A t \in Tasks : hub'[t] + Cardinality(About(t)') <= Cardinality(Publishers)
        PROVE  PublishingInv'
    <3>1. pub' \in [Publishers -> PubRecord] /\ pub'[p] = w
      BY <2>0, <2>1
    <3>. QED BY <2>0, <2>1, <3>1 DEF PublishingInv
  <2>2. /\ IdlePub \in PubRecord /\ IdlePub.pc = "idle"
    BY DEF IdlePub, PubRecord
  <2>3. ASSUME NEW w \in PubRecord, pub' = [pub EXCEPT ![p] = w], NEW t
        PROVE  /\ About(t)' \subseteq Publishers
               /\ w.pc # "post" => About(t)' = About(t) \ {p}
               /\ w.pc = "post" /\ w.todo = pub[p].todo /\ Current(p) # t => About(t)' \subseteq About(t)
    <3>1. pub'[p] = w /\ \A q \in Publishers \ {p} : pub'[q] = pub[q]
      BY <2>0, <2>3
    <3>2. \A q \in Publishers \ {p} : Current(q)' = Current(q)
      BY <3>1 DEF Current
    <3>3. w.todo = pub[p].todo => Current(p)' = Current(p)
      BY <3>1 DEF Current
    <3>. QED BY <3>1, <3>2, <3>3 DEF About
  <2>4. ASSUME NEW w \in PubRecord, pub' = [pub EXCEPT ![p] = w], hub' = hub, w.pc # "post",
               w = IdlePub \/ (w.todo # {} /\ w.pc # "idle")
        PROVE  PublishingInv'
    <3>1. \A t \in Tasks : About(t)' \subseteq About(t) /\ About(t)' \subseteq Publishers
      BY <2>3, <2>4
    <3>2. \A t \in Tasks : hub'[t] + Cardinality(About(t)') <= Cardinality(Publishers)
      BY <2>0, <2>4, <3>1, NothingOpened
    <3>. QED BY <2>0, <2>1, <2>4, <3>2
  <2>5. CASE BeginPublish(p)
    <3> DEFINE open == {t \in Tasks : issue[t] = "proposed"}
               w == [pc |-> "find", todo |-> open]
    <3>1. pub' = [pub EXCEPT ![p] = w] /\ open # {} /\ hub' = hub
      BY <2>5 DEF BeginPublish, github
    <3>2. w \in PubRecord /\ w.todo # {} /\ w.pc = "find"
      BY <3>1 DEF PubRecord
    <3> HIDE DEF w
    <3>. QED BY <2>4, <3>1, <3>2
  <2>6. CASE FindIssue(p)
    <3> DEFINE w == [pub[p] EXCEPT !.pc = AfterFind(p)]
    <3>1. pub' = [pub EXCEPT ![p] = w] /\ hub' = hub /\ pub[p].pc = "find"
      BY <2>6 DEF FindIssue, Go, github
    <3>2. pub[p] \in PubRecord /\ pub[p].todo # {} /\ pub[p].todo \in SUBSET Tasks
      BY <2>0, <2>2, <3>1 DEF PubRecord
    <3>3. Current(p) \in Tasks
      BY <3>2, CurrentIsOpen
    <3>4. AfterFind(p) = "mark" \/ (AfterFind(p) = "post" /\ hub[Current(p)] = 0)
      BY <2>0, <3>3 DEF AfterFind
    <3>5. w \in PubRecord /\ w.todo = pub[p].todo /\ w.pc = AfterFind(p)
      BY <3>2, <3>4 DEF PubRecord
    <3> HIDE DEF w
    <3>6. CASE AfterFind(p) = "mark"
      BY <2>4, <3>1, <3>2, <3>5, <3>6
    <3>7. CASE AfterFind(p) = "post" /\ hub[Current(p)] = 0
      <4>1. ASSUME NEW t \in Tasks
            PROVE  /\ About(t)' \subseteq About(t) \/ hub[t] = 0
                   /\ About(t)' \subseteq Publishers
        BY <2>3, <3>1, <3>5, <3>7
      <4>2. \A t \in Tasks : hub'[t] + Cardinality(About(t)') <= Cardinality(Publishers)
        BY <2>0, <3>1, <4>1, NothingOpened
      <4>. QED BY <2>0, <2>1, <3>1, <3>2, <3>5, <3>7, <4>2
    <3>. QED BY <3>4, <3>6, <3>7
  <2>7. CASE PostIssue(p)
    <3> DEFINE went == [pub[p] EXCEPT !.pc = "mark"]
    <3>1. /\ pub[p].pc = "post" /\ hub' = [hub EXCEPT ![Current(p)] = hub[Current(p)] + 1]
          /\ pub' = [pub EXCEPT ![p] = went] \/ pub' = [pub EXCEPT ![p] = IdlePub]
      BY <2>7 DEF PostIssue, Go, PublishStops
    <3>2. pub[p] \in PubRecord /\ pub[p].todo # {} /\ pub[p].todo \in SUBSET Tasks
      BY <2>0, <2>2, <3>1 DEF PubRecord
    <3>3. went \in PubRecord /\ went.todo # {} /\ went.pc = "mark"
      BY <3>2 DEF PubRecord
    <3> HIDE DEF went
    <3>4. PICK w \in PubRecord : /\ pub' = [pub EXCEPT ![p] = w] /\ w.pc # "post"
                                 /\ w = IdlePub \/ (w.todo # {} /\ w.pc # "idle")
      BY <2>2, <3>1, <3>3
    <3>5. PICK c \in Tasks : c = Current(p)
      BY <3>2, CurrentIsOpen
    <3>6. /\ hub' \in [Tasks -> Nat] /\ hub'[c] = hub[c] + 1 /\ p \in About(c)
          /\ \A t \in Tasks \ {c} : hub'[t] = hub[t] /\ p \notin About(t)
      <4>1. hub' = [hub EXCEPT ![c] = hub[c] + 1]
        BY <3>1, <3>5
      <4>2. hub' \in [Tasks -> Nat] /\ hub'[c] = hub[c] + 1 /\ \A t \in Tasks \ {c} : hub'[t] = hub[t]
        BY <2>0, <4>1
      <4>3. p \in About(c) /\ \A t \in Tasks \ {c} : p \notin About(t)
        BY <3>1, <3>5 DEF About
      <4>. QED BY <4>2, <4>3
    <3>7. \A t \in Tasks : About(t)' = About(t) \ {p}
      BY <2>3, <3>4
    <3>8. hub'[c] + Cardinality(About(c)') <= Cardinality(Publishers)
      BY <2>0, <3>5, <3>6, <3>7, OneOpened
    <3>9. ASSUME NEW t \in Tasks \ {c}
          PROVE  hub'[t] + Cardinality(About(t)') <= Cardinality(Publishers)
      <4>1. About(t)' = About(t)
        <5>1. p \notin About(t) /\ About(t)' = About(t) \ {p}
          BY <3>6, <3>7, Zenon
        <5>2. \A kept, left : p \notin kept /\ left = kept \ {p} => left = kept
          OBVIOUS
        <5>. QED BY <5>1, <5>2, Zenon
      <4>. QED BY <2>0, <3>6, <4>1
    <3>10. \A t \in Tasks : hub'[t] + Cardinality(About(t)') <= Cardinality(Publishers)
      BY <3>8, <3>9
    <3>. QED BY <2>0, <2>1, <3>4, <3>6, <3>10
  <2>8. CASE MarkIssue(p)
    <3> DEFINE rest == pub[p].todo \ {Current(p)}
               more == [pc |-> "find", todo |-> rest]
    <3>1. /\ pub[p].pc = "mark" /\ hub' = hub
          /\ \/ pub' = [pub EXCEPT ![p] = more] /\ rest # {}
             \/ pub' = [pub EXCEPT ![p] = IdlePub]
      BY <2>8 DEF MarkIssue, github
    <3>2. more \in PubRecord /\ more.todo = rest /\ more.pc = "find"
      BY <2>0 DEF PubRecord
    <3> HIDE DEF more
    <3>. QED BY <2>2, <2>4, <3>1, <3>2
  <2>9. CASE PublishFails(p)
    <3>1. pub' = [pub EXCEPT ![p] = IdlePub] /\ hub' = hub
      BY <2>9 DEF PublishFails, PublishStops, github
    <3>. QED BY <2>2, <2>4, <3>1
  <2>. QED BY <1>2, <2>5, <2>6, <2>7, <2>8, <2>9
<1>3. \/ UNCHANGED <<hub, pub>>
      \/ \E p \in Publishers :
           BeginPublish(p) \/ FindIssue(p) \/ PostIssue(p) \/ MarkIssue(p) \/ PublishFails(p)
  BY DEF DeliveryNext, deliveryVars, rows, github, PrepareIssues, Approve, Supersede, StartRun,
         CancelRun, CompleteTask, PreparePullRequest, Deliver, SavePullRequestProposal,
         PublishBranch, LookupPullRequest, OpenPullRequest, LabelPullRequest, RequestReviewers,
         MarkPullRequest, DeliveryFails
<1>. QED BY <1>1, <1>2, <1>3

-----------------------------------------------------------------------------
(* GitHub holds the whole pull request of every row that says published,   *)
(* and only reviewed work of completed tasks whose issue is published: for *)
(* every number of tasks, requests, failed calls and lost answers.         *)
THEOREM PullRequestsAreWhole == DeliverySpec => [](PublishedIsComplete /\ OnlyFinishedWork)
<1>1. DeliveryInv => PublishedIsComplete /\ OnlyFinishedWork
  BY DEF DeliveryInv
<1>. QED BY <1>1, InitDelivery, DeliveryStep, PTL DEF DeliverySpec

(* What GitHub holds of a plan is exact: besides, however often publishing *)
(* broke off after a POST and began again, a task has no more issues than  *)
(* there are requests that publish side by side; with one request, one.    *)
THEOREM DeliversExactly == DeliverySpec => []DeliveryIsExact
<1>1. DeliveryInit => PublishingInv
  <2> SUFFICES ASSUME DeliveryInit PROVE PublishingInv
    OBVIOUS
  <2>1. /\ hub \in [Tasks -> Nat] /\ \A t \in Tasks : hub[t] = 0
        /\ pub \in [Publishers -> PubRecord] /\ \A p \in Publishers : pub[p] = IdlePub
    BY DEF DeliveryInit, IdlePub, PubRecord
  <2>2. \A t \in Tasks : About(t) = {}
    BY <2>1 DEF About, IdlePub
  <2>. QED BY <2>1, <2>2, FS_EmptySet, FS_CardinalityType, RequestsAssumption DEF PublishingInv
<1>2. PublishingInv => OneIssuePerRequest
  <2> SUFFICES ASSUME PublishingInv, NEW t \in Tasks PROVE hub[t] <= Cardinality(Publishers)
    BY DEF OneIssuePerRequest
  <2>1. hub[t] \in Nat /\ hub[t] + Cardinality(About(t)) <= Cardinality(Publishers)
    BY DEF PublishingInv
  <2>. QED BY <2>1, AboutIsFinite
<1>3. DeliveryInv /\ PublishingInv => DeliveryIsExact
  BY <1>2 DEF DeliveryInv, DeliveryIsExact
<1>. QED BY <1>1, <1>3, PublishingStep, InitDelivery, DeliveryStep, PTL DEF DeliverySpec

(* No answer of a request undoes what was decided while it worked: a       *)
(* cancelled proposal stays cancelled and a published pull request stays   *)
(* published, for every number of requests.                                *)
THEOREM DecisionsAreKept == DeliverySpec => ProposalsKeepDecisions
<1> DEFINE Cancelled == \A t \in Tasks : issue[t] = "cancelled" => issue'[t] = "cancelled"
           Delivered == \A t \in Tasks : pr[t] = "published" => pr'[t] = "published"
<1>1. DeliveryInv /\ [DeliveryNext]_deliveryVars => [Cancelled]_deliveryVars /\ [Delivered]_deliveryVars
  <2> SUFFICES ASSUME DeliveryInv, DeliveryNext PROVE Cancelled /\ Delivered
    OBVIOUS
  <2>1. Delivered
    BY DeliveryStep DEF WorldGrows
  <2>2. issue \in [Tasks -> IssueStates]
    BY DEF DeliveryInv, RowsTyped
  <2>3. CASE PrepareIssues
    BY <2>3 DEF PrepareIssues
  <2>4. CASE Supersede
    BY <2>2, <2>4 DEF Supersede
  <2>5. ASSUME NEW p \in Publishers, MarkIssue(p) PROVE Cancelled
    BY <2>2, <2>5 DEF MarkIssue, Markable
  <2>6. issue' = issue \/ PrepareIssues \/ Supersede \/ \E p \in Publishers : MarkIssue(p)
    BY DEF DeliveryNext, rows, Approve, StartRun, CancelRun, CompleteTask, BeginPublish, FindIssue, PostIssue,
           PublishFails, PreparePullRequest, Deliver, SavePullRequestProposal, PublishBranch, LookupPullRequest,
           OpenPullRequest, LabelPullRequest, RequestReviewers, MarkPullRequest, DeliveryFails
  <2>7. Cancelled
    BY <2>3, <2>4, <2>5, <2>6
  <2>. QED BY <2>1, <2>7
<1>. QED BY <1>1, InitDelivery, DeliveryStep, PTL
         DEF DeliverySpec, ProposalsKeepDecisions, CancelledStays, DeliveredStays
=================================================================================
