--------------------------- MODULE TaskVerification ---------------------------
(***************************************************************************)
(* From the coder's answer to the outcome of a task: the worktree and its  *)
(* Git operations (adapters/git/task_worktree.go), the independent         *)
(* verification (execution/verifier.go), the commit and the Testing Policy *)
(* gate (execution/testing_policy.go), as functions of what they find.     *)
(* TaskExecution has the order, the crashes and the reviewer.              *)
(*                                                                         *)
(* A path is a sequence of segments; the content of a path is a version, 0 *)
(* that of the planned base.  A commit is named by what it holds.  Errors  *)
(* are records with ok |-> FALSE.                                          *)
(***************************************************************************)
EXTENDS Naturals, FiniteSets, Sequences, TLC

Failed == [ok |-> FALSE]

-----------------------------------------------------------------------------
(* Write scopes.  "*" stands for one segment, "**" for any number of them, *)
(* for at least one at the end of a pattern.                               *)
matchScope(pattern, name) ==
  LET rest[i \in 1..(Len(pattern) + 1), j \in 1..(Len(name) + 1)] ==
        IF i > Len(pattern) THEN j > Len(name)
        ELSE IF pattern[i] = "**" /\ i < Len(pattern) THEN \E k \in j..(Len(name) + 1) : rest[i + 1, k]
        ELSE IF pattern[i] = "**" THEN j <= Len(name)
        ELSE j <= Len(name) /\ pattern[i] \in {"*", name[j]} /\ rest[i + 1, j + 1]
  IN  pattern = name \/ rest[1, 1]

OutsideIfAllAre(files, scopes) == IF \E f \in files, s \in scopes : matchScope(s, f) THEN {} ELSE files
filesOutsideScope(files, scopes) == {f \in files : \A s \in scopes : ~matchScope(s, f)}

(* A migration "m.up" needs its "m.down" in the same directory.            *)
DownOf == ("1.up" :> "1.down" @@ "2.up" :> "2.down")
Base(file) == file[Len(file)]
migrationPairsPresent(files) ==
  \E f \in files : Base(f) \in DOMAIN DownOf /\ [f EXCEPT ![Len(f)] = DownOf[Base(f)]] \in files
ContractRoots == {<<"api">>, <<"proto">>, <<"contracts">>, <<".ai", "contracts">>}
ContractNames == {"openapi", "asyncapi", "a.proto"}
contractChangePresent(files) ==
  \E f \in files : Base(f) \in ContractNames
                   \/ \E r \in ContractRoots : Len(r) < Len(f) /\ SubSeq(f, 1, Len(r)) = r

-----------------------------------------------------------------------------
(* The worktree: the versions in the base, the HEAD of its branch and the  *)
(* files, and whether it is where and what the task says.                  *)
Changed(wt) == {f \in DOMAIN wt.tree : wt.tree[f] # 0}
Dirty(wt) == {f \in DOMAIN wt.tree : wt.tree[f] # wt.head[f]}
AtBase(wt) == \A f \in DOMAIN wt.head : wt.head[f] = 0

validateWorkspace(wt) == wt.planned /\ wt.inside /\ wt.ours /\ wt.descends

Inspect(wt) == IF validateWorkspace(wt) THEN [ok |-> TRUE, files |-> Changed(wt)] ELSE Failed

(* The allowlist.  The policy runner's own commands carry its run and the  *)
(* two commits, which must look like that.                                 *)
PlainCommands == {"git diff --check", "go test", "go vet", "npm test", "npm run lint", "npm run build"}
allowedTestingPolicyCommand(c) ==
  \/ c.policy = "verify-lock"
  \/ c.policy \in {"verify", "dod"} /\ c.run # "" /\ c.full
allowedVerificationCommand(c) == c \in PlainCommands

(* A command that may run passes or fails and may change files of the      *)
(* worktree; another one, or one that does not start, is an error.         *)
RunCheck(command, run) ==
  IF ~allowedVerificationCommand(command) \/ run.exit = "error" THEN [exit |-> "error", writes |-> {}] ELSE run

(* An artifact is a bounded regular file inside the worktree.              *)
taskRelativePath(a) == a.relative
ReadArtifact(a) == taskRelativePath(a) /\ a.exists /\ a.inside /\ a.regular /\ a.small

-----------------------------------------------------------------------------
(* Prepare: an existing worktree is reused, an existing branch is checked  *)
(* out again, otherwise a branch starts at the planned base.               *)
AddWorktree(d) ==
  IF d.worktree # "none" THEN [branch |-> d.worktree, tree |-> d.files, head |-> d.branch]
  ELSE LET start == IF d.hasBranch THEN d.branch ELSE [f \in DOMAIN d.branch |-> 0] IN
       [branch |-> "own", tree |-> start, head |-> start]

needsNPM(commands) == \E c \in commands : c \in {"npm test", "npm run lint", "npm run build"}

(* Dependencies are installed once: node_modules of an earlier delivery is *)
(* taken as it is.                                                         *)
prepareNodeDependencies(d, commands) ==
  IF ~needsNPM(commands) \/ d.modules THEN [ok |-> TRUE, modules |-> d.modules]
  ELSE IF d.lock = "regular" /\ d.installs THEN [ok |-> TRUE, modules |-> TRUE] ELSE Failed

Prepare(d, commands) ==
  LET got == AddWorktree(d) IN
  IF ~d.connected \/ ~d.atPlannedHead \/ d.sourceDirty \/ got.branch # "own" \/ ~d.ours \/ ~d.descends THEN Failed
  ELSE LET deps == prepareNodeDependencies(d, commands) IN
       IF ~deps.ok THEN Failed
       ELSE [ok |-> TRUE, modules |-> deps.modules,
             wt |-> [head |-> got.head, tree |-> got.tree, planned |-> TRUE, inside |-> TRUE, ours |-> TRUE, descends |-> TRUE]]

-----------------------------------------------------------------------------
(* A blocked or failed answer whose only trouble is a check that the       *)
(* coder's sandbox could not run is verified like a completed one, and the *)
(* check counts as skipped.                                                *)
promoteVerifiableBlockedResult(task, result) ==
  LET unsuccessful == {c \in DOMAIN result.checks : result.checks[c] # "passed"} IN
  IF /\ result.status \in {"blocked", "failed"} /\ ~result.prerequisites /\ result.files # {} /\ result.blockers
     /\ unsuccessful # {} /\ unsuccessful \subseteq task.commands \cup {"git diff --check"}
  THEN [result EXCEPT !.status = "completed", !.blockers = FALSE,
                      !.checks = [c \in DOMAIN @ |-> IF @[c] = "passed" THEN @[c] ELSE "skipped"]]
  ELSE result

Written == 9
RunAll(wt, commands, runs) ==
  LET ran == [c \in commands |-> RunCheck(c, runs[c])]
      writes == UNION {ran[c].writes : c \in commands}
  IN  [exits |-> [c \in commands |-> ran[c].exit],
       wt |-> [wt EXCEPT !.tree = [f \in DOMAIN @ |-> IF f \in writes THEN Written ELSE @[f]]]]

ClaimFails(claim, exit) == claim = "failed" \/ (claim = "passed" /\ exit # "pass")
Commands(task) == task.commands \cup {"git diff --check"}
ClaimsHold(task, result, exits) ==
  \A c \in DOMAIN result.checks : ~ClaimFails(result.checks[c], IF c \in Commands(task) THEN exits[c] ELSE "absent")
sameFileSet(left, right) == left = right

Verify(task, wt, result, runs) ==
  LET state == Inspect(wt)
      ran == RunAll(wt, Commands(task), runs)
  IN
  IF ~state.ok THEN [ok |-> FALSE, files |-> {}, exits |-> << >>, wt |-> wt]
  ELSE [ok |-> /\ result.status = "completed" /\ state.files # {}
               /\ sameFileSet(state.files, result.files) /\ filesOutsideScope(state.files, task.scope) = {}
               /\ task.migration => migrationPairsPresent(state.files)
               /\ task.contracts => contractChangePresent(state.files)
               /\ \A c \in Commands(task) : ran.exits[c] = "pass"
               /\ ClaimsHold(task, result, ran.exits)
               /\ \A a \in result.artifacts : ReadArtifact(a),
        files |-> state.files, exits |-> ran.exits, wt |-> ran.wt]

(* The commit holds the verified files, which must still be what changed.  *)
samePaths(left, right) == left = right
ToStage(wt, verified) == Dirty(wt) \cap verified

Commit(wt, verified, source) ==
  LET state == Inspect(wt)
      staged == ToStage(wt, verified)
  IN
  IF ~state.ok \/ ~samePaths(state.files, verified) THEN Failed
  ELSE IF Dirty(wt) = {} THEN IF ~AtBase(wt) /\ state.files # {} THEN [ok |-> TRUE, head |-> wt.head] ELSE Failed
  ELSE IF verified = {} \/ ~samePaths(staged, verified) \/ source.moved \/ source.dirty THEN Failed
  ELSE [ok |-> TRUE, head |-> [f \in DOMAIN wt.head |-> IF f \in staged THEN wt.tree[f] ELSE wt.head[f]]]

-----------------------------------------------------------------------------
(* The Testing Policy gate.  The runner writes a report for this run, may  *)
(* fail to, and then an earlier one may still be there.                    *)
LifecycleStates == {"IMPLEMENTATION_IN_PROGRESS", "IMPLEMENTATION_COMPLETE", "VERIFICATION_PENDING", "DONE", "BLOCKED",
                    "BUSINESS_ACCEPTANCE_PENDING"}
AcceptanceCodes == {"DOD_BUSINESS_ACCEPTANCE_PENDING", "DOD_BUSINESS_ACCEPTANCE_INVALID"}

SameIdentity(report, head) == report.ofBase /\ report.head = head

validateTestingPolicyDodReport(report, head) ==
  LET acceptance == {b \in report.blockers : b.code \in AcceptanceCodes} IN
  /\ report.schema /\ SameIdentity(report, head)
  /\ report.lifecycle \in LifecycleStates
  /\ report.acceptance \in {"NOT_REQUIRED", "EVIDENCE_PRESENT", "PENDING"}
  /\ \A b \in acceptance : b.severity = "PENDING"
  /\ acceptance # {} => report.acceptance = "PENDING"
  /\ report.lifecycle = "DONE" => report.acceptance # "PENDING"
  /\ report.lifecycle = "BUSINESS_ACCEPTANCE_PENDING" =>
       /\ report.acceptance = "PENDING" /\ acceptance # {}
       /\ \A b \in report.blockers \ acceptance : b.severity \notin {"PENDING", "BLOCKING"}
       /\ \A b \in report.blockers : b.severity # "BLOCKING"

(* What the reviewed pins of the orchestrator say the repository holds.    *)
PinnedBundle(gate) == gate.lock = "pinned" /\ gate.bundle = "pinned"

DodCommand(gate) == [policy |-> "dod", run |-> gate.run, full |-> gate.full]

DoneAndClean(gate, report) ==
  report.lifecycle = "DONE" /\ report.blockers = {} /\ gate.dod = 0 /\ gate.verify = 0

(* The report the runner wrote for these commits, or the one left there.   *)
ReportFound(gate, head) == IF gate.writes THEN [gate.report EXCEPT !.head = head] ELSE gate.left

VerifyTask(gate, head) ==
  LET report == ReportFound(gate, head)
      lifecycle == IF DoneAndClean(gate, report) \/ report.lifecycle # "DONE" THEN report.lifecycle ELSE "BLOCKED"
  IN
  IF gate.run = "" \/ ~gate.full \/ ~PinnedBundle(gate) \/ gate.verifyLock # 0 THEN [ok |-> FALSE, evidence |-> FALSE]
  ELSE IF gate.evidence = "unsafe" THEN [ok |-> FALSE, evidence |-> FALSE]
  ELSE IF \/ gate.dod \notin {0, 2} \/ ~allowedTestingPolicyCommand(DodCommand(gate))
          \/ ~report.readable \/ ~validateTestingPolicyDodReport(report, head)
       THEN [ok |-> FALSE, evidence |-> gate.evidence = "present"]
  ELSE [ok |-> TRUE, evidence |-> gate.evidence = "present", lifecycle |-> lifecycle]

(* What Execute does with it.  The files named in the outcome are read     *)
(* once more to be stored.                                                 *)
storeArtifacts(artifacts) == \A a \in artifacts : ReadArtifact(a)
Decide(result, policy) ==
  IF ~policy.ok THEN "blocked"
  ELSE IF ~storeArtifacts(result.artifacts) THEN "error"
  ELSE IF policy.lifecycle = "DONE" THEN "completed" ELSE "blocked"

(* One delivery, from the coder's answer on, with an approving reviewer.   *)
Deliver(q) ==
  LET result == promoteVerifiableBlockedResult(q.task, q.result)
      verified == Verify(q.task, q.wt, result, q.runs)
      commit == Commit(verified.wt, verified.files, q.source)
      policy == VerifyTask(q.gate, IF commit.ok THEN commit.head ELSE << >>)
      until == IF result.status # "completed" THEN result.status
               ELSE IF ~verified.ok THEN "changes_requested"
               ELSE IF ~commit.ok THEN "error" ELSE Decide(result, policy)
  IN  [outcome |-> until, verified |-> verified, head |-> IF commit.ok THEN commit.head ELSE q.wt.head]

(***************************************************************************)
(* What a delivery promises.                                               *)
(***************************************************************************)
Committed(answer) == {f \in DOMAIN answer.head : answer.head[f] # 0}
InWriteScope(f, scopes) == \E s \in scopes : matchScope(s, f)

(* Completed work is what the coder claimed and is in the commit, its      *)
(* required commands ran and passed, and the commit has nothing outside    *)
(* the write scope that an earlier commit of the branch had not; although  *)
(* commands may change files after the worktree was inspected.  A commit   *)
(* is new only while the source is as it was; one that is found is taken.  *)
OutcomeIsEarned(q, answer) ==
  LET files == answer.verified.files IN
  answer.outcome = "completed" =>
    /\ files = q.result.files /\ files \subseteq Committed(answer)
    /\ \A f \in Committed(answer) : q.wt.head[f] # 0 \/ InWriteScope(f, q.task.scope)
    /\ \A c \in q.task.commands : answer.verified.exits[c] = "pass"
    /\ q.task.migration => migrationPairsPresent(files)
    /\ q.task.contracts => contractChangePresent(files)
    /\ answer.head # q.wt.head => ~q.source.dirty /\ ~q.source.moved

(* A task completes only with a report for exactly its commit that the     *)
(* pinned policy runner calls done without blockers or open acceptance.    *)
DoneIsProven(q, answer) ==
  LET report == ReportFound(q.gate, answer.head) IN
  answer.outcome = "completed" =>
    /\ q.gate.bundle = "pinned" /\ q.gate.verifyLock = 0 /\ q.gate.verify = 0 /\ q.gate.evidence # "unsafe"
    /\ report.readable /\ report.head = answer.head
    /\ report.lifecycle = "DONE" /\ report.blockers = {} /\ report.acceptance \in {"NOT_REQUIRED", "EVIDENCE_PRESENT"}

(* A delivery that was lost after its commit is repeated: whether its      *)
(* worktree is still there or only the branch, Prepare gives the work back *)
(* and verification and commit end with the same commit.                   *)
Disk(worktree, answer, tree) ==
  [connected |-> TRUE, atPlannedHead |-> TRUE, sourceDirty |-> FALSE, worktree |-> worktree, hasBranch |-> TRUE, branch |-> answer.head, files |-> tree,
   ours |-> TRUE, descends |-> TRUE, modules |-> FALSE, lock |-> "regular", installs |-> TRUE]
RepeatedCommitIsSame(q, answer) ==
  LET tree == answer.verified.wt.tree IN
  answer.outcome = "completed" /\ tree = answer.head =>
    \A worktree \in {"own", "none"} :
      LET again == Prepare(Disk(worktree, answer, tree), q.task.commands) IN
      again.ok /\ LET repeated == Deliver([q EXCEPT !.wt = again.wt])
                  IN  <<repeated.outcome, repeated.head>> = <<"completed", answer.head>>

(* A task is completed over verified work only, however often delivered.   *)
DeliveryIsSound(q) ==
  LET answer == Deliver(q) IN
  OutcomeIsEarned(q, answer) /\ DoneIsProven(q, answer) /\ RepeatedCommitIsSame(q, answer)
=============================================================================
