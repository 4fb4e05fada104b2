-------------------------- MODULE ManifestPublication --------------------------
(***************************************************************************)
(* How the changes a manifest tool planned reach the checkout, file by     *)
(* file, while an editor may touch the files, a write may fail and the     *)
(* command may be killed.  Reconciliation checks every file again before   *)
(* it replaces or removes it and undoes what it did when a step fails;     *)
(* scaffolding only creates files that do not exist; drawing replaces the  *)
(* diagrams.  Every write is atomic; a file may still be touched between   *)
(* the check and the write, except that a create never replaces.           *)
(***************************************************************************)
EXTENDS ArchitectureManifests

CONSTANTS Trees,       \* the checkouts to start from
          Report,      \* what discovery found
          Tools,       \* the commands that may run
          Texts,       \* what an editor may leave at a path
          Faults       \* edits + failed writes + kills
VARIABLES tree, job, touched, faults
vars == <<tree, job, touched, faults>>

Idle == [tool |-> "none", phase |-> "idle", files |-> <<>>, next |-> 1, runs |-> 0, kept |-> {}, clean |-> TRUE]
Current == job.files[job.next]
At(path) == IF path \in DOMAIN tree THEN {tree[path]} ELSE {}
UncheckedFile(file) == file.before = {} => At(file.path) = {}
checkReconcileFile(file) == At(file.path) = file.before

PlanOf(tool) ==
  CASE tool = "scaffold"  -> ScaffoldHTTPManifests(tree, Report)
    [] tool = "reconcile" -> ReconcileHTTPManifests(tree, Report)
    [] OTHER              -> GenerateFiles(tree)

Init == tree \in Trees /\ job = Idle /\ touched = << >> /\ faults = 0

(* The command reads the checkout and computes its changes.                *)
Start(tool) ==
  /\ job.phase \in {"idle", "killed", "failed"} /\ job.runs < 2 /\ (job.runs > 0 => tool = job.tool)
  /\ LET plan == PlanOf(tool)
     IN  job' = [tool |-> tool, phase |-> IF plan.ok THEN "planned" ELSE "refused", files |-> plan.files, next |-> 1,
                 runs |-> job.runs + 1, kept |-> {}, clean |-> job.clean]
  /\ touched' = << >> /\ UNCHANGED <<tree, faults>>

(* Before anything is written every original and destination is checked.   *)
Preflight ==
  /\ job.phase = "planned"
  /\ LET fine == \A c \in ToSet(job.files) : (job.tool = "reconcile" => checkReconcileFile(c)) /\ (job.tool = "scaffold" => At(c.path) = {})
     IN  job' = [job EXCEPT !.phase = IF ~fine THEN "failed" ELSE IF job.files = <<>> THEN "done" ELSE "publish"]
  /\ UNCHANGED <<tree, touched, faults>>

(* Only reconciliation undoes the files it wrote.                          *)
Failed == [job EXCEPT !.phase = IF job.tool = "reconcile" /\ job.next > 1 THEN "rollback" ELSE "failed", !.next = @ - 1]

CheckFile ==
  /\ job.phase = "publish"
  /\ LET fine == CASE job.tool = "reconcile" -> checkReconcileFile(Current) [] job.tool = "scaffold" -> At(Current.path) = {} [] OTHER -> TRUE
     IN  job' = IF fine THEN [job EXCEPT !.phase = "checked"] ELSE Failed
  /\ UNCHANGED <<tree, touched, faults>>

(* A new file is linked into place, which fails if the path is taken; a    *)
(* diagram and a manifest that exists are renamed over.                    *)
WriteFile ==
  /\ job.phase = "checked"
  /\ IF (job.tool # "generate" /\ Current.before = {} /\ At(Current.path) # {}) \/ (Current.after = {} /\ At(Current.path) = {})
     THEN job' = Failed /\ UNCHANGED tree
     ELSE /\ tree' = Applied(tree, Current)
          /\ job' = [job EXCEPT !.phase = IF job.next = Len(job.files) THEN "done" ELSE "publish", !.next = @ + 1]
  /\ UNCHANGED <<touched, faults>>

WriteFails ==
  /\ job.phase = "checked" /\ faults < Faults
  /\ job' = Failed /\ faults' = faults + 1 /\ UNCHANGED <<tree, touched>>

(* A file somebody touched after it was written is left to its editor.     *)
(* Check and write of a restored file (reconcile.go:327-336) are one step: *)
(* an edit in between would be lost, as in the window of InWindow.         *)
Undo(c) == Change(c.path, c.after, c.before)
RollbackFile ==
  /\ job.phase = "rollback"
  /\ tree' = IF checkReconcileFile(Undo(Current)) THEN Applied(tree, Undo(Current)) ELSE tree
  /\ job' = [job EXCEPT !.next = @ - 1, !.phase = IF job.next = 1 THEN "failed" ELSE "rollback"]
  /\ UNCHANGED <<touched, faults>>
RollbackFails ==
  /\ job.phase = "rollback" /\ faults < Faults
  /\ job' = [job EXCEPT !.next = @ - 1, !.phase = IF job.next = 1 THEN "failed" ELSE "rollback", !.kept = @ \cup {Current.path}]
  /\ faults' = faults + 1 /\ UNCHANGED <<tree, touched>>

(* An editor writes or removes a file; what the tool is just replacing is  *)
(* the window in which the documentation asks callers to stay away.        *)
InWindow(path) ==
  IF job.tool = "generate" THEN \E c \in ToSet(job.files) : c.path = path
  ELSE job.phase = "checked" /\ Current.path = path /\ Current.before # {}
Edit(path, text) ==
  /\ faults < Faults /\ At(path) # text /\ ~InWindow(path)
  /\ tree' = Applied(tree, Change(path, At(path), text))
  /\ touched' = With(touched, path, text)
  /\ faults' = faults + 1 /\ job' = [job EXCEPT !.clean = FALSE]

Kill ==
  /\ job.phase \in {"planned", "publish", "checked", "rollback"} /\ faults < Faults
  /\ job' = [job EXCEPT !.phase = "killed"] /\ faults' = faults + 1 /\ UNCHANGED <<tree, touched>>

Paths == {Service} \cup {c.path : c \in ToSet(job.files)}
Next ==
  \/ \E tool \in Tools : Start(tool)
  \/ Preflight \/ CheckFile \/ WriteFile \/ WriteFails \/ RollbackFile \/ RollbackFails \/ Kill
  \/ \E path \in Paths, text \in Texts : Edit(path, text)
Spec == Init /\ [][Next]_vars

(***************************************************************************)
(* What publication promises.                                              *)
(***************************************************************************)
(* What an editor left since the command read the checkout is never lost:  *)
(* no write, removal or rollback goes over it (checkReconcileFile,         *)
(* scaffoldCreateNew).  An edit that leaves what the command read there or *)
(* what it wants there cannot be told from the command's own work.         *)
EditsSurvive ==
  \A path \in DOMAIN touched :
    \/ At(path) = touched[path]
    \/ \E c \in ToSet(job.files) : c.path = path /\ touched[path] \in {c.before, c.after}

(* A reconciliation that failed leaves every file it planned to change as  *)
(* it was, or to its editor; a file it could not restore is reported       *)
(* (applyReconciliation's rollback).                                       *)
FailuresUndo ==
  job.tool = "reconcile" /\ job.phase = "failed" =>
    \A c \in ToSet(job.files) : At(c.path) = c.before \/ c.path \in DOMAIN touched \cup job.kept

(* A scaffold that was interrupted goes on where it stopped, whatever part *)
(* of its files it had written, and a command that is done leaves nothing  *)
(* to do (ScaffoldHTTPManifests, ReconcileHTTPManifests).                  *)
InterruptedResumes ==
  job.clean =>
    /\ job.tool = "scaffold" /\ job.runs = 2 => job.phase # "refused"
    /\ job.phase = "done" /\ job.tool # "generate" => PlanOf(job.tool) = [ok |-> TRUE, files |-> <<>>]
=============================================================================
