------------------------------- MODULE Knowledge -------------------------------
(***************************************************************************)
(* What the orchestrator promises about the repositories it works on, for  *)
(* one question at a time beside a checkout under publication: the         *)
(* question is that of ContextRetrieval, where PacksAreTrue says what is   *)
(* promised of packs; the checkout is that of ManifestPublication.  How    *)
(* questions are asked is left open.                                       *)
(***************************************************************************)
EXTENDS ManifestPublication, ContractBaseline, ContextRetrieval, CatalogExport

Work == INSTANCE TaskVerification
Assets == INSTANCE AgentControl

(* No tool loses what a person wrote: edits of a checkout survive its      *)
(* manifest tools, failed reconciliations undo themselves, and             *)
(* distributions leave what owners made (applyReconciliation,              *)
(* scaffoldCreateNew, DistributionService.Apply).                          *)
LocalWorkIsKept ==
  /\ EditsSurvive /\ FailuresUndo
  /\ About("distribute") => Assets!DistributionKeepsLocalWork(question.q)

(* Freezing contracts: placeholders, both gates and the recorded baseline  *)
(* agree on what was approved (materializer.go, verifier.go, baseline.go). *)
ContractsAreFrozen == About("freeze") => FreezeIsSound(question.q)

(* A task is completed over verified work only, however often delivered    *)
(* (VerifyTask, TaskWorktree).                                             *)
WorkIsVerified == About("work") => Work!DeliveryIsSound(question.q)

(* What is said of Architecture CURRENT is so: verified roots were proven, *)
(* declarations meet in edges or are debt, a graph without diagnostics was *)
(* proven whole, and a fleet graph rests on its lock alone (Verify, Build, *)
(* Export, FleetExport).                                                   *)
CurrentIsTrue ==
  LET q == question.q
  IN  /\ About("verify") => VerifiedIsProven(q)
      /\ About("maps") => DeclarationsAreAccounted(q, BuildCatalog(q))
      /\ About("export") => CleanIsProven(q.topology, q.latest, q.blobs, q.request, ExportCurrent(q.topology, q.latest, q.blobs, q.request, q.producer))
      /\ About("fleet") => FleetGraphIsLocked(q.fleet, q.request, FleetExport(q.fleet, q.blobs, q.request, q.producer))
=============================================================================
