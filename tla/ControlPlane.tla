------------------------------ MODULE ControlPlane ------------------------------
(***************************************************************************)
(* The control plane's components that decide or record something about an *)
(* architecture, a project, a conversation or a merge request.  They share *)
(* no state: each is a specification of its own, and they run side by side.*)
(***************************************************************************)
EXTENDS TargetWorkflow, ProjectRegistry, Conversation, GitLabLinks

ControlSpec == TargetSpec /\ RegistrySpec /\ TalkSpec /\ LinkSpec

(* What is settled stays settled: the decision on a TARGET, an archived    *)
(* project, an answer, a merged request, whoever else is at work.          *)
SettledStays == DecisionStands /\ ArchivedUntilRestored /\ AnswerStays /\ MergedStays
=============================================================================
