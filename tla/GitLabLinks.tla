------------------------------ MODULE GitLabLinks ------------------------------
(***************************************************************************)
(* The link of an onboarding run to its GitLab merge request, kept up to   *)
(* date by webhooks: ApplyGitLabWebhook of                                 *)
(* adapters/postgres/gitlab_repository.go.  GitLab emits its events in     *)
(* order and delivers them late, again and out of order; the link is       *)
(* published at some time in between.                                      *)
(***************************************************************************)
EXTENDS Naturals, Sequences, FiniteSets

CONSTANTS
  MaxEvents \* bound: events GitLab emits

ASSUME EventsAssumption == MaxEvents \in Nat

MergeStates    == {"opened", "closed", "locked", "merged"}
PipelineStates == {"running", "success"}

VARIABLES
  remote,  \* what the merge request is in GitLab
  emitted, \* the events GitLab has emitted, in order
  link,    \* the gitlab_link row
  recorded \* the gitlab_webhook_event rows, in the order they were written

linkVars == <<remote, emitted, link, recorded>>

NoLink == [merge |-> "none", pipeline |-> "none", last |-> 0]
Known(e) == \E i \in DOMAIN recorded : recorded[i].event = e

LinkTypeOK ==
  /\ remote \in MergeStates /\ Len(emitted) <= MaxEvents
  /\ link.merge \in MergeStates \cup {"none", "unknown"}
  /\ link.pipeline \in PipelineStates \cup {"none"}
  /\ \A i \in DOMAIN recorded : recorded[i].event \in DOMAIN emitted
                             /\ recorded[i].status \in {"processed", "ignored"}

LinkInit ==
  /\ remote = "opened" /\ emitted = <<>> /\ link = NoLink /\ recorded = <<>>

(* validExternalTransition, for a merge request                            *)
ValidTransition(from, to) ==
  \/ from = to \/ from = "unknown"
  \/ from \in {"opened", "locked"} /\ to \in MergeStates
  \/ from = "closed" /\ to \in MergeStates \ {"merged"}

(* GitLab merges, closes, locks or reopens the request, or runs a pipeline.*)
RemoteChanges(to) ==
  /\ Len(emitted) < MaxEvents /\ to # remote /\ ValidTransition(remote, to)
  /\ remote' = to
  /\ emitted' = Append(emitted, [kind |-> "merge_request", value |-> to])
  /\ UNCHANGED <<link, recorded>>

RemotePipeline(status) ==
  /\ Len(emitted) < MaxEvents
  /\ emitted' = Append(emitted, [kind |-> "pipeline", value |-> status])
  /\ UNCHANGED <<remote, link, recorded>>

(* RecordPublication upserts the link of a published merge request; its    *)
(* states start unknown, and a repeated publication keeps them.            *)
LinkPublished ==
  /\ link' = IF link = NoLink THEN [link EXCEPT !.merge = "unknown"] ELSE link
  /\ UNCHANGED <<remote, emitted, recorded>>

(* ApplyGitLabWebhook: a known event changes nothing; one without a link   *)
(* is recorded as ignored; a refused one is not recorded.                  *)
Forgotten(e) == FALSE
Duplicate(e) == Known(e)

Moved(e) ==
  [link EXCEPT !.last = e,
               !.merge = IF emitted[e].kind = "pipeline" THEN @ ELSE emitted[e].value,
               !.pipeline = IF emitted[e].kind = "pipeline" THEN emitted[e].value ELSE @]

Record(e, status) == recorded' = Append(recorded, [event |-> e, status |-> status])

Deliver(e) ==
  /\ ~Duplicate(e)
  /\ \/ link = NoLink /\ Record(e, "ignored") /\ UNCHANGED link
     \/ /\ link # NoLink
        /\ emitted[e].kind = "pipeline" \/ ValidTransition(link.merge, emitted[e].value)
        /\ Record(e, "processed") /\ link' = Moved(e)
  /\ UNCHANGED <<remote, emitted>>

LinkNext ==
  \/ \E to \in MergeStates : RemoteChanges(to)
  \/ \E status \in PipelineStates : RemotePipeline(status)
  \/ LinkPublished
  \/ \E e \in DOMAIN emitted : Len(recorded) <= MaxEvents /\ Deliver(e)

LinkSpec == LinkInit /\ [][LinkNext]_linkVars

-----------------------------------------------------------------------------
(* What a redelivered event may not undo: as long as the events that a     *)
(* link processed for the first time came in the order GitLab emitted      *)
(* them, it shows the last state among them, whatever came again since.    *)
FirstTime == {i \in DOMAIN recorded :
                /\ recorded[i].status = "processed"
                /\ \A j \in 1..(i - 1) : recorded[j].event # recorded[i].event}
InOrder   == \A i, j \in FirstTime : i < j => recorded[i].event < recorded[j].event
Shown     == {recorded[i].event : i \in {j \in FirstTime :
                emitted[recorded[j].event].kind = "merge_request"}}

RedeliveryUndoesNothing ==
  InOrder /\ Shown # {} =>
    link.merge = emitted[CHOOSE e \in Shown : \A f \in Shown : f <= e].value

(* The link follows its merge request under repeated and reordered events. *)
LinkFollows == LinkTypeOK /\ RedeliveryUndoesNothing

(* A merged request stays merged: no late event reopens it, and no         *)
(* repeated publication of its link.                                       *)
MergedStays == [][link.merge = "merged" => link'.merge = "merged"]_linkVars
=============================================================================
