---------------------------- MODULE TargetWorkflow ----------------------------
(***************************************************************************)
(* The life of a TARGET proposal: created and revised against CURRENT,     *)
(* submitted, decided, turned into a command, a plan and issue drafts, and *)
(* verified against a later CURRENT.  The use cases read the stored row,   *)
(* check it, and only then call the store, which checks again under a row  *)
(* lock; owners act side by side, CURRENT moves under them, and an         *)
(* integration may fail between its three calls and be asked for again.    *)
(***************************************************************************)
EXTENDS TargetPolicy

CONSTANTS
  Catalogs,   \* the CURRENT catalogs the platform may move through
  Asks,       \* the sets of changes an owner may ask for
  Keys,       \* idempotency keys of create requests
  Owners,     \* concurrent owner requests
  Integrators, \* concurrent requests for an implementation plan
  MaxPlans    \* bound: versions of one command's plan

(* The relations of a catalog connect services, or lead to what it could   *)
(* not resolve.                                                            *)
ASSUME CatalogsAssumption ==
  /\ IsFiniteSet(Services) /\ External \notin Services
  /\ \A cat \in Catalogs :
       /\ cat.services \subseteq Services
       /\ \A r \in cat.rels : r.from \in Services /\ r.to \in Services \cup {External}

VARIABLES
  current,    \* the CURRENT catalog
  proposals,  \* the stored proposal of each key
  commands,   \* how many commands each proposal has
  plans,      \* the plan of each proposal's command
  delivered,  \* projects of the plan the last finished integration returned
  desk,       \* owner requests
  maker,      \* integration requests
  reply       \* the answer to the last revision of an untouched draft

targetVars == <<current, proposals, commands, plans, delivered, desk, maker, reply>>

NoProposal == [status |-> "none"]
NoPlan     == [version |-> 0, issues |-> "none"]
Idle       == [pc |-> "idle"]
Stored     == {k \in Keys : proposals[k] # NoProposal}

TargetTypeOK ==
  /\ current \in Catalogs
  /\ \A k \in Stored : /\ proposals[k].status \in {"draft", "submitted", "approved", "rejected",
                                                    "changes_requested"}
                       /\ proposals[k].revision \in Nat \ {0}
                       /\ proposals[k].base \in Catalogs /\ proposals[k].changes \in Asks
  /\ commands \in [Keys -> Nat]
  /\ \A k \in Keys : plans[k].issues \in {"none", "missing", "proposed", "published"}
  /\ \A o \in Owners : desk[o].pc \in {"idle", "seen", "write"}
  /\ \A i \in Integrators : maker[i].pc \in {"idle", "command", "plan", "drafts"}
  /\ reply \in {"none", "accepted", "refused"}

TargetInit ==
  /\ current \in Catalogs
  /\ proposals = [k \in Keys |-> NoProposal]
  /\ commands = [k \in Keys |-> 0] /\ plans = [k \in Keys |-> NoPlan]
  /\ delivered = [k \in Keys |-> {}]
  /\ desk = [o \in Owners |-> Idle] /\ maker = [i \in Integrators |-> Idle]
  /\ reply = "none"

-----------------------------------------------------------------------------
(* A scan, a manifest change or a topology rebuild gives another CURRENT.  *)
CurrentMoves ==
  /\ current' \in Catalogs \ {current}
  /\ UNCHANGED <<proposals, commands, plans, delivered, desk, maker, reply>>

(* Create stores a draft of revision one; a repeated key returns the row.  *)
CreateTarget(k, changes) ==
  /\ Verified(current)
  /\ \A c \in changes : ValidChange(c) /\ NamesKnown(current, c)
  /\ k \notin Stored
  /\ proposals' = [proposals EXCEPT ![k] =
       [status |-> "draft", revision |-> 1, base |-> current, changes |-> changes]]
  /\ UNCHANGED <<current, commands, plans, delivered, desk, maker, reply>>

(* An owner opens the proposal and later decides what to ask.              *)
ReviewTarget(o, k) ==
  /\ desk[o] = Idle /\ k \in Stored
  /\ desk' = [desk EXCEPT ![o] = [pc |-> "seen", key |-> k, revision |-> proposals[k].revision]]
  /\ UNCHANGED <<current, proposals, commands, plans, delivered, maker, reply>>

(* Submit and decide: the use case reads the row and refuses another       *)
(* status or revision than the owner saw.                                  *)
CheckTransition(o, to) ==
  /\ desk[o].pc = "seen"
  /\ LET p == proposals[desk[o].key] IN
       desk' = [desk EXCEPT ![o] =
         IF /\ p.revision = desk[o].revision
            /\ p.status = (IF to = "submitted" THEN "draft" ELSE "submitted")
         THEN [pc |-> "write", key |-> @.key, revision |-> @.revision, to |-> to]
         ELSE Idle]
  /\ UNCHANGED <<current, proposals, commands, plans, delivered, maker, reply>>

(* ArchitectureTargetRepoPG.Transition checks again under the row lock.    *)
Trusted(p, revision, to) == TRUE
Storable(p, revision, to) == p.revision = revision /\ CanTransition(p.status, to)

Transitioned(p, to) == [p EXCEPT !.status = to, !.revision = p.revision + 1]

StoreTransition(o) ==
  /\ desk[o].pc = "write"
  /\ LET p == proposals[desk[o].key] IN
       proposals' = IF Storable(p, desk[o].revision, desk[o].to)
                    THEN [proposals EXCEPT ![desk[o].key] = Transitioned(p, desk[o].to)]
                    ELSE proposals
  /\ desk' = [desk EXCEPT ![o] = Idle]
  /\ UNCHANGED <<current, commands, plans, delivered, maker, reply>>

(* ArchitectureTargetRepoPG.UpdateDraft: the new content already carries   *)
(* the next revision, and the store compares it with the expected one.     *)
UpdateAccepted(p, next, expected) ==
  next = expected /\ p.status = "draft" /\ p.revision = expected

Revised(p, changes) == [p EXCEPT !.changes = changes, !.revision = p.revision + 1]

(* Revise keeps the draft's CURRENT and replaces its changes.              *)
ReviseTarget(o, changes) ==
  /\ desk[o].pc = "seen"
  /\ LET k == desk[o].key
         p == proposals[k]
         ok == UpdateAccepted(p, desk[o].revision + 1, desk[o].revision)
     IN /\ p.status = "draft" /\ p.revision = desk[o].revision
        /\ Verified(current) /\ current = p.base
        /\ \A c \in changes : ValidChange(c) /\ NamesKnown(current, c)
        /\ reply' = IF ok THEN "accepted" ELSE "refused"
        /\ proposals' = IF ok THEN [proposals EXCEPT ![k] = Revised(p, changes)] ELSE proposals
  /\ desk' = [desk EXCEPT ![o] = Idle]
  /\ UNCHANGED <<current, commands, plans, delivered, maker>>

-----------------------------------------------------------------------------
(* IntegrateApprovedTarget: a fresh approved row, then three calls.        *)
BeginIntegration(i, k) ==
  /\ maker[i] = Idle /\ k \in Stored
  /\ proposals[k].status = "approved" /\ Implementable(proposals[k])
  /\ maker' = [maker EXCEPT ![i] = [pc |-> "command", key |-> k,
                                     projects |-> AffectedProjects(proposals[k])]]
  /\ UNCHANGED <<current, proposals, commands, plans, delivered, desk, reply>>

(* The command's idempotency key is made of the proposal's id and print.   *)
CommandsAfter(k) == IF commands[k] = 0 THEN 1 ELSE commands[k]

CreateCommand(i) ==
  /\ maker[i].pc = "command"
  /\ commands' = [commands EXCEPT ![maker[i].key] = CommandsAfter(maker[i].key)]
  /\ maker' = [maker EXCEPT ![i].pc = "plan"]
  /\ UNCHANGED <<current, proposals, plans, delivered, desk, reply>>

(* CreatePlan reuses the plan made of the same topology revision, or makes *)
(* a new version, which cancels the one before.  The planner must find     *)
(* every requested project, and may plan for more than were asked for.     *)
CreatePlan(i) ==
  /\ maker[i].pc = "plan" /\ maker[i].projects \subseteq current.services
  /\ LET k == maker[i].key IN
       /\ \/ plans[k] # NoPlan /\ plans[k].of = current /\ UNCHANGED plans
          \/ \E planned \in SUBSET current.services :
               /\ maker[i].projects \subseteq planned /\ plans[k].version < MaxPlans
               /\ plans' = [plans EXCEPT ![k] =
                    [version |-> @.version + 1, issues |-> "missing", of |-> current,
                     projects |-> planned]]
       /\ maker' = [maker EXCEPT ![i] =
            [pc |-> "drafts", key |-> k, projects |-> @.projects, version |-> plans'[k].version]]
  /\ UNCHANGED <<current, proposals, commands, delivered, desk, reply>>

PlanMatches(i, plan) == plan.projects = maker[i].projects

(* The plan must have one task per affected project, and every task one    *)
(* issue draft that nobody has published yet; a version replaced meanwhile *)
(* is out of discussion.                                                   *)
PrepareIssueDrafts(i) ==
  /\ maker[i].pc = "drafts"
  /\ LET k == maker[i].key IN
       /\ PlanMatches(i, plans[k])
       /\ plans[k].version = maker[i].version /\ plans[k].issues # "published"
       /\ plans' = [plans EXCEPT ![k].issues = "proposed"]
       /\ delivered' = [delivered EXCEPT ![k] = plans[k].projects]
  /\ maker' = [maker EXCEPT ![i] = Idle]
  /\ UNCHANGED <<current, proposals, commands, desk, reply>>

(* A call fails or is refused; the owner may ask again.                    *)
IntegrationFails(i) ==
  /\ maker[i].pc # "idle" /\ maker' = [maker EXCEPT ![i] = Idle]
  /\ UNCHANGED <<current, proposals, commands, plans, delivered, desk, reply>>

(* The plan is approved and its issues published elsewhere.                *)
IssuesPublished(k) ==
  /\ plans[k].issues = "proposed"
  /\ plans' = [plans EXCEPT ![k].issues = "published"]
  /\ UNCHANGED <<current, proposals, commands, delivered, desk, maker, reply>>

TargetNext ==
  \/ CurrentMoves
  \/ \E k \in Keys, changes \in Asks : CreateTarget(k, changes)
  \/ \E o \in Owners : \/ \E k \in Keys : ReviewTarget(o, k)
                       \/ \E to \in {"submitted", "approved", "rejected", "changes_requested"} :
                            CheckTransition(o, to)
                       \/ StoreTransition(o)
                       \/ \E changes \in Asks : ReviseTarget(o, changes)
  \/ \E i \in Integrators : \/ \E k \in Keys : BeginIntegration(i, k)
                            \/ CreateCommand(i) \/ CreatePlan(i)
                            \/ PrepareIssueDrafts(i) \/ IntegrationFails(i)
  \/ \E k \in Keys : IssuesPublished(k)

TargetSpec == TargetInit /\ [][TargetNext]_targetVars

-----------------------------------------------------------------------------
(* A decision stands: once approved, rejected or sent back, a proposal's   *)
(* status and content never change again, whatever two owners who saw it   *)
(* submitted do.  Transition's check of revision and status is what holds  *)
(* the second one back.                                                    *)
DecisionStands ==
  [][\A k \in Stored : proposals[k].status \in {"approved", "rejected", "changes_requested"}
       => proposals'[k] = proposals[k]]_targetVars

(* However often and concurrently an approved TARGET is integrated, it has *)
(* one command, so its plans are versions of one another.                  *)
OneCommandPerTarget == \A k \in Keys : commands[k] <= 1

(* A finished integration returned a plan of exactly the services of the   *)
(* approved impact: the least set that holds the services the changes name *)
(* and is closed under the relations of the CURRENT they were reviewed     *)
(* against.                                                                *)
FinishedCoversImpact ==
  \A k \in Stored : delivered[k] # {} =>
    LET p == proposals[k]
        named == UNION {c.services : c \in p.changes}
        closed(X) == \A r \in p.base.rels : r.to # External => (r.from \in X <=> r.to \in X)
    IN /\ named \subseteq delivered[k] /\ closed(delivered[k])
       /\ \A X \in SUBSET Services : named \subseteq X /\ closed(X) => delivered[k] \subseteq X

(* An approved TARGET becomes what its owner approved: one command over    *)
(* the whole impact and no more (IntegrateApprovedTarget).                 *)
ApprovalIsHonoured == TargetTypeOK /\ OneCommandPerTarget /\ FinishedCoversImpact

(* "semantic facts that cannot be proved stay explicit unknowns"           *)
(* (docs/architecture-manifest-v1.md), and a change is never "upgraded" to *)
(* MATCHED without a typed value to compare (verification.go): when an     *)
(* approved TARGET is reported as matched, every dependency it adds to     *)
(* services shows as a relation of theirs that its base did not have.      *)
NewRelations(cat, p) == cat.rels \ p.base.rels
MatchedIsObserved ==
  \A k \in Stored :
    proposals[k].status = "approved" /\ Report(proposals[k], current) = "MATCHED" =>
      \A c \in proposals[k].changes : c.kind = "dependency" /\ c.action = "add" =>
        \E r \in NewRelations(current, proposals[k]) : {r.from, r.to} \cap c.services # {}

(* A revision of a draft, by an owner who saw its last revision and        *)
(* against the CURRENT it is bound to, is accepted: "create or revise a    *)
(* draft against its bound CURRENT" (docs/architecture-manifest-v1.md).    *)
FreshRevisionAccepted == reply # "refused"

=============================================================================
