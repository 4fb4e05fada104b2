------------------------------ MODULE ControlProofs ------------------------------
(***************************************************************************)
(* Proofs about the components of ControlPlane, one after the other: the   *)
(* life of a TARGET, the project registry, the owner's conversation and    *)
(* the link to a merge request; then about the generations of a run; each  *)
(* for every value of its constants.                                       *)
(***************************************************************************)
EXTENDS ControlPlane, RunGenerations, TLAPS, FiniteSetTheorems, SequenceTheorems, WellFoundedInduction

-----------------------------------------------------------------------------
(***************************************************************************)
(* TargetWorkflow.  A decision stands because the store compares revision  *)
(* and status again under the row's lock; so an integration, whose calls   *)
(* come long after it read the approved proposal, still works on what was  *)
(* approved.  That its services are the whole impact and no more is a fact *)
(* about the rounds in which the impact is computed: every round that is   *)
(* not closed adds a service, and there are as many rounds as services.    *)
(***************************************************************************)
USE CatalogsAssumption

(* What a proposal, a plan and a decision may be.                          *)
Decisions == {"submitted", "approved", "rejected", "changes_requested"}
Decided   == {"approved", "rejected", "changes_requested"}
Proposals == [status : {"draft"} \cup Decisions, revision : Nat \ {0},
              base : Catalogs, changes : Asks]
Plans     == [version : Nat \ {0}, issues : {"missing", "proposed", "published"},
              of : Catalogs, projects : SUBSET Services]

(* A stored proposal says only what its CURRENT allows, and plans are of   *)
(* services.                                                               *)
ProposalsAreSound ==
  /\ DOMAIN proposals = Keys /\ DOMAIN plans = Keys /\ DOMAIN delivered = Keys
  /\ \A k \in Keys :
       /\ proposals[k] = NoProposal \/ proposals[k] \in Proposals
       /\ plans[k] = NoPlan \/ plans[k] \in Plans
  /\ \A k \in Stored : \A c \in proposals[k].changes :
       ValidChange(c) /\ NamesKnown(proposals[k].base, c)

(* An owner looks at a proposal that exists, and asks for a known status.  *)
DesksAreSound ==
  /\ DOMAIN desk = Owners
  /\ \A o \in Owners : /\ desk[o].pc # "idle" => desk[o].key \in Stored
                       /\ desk[o].pc = "write" => desk[o].to \in Decisions

(* What is integrated is approved, and stays what the integration read.    *)
Approved(k) == /\ k \in Stored /\ proposals[k].status = "approved"
               /\ Implementable(proposals[k])
ImpactIsKept ==
  /\ DOMAIN maker = Integrators
  /\ \A i \in Integrators : maker[i].pc # "idle" =>
       /\ maker[i].key \in Keys /\ Approved(maker[i].key)
       /\ maker[i].projects = AffectedProjects(proposals[maker[i].key])
  /\ \A k \in Keys : delivered[k] # {} =>
       Approved(k) /\ delivered[k] = AffectedProjects(proposals[k])

(* Drafts are prepared of a plan that was made.                            *)
DraftsArePlanned ==
  \A i \in Integrators : maker[i].pc = "drafts" => plans[maker[i].key] # NoPlan

TargetInv == /\ TargetTypeOK /\ OneCommandPerTarget /\ ProposalsAreSound
             /\ DesksAreSound /\ ImpactIsKept /\ DraftsArePlanned

-----------------------------------------------------------------------------
(* No proposal exists at first, and nobody has read one.                   *)
LEMMA InitTarget == TargetInit => TargetInv
  BY DEF TargetInit, TargetInv, TargetTypeOK, OneCommandPerTarget, ProposalsAreSound,
     DesksAreSound, ImpactIsKept, DraftsArePlanned, Stored, NoProposal, NoPlan, Idle, Approved

(* What is stored differs from what is not.                                *)
LEMMA StoredAreProposals ==
  ASSUME ProposalsAreSound
  PROVE  /\ \A k \in Keys : k \in Stored <=> proposals[k] \in Proposals
         /\ NoProposal \notin Proposals
  BY DEF ProposalsAreSound, Stored, NoProposal, Proposals, Decisions

(* A transition keeps what the proposal says, a revision its status.       *)
LEMMA Rewritten ==
  ASSUME NEW p \in Proposals
  PROVE  /\ \A to \in Decisions :
              LET n == Transitioned(p, to) IN
                n \in Proposals /\ n.status = to /\ n.base = p.base /\ n.changes = p.changes
         /\ \A changes \in Asks :
              LET n == Revised(p, changes) IN
                n \in Proposals /\ n.status = p.status /\ n.base = p.base /\ n.changes = changes
<1>1. p.revision + 1 \in Nat \ {0}
  BY DEF Proposals
<1>. QED BY <1>1 DEF Transitioned, Revised, Proposals

(* Only three actions write proposals, and none touches a decided one.     *)
LEMMA DecidedIsKept ==
  ASSUME TargetInv, [TargetNext]_targetVars
  PROVE  \A k \in Stored : /\ k \in Stored'
                           /\ proposals[k].status \in Decided => proposals'[k] = proposals[k]
<1> USE DEF TargetInv
<1>1. ASSUME NEW k \in Keys, NEW changes \in Asks, CreateTarget(k, changes)
      PROVE  \A q \in Stored : q \in Stored' /\ proposals'[q] = proposals[q]
  BY <1>1 DEF CreateTarget, Stored, ProposalsAreSound
<1>2. ASSUME NEW o \in Owners, StoreTransition(o)
      PROVE  \A q \in Stored : /\ q \in Stored'
                               /\ proposals[q].status \in Decided => proposals'[q] = proposals[q]
  <2> DEFINE k == desk[o].key
  <2>1. k \in Stored /\ k \in Keys /\ proposals[k] \in Proposals /\ desk[o].to \in Decisions
    BY <1>2, StoredAreProposals DEF DesksAreSound, StoreTransition, Stored
  <2>2. CASE ~Storable(proposals[k], desk[o].revision, desk[o].to)
    BY <1>2, <2>2 DEF StoreTransition, Stored
  <2>3. CASE Storable(proposals[k], desk[o].revision, desk[o].to)
    <3>1. proposals[k].status \notin Decided
      BY <2>1, <2>3 DEF Storable, CanTransition, Decided, Decisions
    <3>2. proposals' = [proposals EXCEPT ![k] = Transitioned(proposals[k], desk[o].to)]
      BY <1>2, <2>3 DEF StoreTransition
    <3>3. proposals'[k] \in Proposals
      BY <2>1, <3>2, Rewritten DEF ProposalsAreSound
    <3>4. proposals'[k] # NoProposal
      BY <3>3, StoredAreProposals
    <3>. QED BY <3>1, <3>2, <3>4 DEF Stored
  <2>. QED BY <2>2, <2>3
<1>3. ASSUME NEW o \in Owners, NEW changes \in Asks, ReviseTarget(o, changes)
      PROVE  \A q \in Stored : /\ q \in Stored'
                               /\ proposals[q].status \in Decided => proposals'[q] = proposals[q]
  <2> DEFINE k == desk[o].key
  <2>1. k \in Stored /\ k \in Keys /\ proposals[k] \in Proposals /\ proposals[k].status = "draft"
    BY <1>3, StoredAreProposals DEF DesksAreSound, ReviseTarget, Stored
  <2>2. CASE proposals' = proposals
    BY <2>2 DEF Stored
  <2>3. CASE proposals' = [proposals EXCEPT ![k] = Revised(proposals[k], changes)]
    <3>1. proposals'[k] \in Proposals
      BY <2>1, <2>3, Rewritten DEF ProposalsAreSound
    <3>2. proposals'[k] # NoProposal
      BY <3>1, StoredAreProposals
    <3>. QED BY <2>1, <2>3, <3>2 DEF Stored, Decided
  <2>. QED BY <1>3, <2>2, <2>3 DEF ReviseTarget
<1>4. CASE UNCHANGED proposals
  BY <1>4 DEF Stored
<1>. QED BY <1>1, <1>2, <1>3, <1>4 DEF TargetNext, targetVars, CurrentMoves, ReviewTarget,
       CheckTransition, BeginIntegration, CreateCommand, CreatePlan, PrepareIssueDrafts,
       IntegrationFails, IssuesPublished
-----------------------------------------------------------------------------
(* What is stored stays stored and what was approved stays as it is, so    *)
(* what others hold of it stays true.                                      *)
LEMMA RestIsKept ==
  ASSUME TargetInv, [TargetNext]_targetVars
  PROVE  /\ \A k \in Keys : Approved(k) =>
              Approved(k)' /\ AffectedProjects(proposals'[k]) = AffectedProjects(proposals[k])
         /\ UNCHANGED desk => DesksAreSound'
         /\ UNCHANGED <<maker, delivered>> => ImpactIsKept'
         /\ UNCHANGED <<maker, plans>> => DraftsArePlanned'
<1>1. \A k \in Keys : Approved(k) => proposals'[k] = proposals[k] /\ k \in Stored'
  BY DecidedIsKept DEF Approved, Decided
<1>2. \A k \in Keys : Approved(k) => Approved(k)'
  BY <1>1 DEF Approved
<1>3. UNCHANGED desk => DesksAreSound'
  BY DecidedIsKept DEF TargetInv, DesksAreSound
<1>4. UNCHANGED <<maker, delivered>> => ImpactIsKept'
  BY <1>1, <1>2 DEF TargetInv, ImpactIsKept
<1>5. UNCHANGED <<maker, plans>> => DraftsArePlanned'
  BY DEF TargetInv, DraftsArePlanned
<1>. QED BY <1>1, <1>2, <1>3, <1>4, <1>5

(* A step that writes one proposal writes a sound one.                     *)
LEMMA WriteStep ==
  ASSUME TargetInv, [TargetNext]_targetVars, NEW k \in Keys, NEW p \in Proposals,
         proposals' = [proposals EXCEPT ![k] = p],
         \A c \in p.changes : ValidChange(c) /\ NamesKnown(p.base, c),
         UNCHANGED <<current, commands, plans, delivered, maker>>,
         DesksAreSound', reply' \in {"none", "accepted", "refused"},
         \A o \in Owners : desk'[o].pc \in {"idle", "seen", "write"}
  PROVE  TargetInv'
<1> USE DEF TargetInv
<1>1. ImpactIsKept' /\ OneCommandPerTarget' /\ DraftsArePlanned'
  BY RestIsKept DEF OneCommandPerTarget
<1>2. ProposalsAreSound'
  BY DEF ProposalsAreSound, Stored
<1>3. \A q \in Stored' : proposals'[q] \in Proposals
  BY <1>2 DEF ProposalsAreSound, Stored
<1>4. TargetTypeOK'
  BY <1>3 DEF TargetTypeOK, Proposals, Decisions
<1>. QED BY <1>1, <1>2, <1>4

(* Create stores a checked draft under a key that had none, and no desk    *)
(* has read a revision of it.                                              *)
LEMMA CreateStep ==
  ASSUME TargetInv, NEW k \in Keys, NEW changes \in Asks, CreateTarget(k, changes)
  PROVE  TargetInv'
<1> DEFINE p == [status |-> "draft", revision |-> 1, base |-> current, changes |-> changes]
<1>1. p \in Proposals /\ p.base = current /\ p.changes = changes
  BY DEF Proposals, TargetInv, TargetTypeOK
<1>2. proposals' = [proposals EXCEPT ![k] = p]
  BY DEF CreateTarget
<1> HIDE DEF p
<1>3. [TargetNext]_targetVars
  BY DEF TargetNext
<1>4. DesksAreSound'
  BY <1>3, RestIsKept DEF CreateTarget
<1>. QED BY <1>1, <1>2, <1>3, <1>4, WriteStep DEF CreateTarget, TargetInv, TargetTypeOK

(* Transition compares revision and status under the row's lock, so        *)
(* whoever read the row before sees it moved on.                           *)
LEMMA TransitionStep ==
  ASSUME TargetInv, NEW o \in Owners, StoreTransition(o)
  PROVE  TargetInv'
<1> DEFINE k == desk[o].key
           to == desk[o].to
<1>1. k \in Keys /\ k \in Stored /\ proposals[k] \in Proposals /\ to \in Decisions
  BY StoredAreProposals DEF TargetInv, DesksAreSound, StoreTransition, Stored
<1>2. [TargetNext]_targetVars
  BY DEF TargetNext
<1>3. DesksAreSound'
  BY <1>2, DecidedIsKept DEF DesksAreSound, TargetInv, StoreTransition, Idle
<1>4. /\ UNCHANGED <<current, commands, plans, delivered, maker, reply>>
      /\ \A q \in Owners : desk'[q].pc \in {"idle", "seen", "write"}
  BY DEF StoreTransition, TargetInv, TargetTypeOK, DesksAreSound, Idle
<1>5. CASE Storable(proposals[k], desk[o].revision, to)
  <2> DEFINE p == Transitioned(proposals[k], to)
  <2>1. p \in Proposals /\ p.base = proposals[k].base /\ p.changes = proposals[k].changes
    BY <1>1, Rewritten
  <2>2. proposals' = [proposals EXCEPT ![k] = p]
    BY <1>5 DEF StoreTransition
  <2>3. \A c \in p.changes : ValidChange(c) /\ NamesKnown(p.base, c)
    BY <1>1, <2>1 DEF TargetInv, ProposalsAreSound
  <2> HIDE DEF p, k
  <2>. QED BY <1>1, <1>2, <1>3, <1>4, <2>1, <2>2, <2>3, WriteStep DEF TargetInv, TargetTypeOK
<1>6. CASE ~Storable(proposals[k], desk[o].revision, to)
  <2>1. proposals' = proposals
    BY <1>6 DEF StoreTransition
  <2>2. ImpactIsKept' /\ DraftsArePlanned'
    BY <1>2, <1>4, RestIsKept
  <2>. QED BY <1>3, <1>4, <2>1, <2>2 DEF TargetInv, TargetTypeOK, OneCommandPerTarget,
         ProposalsAreSound, Stored
<1>. QED BY <1>5, <1>6

(* UpdateDraft replaces the changes of the revision that was read, and     *)
(* only of a draft.                                                        *)
LEMMA ReviseStep ==
  ASSUME TargetInv, NEW o \in Owners, NEW changes \in Asks, ReviseTarget(o, changes)
  PROVE  TargetInv'
<1> DEFINE k == desk[o].key
           p == Revised(proposals[k], changes)
<1>1. k \in Keys /\ k \in Stored /\ proposals[k] \in Proposals /\ current = proposals[k].base
  BY StoredAreProposals DEF TargetInv, DesksAreSound, ReviseTarget, Stored
<1>2. [TargetNext]_targetVars
  BY DEF TargetNext
<1>3. DesksAreSound'
  BY <1>2, DecidedIsKept DEF DesksAreSound, TargetInv, ReviseTarget, Idle
<1>4. /\ UNCHANGED <<current, commands, plans, delivered, maker>>
      /\ reply' \in {"none", "accepted", "refused"}
      /\ \A q \in Owners : desk'[q].pc \in {"idle", "seen", "write"}
  BY DEF ReviseTarget, TargetInv, TargetTypeOK, DesksAreSound, Idle
<1>5. p \in Proposals /\ p.base = proposals[k].base /\ p.changes = changes
  BY <1>1, Rewritten
<1>6. \A c \in changes : ValidChange(c) /\ NamesKnown(current, c)
  BY DEF ReviseTarget
<1>7. proposals' = proposals \/ proposals' = [proposals EXCEPT ![k] = p]
  BY DEF ReviseTarget
<1> HIDE DEF p, k
<1>8. CASE proposals' = [proposals EXCEPT ![k] = p]
  BY <1>1, <1>2, <1>3, <1>4, <1>5, <1>6, <1>8, WriteStep
<1>9. CASE proposals' = proposals
  <2>1. ImpactIsKept' /\ DraftsArePlanned'
    BY <1>2, <1>4, RestIsKept
  <2>. QED BY <1>3, <1>4, <1>9, <2>1 DEF TargetInv, TargetTypeOK, OneCommandPerTarget,
         ProposalsAreSound, Stored
<1>. QED BY <1>7, <1>8, <1>9

(* The owner's other steps read a proposal and remember what was asked.    *)
LEMMA DeskStep ==
  ASSUME TargetInv, NEW o \in Owners,
         \/ \E k \in Keys : ReviewTarget(o, k)
         \/ \E to \in Decisions : CheckTransition(o, to)
  PROVE  TargetInv'
<1>1. UNCHANGED <<current, proposals, commands, plans, delivered, maker, reply>>
  BY DEF ReviewTarget, CheckTransition
<1>2. DesksAreSound' /\ \A q \in Owners : desk'[q].pc \in {"idle", "seen", "write"}
  <2>1. ASSUME NEW k \in Keys, ReviewTarget(o, k)
        PROVE  DesksAreSound' /\ \A q \in Owners : desk'[q].pc \in {"idle", "seen", "write"}
    BY <2>1 DEF ReviewTarget, TargetInv, DesksAreSound, TargetTypeOK, Stored
  <2>2. ASSUME NEW to \in Decisions, CheckTransition(o, to)
        PROVE  DesksAreSound' /\ \A q \in Owners : desk'[q].pc \in {"idle", "seen", "write"}
    <3>1. PICK seen : /\ desk' = [desk EXCEPT ![o] = seen]
                      /\ \/ seen = Idle
                         \/ seen = [pc |-> "write", key |-> desk[o].key,
                                    revision |-> desk[o].revision, to |-> to]
      BY <2>2 DEF CheckTransition
    <3>2. desk[o].key \in Stored /\ Stored' = Stored
      BY <1>1, <2>2 DEF CheckTransition, TargetInv, DesksAreSound, Stored
    <3>. QED BY <3>1, <3>2 DEF TargetInv, DesksAreSound, TargetTypeOK, Idle
  <2>. QED BY <2>1, <2>2
<1>3. ImpactIsKept' /\ DraftsArePlanned'
  BY <1>1 DEF TargetInv, ImpactIsKept, DraftsArePlanned, Approved, Stored
<1>. QED BY <1>1, <1>2, <1>3 DEF TargetInv, TargetTypeOK, OneCommandPerTarget,
       ProposalsAreSound, Stored

(* The mark of a missing plan is no plan.                                  *)
LEMMA PlansExist == NoPlan \notin Plans
  BY DEF NoPlan, Plans

(* An integration reads an approved proposal; nothing it does afterwards   *)
(* changes which services it is about.                                     *)
LEMMA MakerStep ==
  ASSUME TargetInv, NEW i \in Integrators,
         \/ \E k \in Keys : BeginIntegration(i, k)
         \/ CreateCommand(i) \/ CreatePlan(i) \/ PrepareIssueDrafts(i) \/ IntegrationFails(i)
  PROVE  TargetInv'
<1>1. UNCHANGED <<current, proposals, desk, reply>>
  BY DEF BeginIntegration, CreateCommand, CreatePlan, PrepareIssueDrafts, IntegrationFails
<1>2. /\ DesksAreSound' /\ Stored' = Stored
      /\ \A k \in Keys : Approved(k) => Approved(k)'
  BY <1>1 DEF TargetInv, DesksAreSound, Stored, Approved
<1> USE DEF TargetInv
<1>3. ASSUME NEW k \in Keys, BeginIntegration(i, k) PROVE TargetInv'
  <2>1. ImpactIsKept' /\ DraftsArePlanned'
    BY <1>1, <1>2, <1>3 DEF ImpactIsKept, DraftsArePlanned, BeginIntegration, Approved
  <2>2. TargetTypeOK'
    BY <1>1, <1>2, <1>3 DEF TargetTypeOK, BeginIntegration, ImpactIsKept
  <2>. QED BY <1>1, <1>2, <1>3, <2>1, <2>2
              DEF BeginIntegration, OneCommandPerTarget, ProposalsAreSound
<1>4. CASE CreateCommand(i)
  <2>1. commands' \in [Keys -> Nat] /\ OneCommandPerTarget'
    BY <1>4 DEF CreateCommand, CommandsAfter, TargetTypeOK, OneCommandPerTarget, ImpactIsKept
  <2>2. \A j \in Integrators : /\ maker'[j].pc \in {"idle", "command", "plan", "drafts"}
                               /\ maker'[j].pc # "idle" => maker[j].pc # "idle"
                               /\ maker'[j].key = maker[j].key
                               /\ maker'[j].projects = maker[j].projects
    BY <1>4 DEF CreateCommand, TargetTypeOK, ImpactIsKept
  <2>3. ImpactIsKept' /\ DraftsArePlanned'
    BY <1>1, <1>2, <1>4, <2>2 DEF ImpactIsKept, DraftsArePlanned, CreateCommand
  <2>. QED BY <1>1, <1>2, <1>4, <2>1, <2>2, <2>3 DEF CreateCommand, TargetTypeOK, ProposalsAreSound
<1>5. CASE CreatePlan(i)
  <2> DEFINE k == maker[i].key
  <2>1. k \in Keys /\ current \in Catalogs /\ current.services \subseteq Services
    BY <1>5 DEF CreatePlan, ImpactIsKept, TargetTypeOK
  <2>2. /\ DOMAIN plans' = Keys /\ \A q \in Keys : plans'[q] = NoPlan \/ plans'[q] \in Plans
        /\ \A q \in Keys : plans[q] # NoPlan => plans'[q] # NoPlan
        /\ plans'[k] # NoPlan
    <3>1. CASE UNCHANGED plans /\ plans[k] # NoPlan
      BY <3>1 DEF ProposalsAreSound
    <3>2. ASSUME NEW planned \in SUBSET current.services,
                 plans' = [plans EXCEPT ![k] = [version |-> plans[k].version + 1, issues |-> "missing",
                                                of |-> current, projects |-> planned]]
          PROVE  /\ DOMAIN plans' = Keys /\ \A q \in Keys : plans'[q] = NoPlan \/ plans'[q] \in Plans
                 /\ \A q \in Keys : plans[q] # NoPlan => plans'[q] # NoPlan
                 /\ plans'[k] # NoPlan
      <4>1. plans[k].version \in Nat
        BY <2>1 DEF ProposalsAreSound, NoPlan, Plans
      <4>2. [version |-> plans[k].version + 1, issues |-> "missing",
             of |-> current, projects |-> planned] \in Plans
        BY <2>1, <4>1 DEF Plans
      <4>. QED BY <2>1, <3>2, <4>2, PlansExist DEF ProposalsAreSound
    <3>. QED BY <1>5, <3>1, <3>2 DEF CreatePlan
  <2>3. \A q \in Keys : plans'[q].issues \in {"none", "missing", "proposed", "published"}
    BY <2>2 DEF NoPlan, Plans
  <2>4. \A j \in Integrators : /\ maker'[j].pc \in {"idle", "command", "plan", "drafts"}
                               /\ maker'[j].pc # "idle" => maker[j].pc # "idle"
                               /\ maker'[j].key = maker[j].key
                               /\ maker'[j].projects = maker[j].projects
    BY <1>5 DEF CreatePlan, TargetTypeOK, ImpactIsKept
  <2>5. DOMAIN maker' = Integrators /\ UNCHANGED <<commands, delivered>>
    BY <1>5 DEF CreatePlan, ImpactIsKept
  <2>6. ImpactIsKept'
    BY <1>1, <1>2, <2>4, <2>5 DEF ImpactIsKept
  <2>7. DraftsArePlanned'
    BY <1>5, <2>2, <2>4 DEF CreatePlan, DraftsArePlanned, ImpactIsKept
  <2>. QED BY <1>1, <1>2, <2>2, <2>3, <2>4, <2>5, <2>6, <2>7
              DEF TargetTypeOK, OneCommandPerTarget, ProposalsAreSound
<1>6. CASE PrepareIssueDrafts(i)
  <2> DEFINE k == maker[i].key
  <2>1. /\ k \in Keys /\ Approved(k) /\ plans[k].projects = AffectedProjects(proposals[k])
        /\ plans' = [plans EXCEPT ![k].issues = "proposed"]
        /\ delivered' = [delivered EXCEPT ![k] = AffectedProjects(proposals[k])]
        /\ maker' = [maker EXCEPT ![i] = Idle] /\ UNCHANGED commands
    BY <1>6 DEF PrepareIssueDrafts, PlanMatches, ImpactIsKept
  <2>2. plans[k] \in Plans
    BY <1>6, <2>1 DEF PrepareIssueDrafts, DraftsArePlanned, ProposalsAreSound
  <2>3. plans'[k] \in Plans /\ plans'[k].issues = "proposed"
    BY <2>1, <2>2 DEF ProposalsAreSound, Plans
  <2>4. ProposalsAreSound' /\ DraftsArePlanned'
    BY <1>1, <1>2, <2>1, <2>3, PlansExist
       DEF ProposalsAreSound, DraftsArePlanned, ImpactIsKept, Idle
  <2>5. ImpactIsKept'
    BY <1>1, <1>2, <2>1 DEF ImpactIsKept, ProposalsAreSound, Idle
  <2>6. TargetTypeOK' /\ OneCommandPerTarget'
    BY <1>1, <1>2, <2>1, <2>3
       DEF TargetTypeOK, OneCommandPerTarget, ProposalsAreSound, ImpactIsKept, Idle
  <2>. QED BY <1>2, <2>4, <2>5, <2>6
<1>7. CASE IntegrationFails(i)
  <2>1. ImpactIsKept' /\ DraftsArePlanned'
    BY <1>1, <1>2, <1>7 DEF ImpactIsKept, DraftsArePlanned, IntegrationFails, Idle
  <2>. QED BY <1>1, <1>2, <1>7, <2>1 DEF IntegrationFails, TargetTypeOK, OneCommandPerTarget,
         ProposalsAreSound, Idle, ImpactIsKept
<1>. QED BY <1>3, <1>4, <1>5, <1>6, <1>7

(* Publishing issues changes only how far a plan's issues are.             *)
LEMMA PublishedStep ==
  ASSUME TargetInv, NEW k \in Keys, IssuesPublished(k)
  PROVE  TargetInv'
<1>1. UNCHANGED <<current, proposals, commands, delivered, desk, maker, reply>>
  BY DEF IssuesPublished
<1>2. DesksAreSound' /\ Stored' = Stored /\ ImpactIsKept'
  BY <1>1 DEF TargetInv, DesksAreSound, Stored, ImpactIsKept, Approved
<1>3. plans[k] \in Plans
  BY DEF TargetInv, ProposalsAreSound, IssuesPublished, NoPlan
<1>4. plans' = [plans EXCEPT ![k].issues = "published"] /\ plans'[k] \in Plans
  BY <1>3 DEF IssuesPublished, Plans, TargetInv, ProposalsAreSound
<1>5. ProposalsAreSound' /\ DraftsArePlanned'
  BY <1>1, <1>2, <1>3, <1>4, PlansExist
     DEF TargetInv, ProposalsAreSound, DraftsArePlanned, ImpactIsKept
<1>. QED BY <1>1, <1>2, <1>4, <1>5
            DEF TargetInv, TargetTypeOK, OneCommandPerTarget, ProposalsAreSound, Plans

(* Proposals, plans and integrations stay sound, whatever CURRENT does and *)
(* however the owners' requests overlap.                                   *)
LEMMA TargetStep == TargetInv /\ [TargetNext]_targetVars => TargetInv'
<1> SUFFICES ASSUME TargetInv, [TargetNext]_targetVars PROVE TargetInv'
  OBVIOUS
<1>1. CASE UNCHANGED targetVars \/ CurrentMoves
  <2>1. /\ UNCHANGED <<proposals, commands, plans, delivered, desk, maker, reply>>
        /\ current' \in Catalogs
    BY <1>1 DEF targetVars, CurrentMoves, TargetInv, TargetTypeOK
  <2>. QED BY <2>1 DEF TargetInv, TargetTypeOK, OneCommandPerTarget, ProposalsAreSound,
         DesksAreSound, ImpactIsKept, DraftsArePlanned, Stored, Approved
<1>2. ASSUME NEW o \in Owners, NEW to \in Decisions, CheckTransition(o, to) PROVE TargetInv'
  BY <1>2, DeskStep
<1>3. ASSUME NEW o \in Owners, NEW k \in Keys, ReviewTarget(o, k) PROVE TargetInv'
  BY <1>3, DeskStep
<1>4. ASSUME NEW i \in Integrators,
             \/ \E k \in Keys : BeginIntegration(i, k)
             \/ CreateCommand(i) \/ CreatePlan(i) \/ PrepareIssueDrafts(i) \/ IntegrationFails(i)
      PROVE  TargetInv'
  BY <1>4, MakerStep
<1>. QED BY <1>1, <1>2, <1>3, <1>4, CreateStep, TransitionStep, ReviseStep, PublishedStep
         DEF TargetNext, Decisions

(* The invariant of the TARGET workflow holds in every behaviour.          *)
LEMMA TargetInvariant == TargetSpec => []TargetInv
  BY InitTarget, TargetStep, PTL DEF TargetSpec

(* A decision on a TARGET stands: Transition compares revision and status  *)
(* under the row's lock, whatever the use case read before.                *)
THEOREM DecisionsOnTargetsStand == TargetSpec => DecisionStands
<1>1. TargetInv /\ [TargetNext]_targetVars
        => [\A k \in Stored : proposals[k].status \in {"approved", "rejected", "changes_requested"}
              => proposals'[k] = proposals[k]]_targetVars
  BY DecidedIsKept DEF Decided
<1>. QED BY <1>1, TargetInvariant, PTL DEF TargetSpec, DecisionStands
-----------------------------------------------------------------------------
(* The impact of a change is computed in rounds; what the rounds reach.    *)
Rounds(cat, X, f) ==
  f = [n \in 0..Cardinality(Services) |->
         IF n = 0 THEN X ELSE f[n - 1] \cup Neighbours(cat, f[n - 1])]

(* A set of numbers has a least element.                                   *)
LEMMA LeastNumber ==
  ASSUME NEW T \in SUBSET Nat, T # {}
  PROVE  \E n \in T : \A m \in T : n <= m
<1>1. PICK n \in T : \A m \in T : ~ (<<m, n>> \in OpToRel(<, Nat))
  BY WFMin, NatLessThanWellFounded, Zenon
<1>2. \A m \in T : ~ (m < n)
  BY <1>1 DEF OpToRel
<1>. QED BY <1>2

(* There are rounds, as many as there are services.                        *)
LEMMA RoundsExist ==
  ASSUME NEW cat, NEW X
  PROVE  \E f : Rounds(cat, X, f)
<1> DEFINE N == Cardinality(Services)
           Round(f, m) == IF m = 0 THEN X ELSE f[m - 1] \cup Neighbours(cat, f[m - 1])
           Upto(f, n) == f = [m \in 0..n |-> Round(f, m)]
           T == {n \in 0..N : ~ \E f : Upto(f, n)}
<1>1. N \in Nat
  BY FS_CardinalityType
<1>2. \E f : Upto(f, 0)
  <2>1. Upto([m \in 0..0 |-> X], 0)
    OBVIOUS
  <2>. QED BY <2>1
<1>3. ASSUME NEW n \in Nat \ {0}, NEW f, Upto(f, n - 1) PROVE \E g : Upto(g, n)
  <2>1. \A m \in 0..(n - 1) : f[m] = Round(f, m)
    <3> HIDE DEF Round
    <3>. QED BY <1>3
  <2> DEFINE g == [m \in 0..n |-> IF m < n THEN f[m]
                                  ELSE f[n - 1] \cup Neighbours(cat, f[n - 1])]
  <2>2. \A m \in 0..n : g[m] = Round(g, m)
    <3> SUFFICES ASSUME NEW m \in 0..n PROVE g[m] = Round(g, m)
      OBVIOUS
    <3>1. CASE m = n
      <4>1. n - 1 \in 0..n /\ n - 1 < n /\ n # 0 /\ n \in 0..n /\ ~ (n < n)
        OBVIOUS
      <4>2. g[n - 1] = f[n - 1] /\ g[n] = f[n - 1] \cup Neighbours(cat, f[n - 1])
        BY <4>1
      <4> HIDE DEF g
      <4>. QED BY <3>1, <4>1, <4>2
    <3>2. CASE m # n
      <4>1. m \in 0..(n - 1) /\ m < n
        BY <3>2
      <4>2. m # 0 => m - 1 \in 0..n /\ m - 1 < n
        BY <4>1
      <4>3. g[m] = f[m] /\ (m # 0 => g[m - 1] = f[m - 1])
        BY <4>1, <4>2
      <4> HIDE DEF g
      <4>. QED BY <2>1, <4>1, <4>3
    <3>. QED BY <3>1, <3>2
  <2>3. g = [m \in 0..n |-> g[m]]
    OBVIOUS
  <2> HIDE DEF g, Round
  <2>4. Upto(g, n)
    BY <2>2, <2>3
  <2>. QED BY <2>4
<1> HIDE DEF N, Upto
<1>4. T = {}
  <2> SUFFICES ASSUME T # {} PROVE FALSE
    OBVIOUS
  <2>1. T \subseteq Nat
    BY <1>1
  <2>2. PICK n \in T : \A m \in T : n <= m
    BY <2>1, LeastNumber
  <2>3. n \in 0..N /\ n \in Nat /\ n # 0 /\ ~ \E f : Upto(f, n)
    BY <1>1, <1>2, <2>1
  <2>4. n - 1 \in 0..N /\ ~ (n <= n - 1)
    BY <1>1, <2>3
  <2>5. n - 1 \notin T
    BY <2>2, <2>4
  <2>6. PICK f : Upto(f, n - 1)
    BY <2>4, <2>5
  <2>. QED BY <1>3, <2>3, <2>6
<1>5. N \in 0..N
  BY <1>1
<1>6. \E f : Upto(f, N)
  BY <1>4, <1>5
<1>. QED BY <1>6 DEF Rounds, N, Upto

(* A set of services that no relation of the catalog leaves or enters.     *)
ClosedIn(cat, X) == \A r \in cat.rels : r.to # External => (r.from \in X <=> r.to \in X)

(* One round of the impact stays among the services, adds nothing to a     *)
(* closed set, and is monotone.                                            *)
LEMMA NeighboursAreServices ==
  ASSUME NEW cat \in Catalogs, NEW X \in SUBSET Services
  PROVE  /\ Neighbours(cat, X) \subseteq Services
         /\ Neighbours(cat, X) \subseteq X <=> ClosedIn(cat, X)
         /\ \A Y \in SUBSET X : Neighbours(cat, Y) \subseteq Neighbours(cat, X)
  BY DEF Neighbours, Downstream, ClosedIn

(* Every round stays within the services and within every closed set; it   *)
(* either adds a service or is closed, so that the last one is closed.     *)
LEMMA LastRoundIsClosed ==
  ASSUME NEW cat \in Catalogs, NEW X \in SUBSET Services, NEW f, Rounds(cat, X, f)
  PROVE  LET last == f[Cardinality(Services)] IN
           /\ last \subseteq Services /\ X \subseteq last /\ ClosedIn(cat, last)
           /\ \A Z \in SUBSET Services : X \subseteq Z /\ ClosedIn(cat, Z) => last \subseteq Z
<1> DEFINE N == Cardinality(Services)
           P(n) == /\ f[n] \in SUBSET Services /\ X \subseteq f[n]
                   /\ \A Z \in SUBSET Services :
                        X \subseteq Z /\ ClosedIn(cat, Z) => f[n] \subseteq Z
                   /\ ClosedIn(cat, f[n]) \/ Cardinality(f[n]) >= n
           T == {n \in 0..N : ~ P(n)}
<1>1. N \in Nat
  BY FS_CardinalityType
<1>2. f[0] = X /\ \A n \in 1..N : f[n] = f[n - 1] \cup Neighbours(cat, f[n - 1])
  <2>1. \A n \in 0..N : f[n] = IF n = 0 THEN X ELSE f[n - 1] \cup Neighbours(cat, f[n - 1])
    BY DEF Rounds
  <2> HIDE DEF N
  <2>2. 0 \in 0..N /\ \A n \in 1..N : n \in 0..N /\ n # 0
    BY <1>1
  <2>. QED BY <2>1, <2>2
<1> HIDE DEF N
<1>3. P(0)
  <2>1. Cardinality(X) \in Nat
    BY FS_CardinalityType, FS_Subset
  <2>. QED BY <1>2, <2>1
<1>4. ASSUME NEW n \in 1..N, P(n - 1) PROVE P(n)
  <2> DEFINE Y == f[n - 1]
  <2>1. Y \in SUBSET Services /\ f[n] = Y \cup Neighbours(cat, Y)
    BY <1>2, <1>4
  <2>2. f[n] \in SUBSET Services /\ X \subseteq f[n]
    BY <1>4, <2>1, NeighboursAreServices
  <2>3. ASSUME NEW Z \in SUBSET Services, X \subseteq Z, ClosedIn(cat, Z) PROVE f[n] \subseteq Z
    <3>1. Y \subseteq Z
      BY <1>4, <2>3
    <3>2. Neighbours(cat, Y) \subseteq Neighbours(cat, Z) /\ Neighbours(cat, Z) \subseteq Z
      BY <2>3, <3>1, NeighboursAreServices
    <3>. QED BY <2>1, <3>1, <3>2
  <2>4. CASE ClosedIn(cat, Y)
    <3>1. f[n] = Y
      BY <2>1, <2>4, NeighboursAreServices
    <3>. QED BY <2>2, <2>3, <2>4, <3>1
  <2>5. CASE ~ ClosedIn(cat, Y)
    <3>1. f[n] # Y /\ Y \subseteq f[n]
      BY <2>1, <2>5, NeighboursAreServices
    <3>2. IsFiniteSet(f[n]) /\ Cardinality(f[n]) \in Nat
      BY <2>2, FS_Subset, FS_CardinalityType
    <3>3. Cardinality(Y) \in Nat /\ Cardinality(Y) <= Cardinality(f[n])
          /\ Cardinality(f[n]) # Cardinality(Y)
      BY <3>1, <3>2, FS_Subset, FS_CardinalityType
    <3>4. Cardinality(Y) >= n - 1
      BY <1>4, <2>5
    <3>5. Cardinality(f[n]) >= n
      BY <1>1, <3>2, <3>3, <3>4
    <3>. QED BY <2>2, <2>3, <3>5
  <2>. QED BY <2>4, <2>5
<1> HIDE DEF P
<1>5. T = {}
  <2> SUFFICES ASSUME T # {} PROVE FALSE
    OBVIOUS
  <2>1. T \subseteq Nat
    BY <1>1
  <2>2. PICK n \in T : \A m \in T : n <= m
    BY <2>1, LeastNumber
  <2>3. n \in 1..N /\ ~ P(n)
    BY <1>1, <1>3, <2>1
  <2>4. n - 1 \in 0..N /\ ~ (n <= n - 1)
    BY <1>1, <2>3
  <2>5. P(n - 1)
    BY <2>2, <2>4
  <2>. QED BY <1>4, <2>3, <2>5
<1>6. P(N)
  BY <1>1, <1>5
<1>7. ClosedIn(cat, f[N])
  <2> SUFFICES ASSUME Cardinality(f[N]) >= N, f[N] \in SUBSET Services PROVE ClosedIn(cat, f[N])
    BY <1>6 DEF P
  <2>1. Cardinality(f[N]) \in Nat /\ Cardinality(f[N]) <= N
    BY FS_Subset, FS_CardinalityType DEF N
  <2>2. f[N] = Services
    BY <1>1, <2>1, FS_Subset DEF N
  <2>. QED BY <2>2, NeighboursAreServices
<1>. QED BY <1>6, <1>7 DEF P, N

(* The impact of a change on known services: they and all that relations   *)
(* connect to them, and no more.                                           *)
LEMMA ImpactIsClosure ==
  ASSUME NEW cat \in Catalogs, NEW c,
         c.services \subseteq Services, c.services \cap Proposed = {}
  PROVE  LET impact == ImpactServices(cat, c) IN
           /\ c.services \subseteq impact /\ impact \subseteq Services /\ ClosedIn(cat, impact)
           /\ \A Z \in SUBSET Services :
                c.services \subseteq Z /\ ClosedIn(cat, Z) => impact \subseteq Z
<1> DEFINE X == c.services \ Proposed
           f == CHOOSE g : Rounds(cat, X, g)
<1>1. Rounds(cat, X, f)
  BY RoundsExist
<1>2. X = c.services /\ X \in SUBSET Services
  OBVIOUS
<1>3. ImpactServices(cat, c) = f[Cardinality(Services)]
  <2>1. ImpactServices(cat, c) = (c.services \cap Proposed) \cup f[Cardinality(Services)]
    BY Zenon DEF ImpactServices, Rounds
  <2> HIDE DEF f
  <2>. QED BY <2>1
<1> HIDE DEF f, X
<1>4. X \in SUBSET Services
  BY <1>2
<1>5. LET last == f[Cardinality(Services)] IN
        /\ last \subseteq Services /\ X \subseteq last /\ ClosedIn(cat, last)
        /\ \A Z \in SUBSET Services : X \subseteq Z /\ ClosedIn(cat, Z) => last \subseteq Z
  BY <1>1, <1>4, LastRoundIsClosed, SMT
<1>. QED BY <1>2, <1>3, <1>5

(* A finished integration covers the approved impact exactly.              *)
LEMMA ImpactIsCovered == TargetInv => FinishedCoversImpact
<1> SUFFICES ASSUME TargetInv, NEW k \in Stored, delivered[k] # {}
             PROVE  LET p == proposals[k]
                        named == UNION {c.services : c \in p.changes}
                    IN /\ named \subseteq delivered[k] /\ ClosedIn(p.base, delivered[k])
                       /\ \A X \in SUBSET Services :
                            named \subseteq X /\ ClosedIn(p.base, X) => delivered[k] \subseteq X
  BY DEF FinishedCoversImpact, ClosedIn
<1> DEFINE p == proposals[k]
           impact(c) == ImpactServices(p.base, c)
<1>1. p \in Proposals /\ Implementable(p) /\ delivered[k] = UNION {impact(c) : c \in p.changes}
  <2>1. k \in Keys /\ Approved(k) /\ delivered[k] = AffectedProjects(p)
    BY DEF TargetInv, ImpactIsKept, Stored
  <2>. QED BY <2>1, StoredAreProposals DEF TargetInv, Approved, AffectedProjects
<1>2. p.base \in Catalogs /\ \A c \in p.changes : ValidChange(c) /\ NamesKnown(p.base, c)
  BY <1>1 DEF Proposals, TargetInv, ProposalsAreSound
<1>3. ASSUME NEW c \in p.changes
      PROVE  c.services \subseteq Services /\ c.services \cap Proposed = {}
  <2>1. c.services \cap Proposed = {}
    BY <1>1 DEF Implementable
  <2>2. \A s \in c.services : s \in p.base.services
    BY <1>2, <2>1 DEF NamesKnown
  <2>. QED BY <1>2, <2>1, <2>2
<1>4. ASSUME NEW c \in p.changes
      PROVE  /\ c.services \subseteq impact(c) /\ ClosedIn(p.base, impact(c))
             /\ \A Z \in SUBSET Services :
                  c.services \subseteq Z /\ ClosedIn(p.base, Z) => impact(c) \subseteq Z
  BY <1>2, <1>3, ImpactIsClosure
<1> HIDE DEF p, impact
<1>5. ClosedIn(p.base, delivered[k])
  BY <1>1, <1>4 DEF ClosedIn
<1>6. UNION {c.services : c \in p.changes} \subseteq delivered[k]
  BY <1>1, <1>4
<1>7. ASSUME NEW X \in SUBSET Services, UNION {c.services : c \in p.changes} \subseteq X,
             ClosedIn(p.base, X)
      PROVE  delivered[k] \subseteq X
  BY <1>1, <1>4, <1>7
<1>. QED BY <1>5, <1>6, <1>7 DEF p

(* An approved TARGET becomes one command over its whole impact, whatever  *)
(* CURRENT does and however often its integration fails and is asked for   *)
(* again (IntegrateApprovedTarget).                                        *)
THEOREM TargetsAreHonoured == TargetSpec => []ApprovalIsHonoured
<1>1. TargetInv => ApprovalIsHonoured
  BY ImpactIsCovered DEF TargetInv, ApprovalIsHonoured
<1>. QED BY <1>1, TargetInvariant, PTL

-----------------------------------------------------------------------------
(***************************************************************************)
(* ProjectRegistry.  A reader is served rows of one revision because the   *)
(* rows are always those of the last revision, snapshots only grow, and a  *)
(* set of rows that was read too late is empty and fails the count.        *)
(***************************************************************************)
USE RegistryAssumption

(* A project row, and where a scan may be.                                 *)
ProjectRows == [status : Statuses \cup {"archived", "none"}, from : Statuses \cup {"none"}]
ScanPoints  == {"inspect", "mark", "scan", "save", "fail"}
Scans == [pc : ScanPoints, project : Projects]
           \cup [pc : ScanPoints, project : Projects, found : Contents]

(* Every row satisfies the table's constraint, and a scan under way knows  *)
(* its project and, once it has read the checkout, what it found.          *)
ScansAreKnown ==
  /\ \A p \in Projects : Consistent(project[p])
  /\ DOMAIN snapshots = Projects /\ DOMAIN scan = Scanners
  /\ \A s \in Scanners : /\ scan[s] = NoScan \/ scan[s] \in Scans
                         /\ scan[s].pc = "save" => scan[s].found \in Contents

(* What a topology is built of exists: a snapshot of each of its projects. *)
SourcesExist(sources) ==
  /\ sources = [p \in DOMAIN sources |-> sources[p]] /\ DOMAIN sources \subseteq Projects
  /\ \A p \in DOMAIN sources : sources[p] \in 1..Len(snapshots[p])

SourceMaps == UNION {[D -> Nat] : D \in SUBSET Projects}

(* The rows are those of the last revision.                                *)
RowsAreOfTheLast ==
  /\ revisions \in Seq(SourceMaps)
  /\ \A i \in 1..Len(revisions) : SourcesExist(revisions[i])
  /\ rows.revision = Len(revisions)
  /\ rows.revision # 0 => /\ rows.services = ServicesOf(revisions[rows.revision])
                          /\ rows.relations = RelationsOf(revisions[rows.revision])

BuildersAreKnown ==
  /\ DOMAIN build = Builders
  /\ \A b \in Builders : build[b].pc = "replace" => SourcesExist(build[b].sources)

(* A reader's revision exists; it has all of its services or none.         *)
ReadersAreKnown ==
  /\ DOMAIN reader = Readers
  /\ \A r \in Readers :
       /\ reader[r].pc # "idle" => reader[r].revision \in 1..Len(revisions)
       /\ reader[r].pc = "relations" =>
            reader[r].services \in {{}, ServicesOf(revisions[reader[r].revision])}

RegistryInv == /\ RegistryTypeOK /\ ScansAreKnown /\ RowsAreOfTheLast
               /\ BuildersAreKnown /\ ReadersAreKnown /\ ServedIsWhole

-----------------------------------------------------------------------------
(* Nothing is connected, scanned, stored or read at first.                 *)
LEMMA InitRegistry == RegistryInit => RegistryInv
<1> SUFFICES ASSUME RegistryInit PROVE RegistryInv
  OBVIOUS
<1>1. /\ Len(revisions) = 0 /\ DOMAIN revisions = {} /\ 1..Len(revisions) = {}
      /\ <<>> \in Seq(SourceMaps) /\ \A p \in Projects : snapshots[p] \in Seq(Contents)
  BY EmptySeq DEF RegistryInit
<1>2. \A p \in Projects : project[p] \in ProjectRows /\ Consistent(project[p])
  BY DEF RegistryInit, Unknown, ProjectRows, Statuses, Consistent
<1>3. RegistryTypeOK
  BY <1>1, <1>2 DEF RegistryInit, RegistryTypeOK, ProjectRows, NoScan
<1>4. ScansAreKnown
  BY <1>1, <1>2 DEF RegistryInit, ScansAreKnown, NoScan
<1>5. RowsAreOfTheLast /\ BuildersAreKnown
  BY <1>1 DEF RegistryInit, RowsAreOfTheLast, BuildersAreKnown, NoScan
<1>6. ReadersAreKnown /\ ServedIsWhole
  BY <1>1 DEF RegistryInit, ReadersAreKnown, ServedIsWhole, NoScan
<1>. QED BY <1>3, <1>4, <1>5, <1>6 DEF RegistryInv

(* Snapshots are only ever appended, so what a topology was built of, and  *)
(* the relations found in it, stay.                                        *)
SnapshotsStay ==
  \A p \in Projects : /\ Len(snapshots[p]) <= Len(snapshots'[p])
                      /\ \A i \in 1..Len(snapshots[p]) : snapshots'[p][i] = snapshots[p][i]

(* A map read from snapshots says the same later: snapshots are appended,  *)
(* never changed.                                                          *)
LEMMA SourcesStay ==
  ASSUME RegistryInv, SnapshotsStay, NEW sources, SourcesExist(sources),
         \A p \in Projects : Len(snapshots'[p]) \in Nat
  PROVE  SourcesExist(sources)' /\ RelationsOf(sources)' = RelationsOf(sources)
<1>1. \A p \in DOMAIN sources : /\ p \in Projects /\ sources[p] \in 1..Len(snapshots[p])
                                /\ Len(snapshots[p]) \in Nat
  BY LenProperties DEF SourcesExist, RegistryInv, RegistryTypeOK
<1>2. SourcesExist(sources)'
  BY <1>1 DEF SourcesExist, SnapshotsStay
<1>3. \A p \in DOMAIN sources : snapshots'[p][sources[p]] = snapshots[p][sources[p]]
  BY <1>1 DEF SnapshotsStay
<1>4. RelationsOf(sources)' = RelationsOf(sources)
  BY <1>3 DEF RelationsOf
<1>. QED BY <1>2, <1>4

(* So a step that writes no revision keeps the rows, and builders and      *)
(* readers that do not move.                                               *)
LEMMA TopologyStays ==
  ASSUME RegistryInv, SnapshotsStay, UNCHANGED <<revisions, rows>>,
         \A p \in Projects : Len(snapshots'[p]) \in Nat
  PROVE  /\ RowsAreOfTheLast'
         /\ UNCHANGED build => BuildersAreKnown'
         /\ UNCHANGED reader => ReadersAreKnown' /\ ServedIsWhole'
<1>1. \A i \in 1..Len(revisions) : /\ SourcesExist(revisions[i])
                                   /\ SourcesExist(revisions[i])'
                                   /\ RelationsOf(revisions[i])' = RelationsOf(revisions[i])
  BY SourcesStay DEF RegistryInv, RowsAreOfTheLast
<1>2. RowsAreOfTheLast'
  BY <1>1 DEF RegistryInv, RowsAreOfTheLast
<1>3. ASSUME UNCHANGED build PROVE BuildersAreKnown'
  BY <1>3, SourcesStay DEF RegistryInv, BuildersAreKnown
<1>4. ASSUME UNCHANGED reader PROVE ReadersAreKnown' /\ ServedIsWhole'
  BY <1>1, <1>4 DEF RegistryInv, ReadersAreKnown, ServedIsWhole, ServicesOf
<1>. QED BY <1>2, <1>3, <1>4

(* A scan that moves on is still one; ScanEnds forgets it.                 *)
LEMMA ScanMoves ==
  ASSUME ScansAreKnown, NEW s \in Scanners, scan[s].pc \in ScanPoints
  PROVE  /\ scan[s] \in Scans /\ scan[s].project \in Projects
         /\ \A pc \in ScanPoints : [scan[s] EXCEPT !.pc = pc] \in Scans
         /\ \A pc \in ScanPoints : [scan[s] EXCEPT !.pc = pc].pc = pc
         /\ \A c \in Contents : [pc |-> "save", project |-> scan[s].project, found |-> c] \in Scans
<1>1. scan[s] \in Scans
  BY DEF ScansAreKnown, NoScan, ScanPoints
<1>. QED BY <1>1 DEF Scans, ScanPoints

(* The scan of a request is one that the invariant allows, afterwards.     *)
ScanGoesOn(s) ==
  \E next : /\ scan' = [scan EXCEPT ![s] = next]
            /\ next = NoScan \/ next \in Scans
            /\ next.pc = "save" => next.found \in Contents

(* A step that only moves one scan on keeps what is known of every scan.   *)
LEMMA ScanGoes ==
  ASSUME ScansAreKnown, NEW s \in Scanners, scan[s].pc \in ScanPoints
  PROVE  /\ \A pc \in ScanPoints \ {"save"} : At(s, pc) => ScanGoesOn(s)
         /\ ScanEnds(s) => ScanGoesOn(s)
<1>1. ASSUME NEW pc \in ScanPoints \ {"save"}, At(s, pc) PROVE ScanGoesOn(s)
  <2>1. scan' = [scan EXCEPT ![s] = [scan[s] EXCEPT !.pc = pc]]
    BY <1>1 DEF At
  <2>. QED BY <2>1, ScanMoves DEF ScanGoesOn
<1>2. NoScan.pc # "save"
  BY DEF NoScan
<1>. QED BY <1>1, <1>2 DEF ScanEnds, ScanGoesOn

(* What the invariant says of scans after one of them moved.               *)
LEMMA ScanStep ==
  ASSUME RegistryInv, NEW s \in Scanners, NEW next,
         scan' = [scan EXCEPT ![s] = next], next = NoScan \/ next \in Scans,
         next.pc = "save" => next.found \in Contents,
         project' \in [Projects -> ProjectRows], \A p \in Projects : Consistent(project'[p]),
         snapshots' = snapshots, checkout' = checkout, UNCHANGED <<revisions, rows, build, reader>>
  PROVE  RegistryInv'
<1>1. SnapshotsStay /\ \A p \in Projects : Len(snapshots'[p]) \in Nat
  BY LenProperties DEF SnapshotsStay, RegistryInv, RegistryTypeOK
<1>2. /\ RowsAreOfTheLast' /\ BuildersAreKnown' /\ ReadersAreKnown' /\ ServedIsWhole'
  BY <1>1, TopologyStays
<1>3. ScansAreKnown'
  BY DEF RegistryInv, ScansAreKnown
<1>4. next.pc \in {"idle", "inspect", "mark", "scan", "save", "fail"}
  BY DEF NoScan, Scans, ScanPoints
<1>5. RegistryTypeOK'
  BY <1>4 DEF RegistryInv, RegistryTypeOK, ScansAreKnown, ProjectRows
<1>. QED BY <1>2, <1>3, <1>5 DEF RegistryInv

(* A written status keeps the row a row.                                   *)
LEMMA StatusWritten ==
  ASSUME RegistryInv, NEW p \in Projects
  PROVE  /\ project[p] \in ProjectRows /\ project \in [Projects -> ProjectRows]
         /\ \A status \in Statuses :
              /\ [project[p] EXCEPT !.status = status] \in ProjectRows
              /\ [project[p] EXCEPT !.status = status].status = status
              /\ [project[p] EXCEPT !.status = status].from = project[p].from
              /\ [project EXCEPT ![p].status = status] =
                   [project EXCEPT ![p] = [project[p] EXCEPT !.status = status]]
  BY DEF RegistryInv, RegistryTypeOK, ProjectRows

(* Upsert adds a project or keeps the row it finds, its archive state with *)
(* it.                                                                     *)
LEMMA ConnectStep ==
  ASSUME RegistryInv, NEW s \in Scanners, NEW p \in Projects, ConnectProject(s, p)
  PROVE  RegistryInv'
<1> DEFINE next == [pc |-> "mark", project |-> p]
           kept == [project[p] EXCEPT !.status = "connected"]
<1>1. next \in Scans /\ next.pc # "save" /\ scan' = [scan EXCEPT ![s] = next]
  BY DEF ConnectProject, Scans, ScanPoints
<1>2. \/ project' = project
      \/ project[p] = Unknown /\ project' = [project EXCEPT ![p] = kept]
  <2>1. [project EXCEPT ![p].status = "connected"] = [project EXCEPT ![p] = kept]
    BY StatusWritten DEF Statuses
  <2>. QED BY <2>1 DEF ConnectProject
<1>3. kept \in ProjectRows /\ kept.status = "connected" /\ kept.from = project[p].from
  BY StatusWritten DEF Statuses
<1> HIDE DEF next, kept
<1>4. project' \in [Projects -> ProjectRows]
  BY <1>2, <1>3, StatusWritten
<1>5. \A q \in Projects : Consistent(project'[q])
  <2>1. project[p] = Unknown => Consistent(kept)
    BY <1>3 DEF Consistent, Unknown
  <2>2. \A q \in Projects : Consistent(project[q])
    BY DEF RegistryInv, ScansAreKnown
  <2>. QED BY <1>2, <2>1, <2>2, StatusWritten
<1>. QED BY <1>1, <1>4, <1>5, ScanStep DEF ConnectProject

(* Reading the row and the checkout writes no row.                         *)
LEMMA ScanningStep ==
  ASSUME RegistryInv, NEW s \in Scanners,
         \/ \E p \in Projects : ScanProject(s, p)
         \/ Inspect(s) \/ ReadCheckout(s) \/ ScanDies(s)
  PROVE  RegistryInv'
<1>1. /\ UNCHANGED <<checkout, project, snapshots, revisions, rows, build, reader>>
      /\ project' \in [Projects -> ProjectRows] /\ \A p \in Projects : Consistent(project'[p])
  BY DEF RegistryInv, RegistryTypeOK, ScansAreKnown, ProjectRows, ScanProject, Inspect,
         ReadCheckout, ScanDies
<1>2. ScanGoesOn(s)
  <2>1. ASSUME NEW p \in Projects, ScanProject(s, p)
        PROVE  ScanGoesOn(s)
    <3> DEFINE next == [pc |-> "inspect", project |-> p]
    <3>1. next \in Scans /\ next.pc # "save" /\ scan' = [scan EXCEPT ![s] = next]
      BY <2>1 DEF ScanProject, Scans, ScanPoints
    <3> HIDE DEF next
    <3>. QED BY <3>1 DEF ScanGoesOn
  <2>2. CASE Inspect(s)
    BY <2>2, ScanGoes DEF Inspect, ScanPoints, RegistryInv
  <2>3. CASE ReadCheckout(s)
    <3>1. scan[s].pc = "scan" /\ scan[s].project \in Projects
      BY <2>3, ScanMoves DEF ReadCheckout, ScanPoints, RegistryInv
    <3>2. checkout[scan[s].project] \in Contents
      BY <3>1 DEF RegistryInv, RegistryTypeOK
    <3>3. CASE At(s, "fail")
      BY <3>1, <3>3, ScanGoes DEF ScanPoints, RegistryInv
    <3>4. CASE ~ At(s, "fail")
      <4> DEFINE next == [pc |-> "save", project |-> scan[s].project,
                          found |-> checkout[scan[s].project]]
      <4>1. scan' = [scan EXCEPT ![s] = next]
        BY <2>3, <3>4 DEF ReadCheckout
      <4>2. next \in Scans /\ next.found \in Contents
        BY <3>1, <3>2, ScanMoves DEF ScanPoints, RegistryInv
      <4> HIDE DEF next
      <4>. QED BY <4>1, <4>2 DEF ScanGoesOn
    <3>. QED BY <3>3, <3>4
  <2>4. CASE ScanDies(s)
    <3>1. scan[s].pc \in ScanPoints
      BY <2>4 DEF ScanDies, RegistryInv, ScansAreKnown, Scans
    <3>. QED BY <2>4, <3>1, ScanGoes DEF ScanDies, RegistryInv
  <2>. QED BY <2>1, <2>2, <2>3, <2>4
<1>. QED BY <1>1, <1>2, ScanStep DEF ScanGoesOn

(* UpdateSourceState and UpdateStatus leave archived rows alone.           *)
LEMMA MarkStep ==
  ASSUME RegistryInv, NEW s \in Scanners, MarkScanning(s) \/ MarkFailed(s)
  PROVE  RegistryInv'
<1> DEFINE p == scan[s].project
<1>1. p \in Projects /\ project \in [Projects -> ProjectRows]
      /\ \A q \in Projects : Consistent(project[q])
  BY ScanMoves, StatusWritten DEF MarkScanning, MarkFailed, ScanPoints, RegistryInv, ScansAreKnown
<1>2. UNCHANGED <<checkout, snapshots, revisions, rows, build, reader>>
  BY DEF MarkScanning, MarkFailed
<1>3. ScanGoesOn(s)
  BY ScanGoes DEF MarkScanning, MarkFailed, ScanPoints, RegistryInv
<1>4. /\ project' \in [Projects -> ProjectRows] /\ \A q \in Projects : Consistent(project'[q])
  <2>1. CASE project' = project
    BY <1>1, <2>1
  <2>2. ASSUME NEW status \in Statuses, project' = [project EXCEPT ![p].status = status],
               Consistent([project[p] EXCEPT !.status = status])
        PROVE  /\ project' \in [Projects -> ProjectRows]
               /\ \A q \in Projects : Consistent(project'[q])
    <3> DEFINE kept == [project[p] EXCEPT !.status = status]
    <3>1. kept \in ProjectRows /\ project' = [project EXCEPT ![p] = kept] /\ Consistent(kept)
      BY <1>1, <2>2, StatusWritten
    <3> HIDE DEF kept, p
    <3>. QED BY <1>1, <3>1
  <2>3. CASE MarkScanning(s)
    <3>1. CASE Archived(p)
      BY <2>1, <2>3, <3>1 DEF MarkScanning
    <3>2. CASE ~Archived(p)
      <4>1. [project[p] EXCEPT !.status = "scanning"].from = "none"
        BY <1>1, <3>2, StatusWritten DEF Statuses, Archived, Consistent
      <4>2. Consistent([project[p] EXCEPT !.status = "scanning"])
        BY <1>1, <4>1, StatusWritten DEF Statuses, Consistent
      <4>. QED BY <2>2, <2>3, <3>2, <4>2 DEF MarkScanning, Statuses
    <3>. QED BY <3>1, <3>2
  <2>4. CASE MarkFailed(s)
    <3> DEFINE failed == [project[p] EXCEPT !.status = "failed"]
    <3>1. failed \in ProjectRows
      BY <1>1, StatusWritten DEF Statuses
    <3>2. project' = IF Consistent(failed) THEN [project EXCEPT ![p] = failed] ELSE project
      BY <2>4 DEF MarkFailed
    <3> HIDE DEF failed, p
    <3>. QED BY <1>1, <3>1, <3>2
  <2>. QED BY <2>3, <2>4
<1>. QED BY <1>2, <1>3, <1>4, ScanStep DEF ScanGoesOn

(* SaveDiscovery may add a snapshot, and analyzes a project that is not    *)
(* archived.                                                               *)
LEMMA SaveStep ==
  ASSUME RegistryInv, NEW s \in Scanners, SaveDiscovery(s)
  PROVE  RegistryInv' /\ SnapshotsStay
<1> DEFINE p == scan[s].project
           saved == [project[p] EXCEPT !.status = "analyzed"]
<1>1. /\ p \in Projects /\ scan[s].pc = "save" /\ scan[s].found \in Contents
      /\ project \in [Projects -> ProjectRows] /\ \A q \in Projects : Consistent(project[q])
      /\ saved \in ProjectRows
  BY ScanMoves, StatusWritten
     DEF SaveDiscovery, ScanPoints, Statuses, RegistryInv, ScansAreKnown
<1>2. UNCHANGED <<checkout, revisions, rows, build, reader>>
  BY DEF SaveDiscovery
<1>3. CASE ~ Consistent(saved)
  <2>1. UNCHANGED <<project, snapshots>> /\ ScanGoesOn(s)
    BY <1>1, <1>3, ScanGoes DEF SaveDiscovery, ScanPoints, RegistryInv
  <2>2. SnapshotsStay
    BY <2>1, LenProperties DEF SnapshotsStay, RegistryInv, RegistryTypeOK
  <2> HIDE DEF p, saved
  <2>. QED BY <1>1, <1>2, <2>1, <2>2, ScanStep DEF ScanGoesOn
<1>4. CASE Consistent(saved)
  <2>1. /\ project' = [project EXCEPT ![p] = saved] /\ scan' = [scan EXCEPT ![s] = NoScan]
        /\ snapshots' = IF scan[s].found \in ToSet(snapshots[p]) THEN snapshots
                        ELSE [snapshots EXCEPT ![p] = Append(snapshots[p], scan[s].found)]
    BY <1>4 DEF SaveDiscovery, ScanEnds
  <2> HIDE DEF p, saved
  <2>2. snapshots[p] \in Seq(Contents) /\ DOMAIN snapshots = Projects
    BY <1>1 DEF RegistryInv, RegistryTypeOK, ScansAreKnown
  <2>3. \A q \in Projects : /\ snapshots'[q] \in Seq(Contents)
                            /\ Len(snapshots[q]) <= Len(snapshots'[q])
                            /\ \A i \in 1..Len(snapshots[q]) : snapshots'[q][i] = snapshots[q][i]
    <3>1. /\ Append(snapshots[p], scan[s].found) \in Seq(Contents)
          /\ Len(Append(snapshots[p], scan[s].found)) = Len(snapshots[p]) + 1
          /\ \A i \in 1..Len(snapshots[p]) :
               Append(snapshots[p], scan[s].found)[i] = snapshots[p][i]
      BY <1>1, <2>2, AppendProperties
    <3>2. \A q \in Projects : snapshots[q] \in Seq(Contents) /\ Len(snapshots[q]) \in Nat
      BY LenProperties DEF RegistryInv, RegistryTypeOK
    <3>. QED BY <1>1, <2>1, <2>2, <3>1, <3>2
  <2>4. SnapshotsStay /\ \A q \in Projects : Len(snapshots'[q]) \in Nat
    BY <2>3, LenProperties DEF SnapshotsStay
  <2>5. RowsAreOfTheLast' /\ BuildersAreKnown' /\ ReadersAreKnown' /\ ServedIsWhole'
    BY <1>2, <2>4, TopologyStays
  <2>6. ScansAreKnown'
    <3>1. DOMAIN snapshots' = Projects
      BY <2>1, <2>2
    <3>. QED BY <1>1, <1>4, <2>1, <3>1 DEF RegistryInv, ScansAreKnown, NoScan
  <2>7. RegistryTypeOK'
    BY <1>1, <1>2, <2>1, <2>3 DEF RegistryInv, RegistryTypeOK, ScansAreKnown, ProjectRows, NoScan
  <2>. QED BY <2>4, <2>5, <2>6, <2>7 DEF RegistryInv
<1>. QED BY <1>3, <1>4

(* The owner's steps: a checkout is edited, a project archived, restored.  *)
LEMMA OwnerStep ==
  ASSUME RegistryInv, NEW p \in Projects,
         EditCheckout(p) \/ ArchiveProject(p) \/ RestoreProject(p)
  PROVE  RegistryInv'
<1>1. UNCHANGED <<snapshots, revisions, rows, scan, build, reader>>
  BY DEF EditCheckout, ArchiveProject, RestoreProject
<1>2. SnapshotsStay /\ \A q \in Projects : Len(snapshots'[q]) \in Nat
  BY <1>1, LenProperties DEF SnapshotsStay, RegistryInv, RegistryTypeOK
<1>3. RowsAreOfTheLast' /\ BuildersAreKnown' /\ ReadersAreKnown' /\ ServedIsWhole'
  BY <1>1, <1>2, TopologyStays
<1>4. checkout' \in [Projects -> Contents]
  BY DEF EditCheckout, ArchiveProject, RestoreProject, RegistryInv, RegistryTypeOK
<1>5. /\ project' \in [Projects -> ProjectRows] /\ \A q \in Projects : Consistent(project'[q])
  <2>1. project \in [Projects -> ProjectRows] /\ \A q \in Projects : Consistent(project[q])
    BY StatusWritten DEF RegistryInv, ScansAreKnown
  <2>2. CASE ArchiveProject(p)
    <3> DEFINE kept == [status |-> "archived", from |-> project[p].status]
    <3>1. kept \in ProjectRows /\ Consistent(kept) /\ project' = [project EXCEPT ![p] = kept]
      BY <2>2 DEF ArchiveProject, ProjectRows, Consistent, Statuses
    <3> HIDE DEF kept
    <3>. QED BY <2>1, <3>1
  <2>3. CASE RestoreProject(p)
    <3> DEFINE kept == [status |-> project[p].from, from |-> "none"]
    <3>1. kept \in ProjectRows /\ Consistent(kept) /\ project' = [project EXCEPT ![p] = kept]
      BY <2>1, <2>3 DEF RestoreProject, ProjectRows, Consistent, Statuses
    <3> HIDE DEF kept
    <3>. QED BY <2>1, <3>1
  <2>4. CASE EditCheckout(p)
    BY <2>1, <2>4 DEF EditCheckout
  <2>. QED BY <2>2, <2>3, <2>4
<1>6. ScansAreKnown' /\ RegistryTypeOK'
  BY <1>1, <1>4, <1>5 DEF RegistryInv, ScansAreKnown, RegistryTypeOK, ProjectRows
<1>. QED BY <1>3, <1>6 DEF RegistryInv

(* What Rebuild gathers is a map of existing snapshots.                    *)
LEMMA SourcesAreMaps ==
  ASSUME RegistryInv, NEW sources, SourcesExist(sources)
  PROVE  sources \in SourceMaps
<1>1. \A p \in DOMAIN sources : sources[p] \in Nat
  BY LenProperties DEF SourcesExist, RegistryInv, RegistryTypeOK
<1>. QED BY <1>1 DEF SourcesExist, SourceMaps

(* A rebuild gathers snapshots that exist, and replaces every row at once. *)
LEMMA GatherStep ==
  ASSUME RegistryInv, NEW b \in Builders, GatherSources(b)
  PROVE  RegistryInv'
<1>1. UNCHANGED <<checkout, project, snapshots, revisions, rows, scan, reader, edits>>
  BY DEF GatherSources
<1>2. SnapshotsStay /\ \A q \in Projects : Len(snapshots'[q]) \in Nat
  BY <1>1, LenProperties DEF SnapshotsStay, RegistryInv, RegistryTypeOK
<1>3. RowsAreOfTheLast' /\ ReadersAreKnown' /\ ServedIsWhole'
  BY <1>1, <1>2, TopologyStays
<1>4. ScansAreKnown' /\ RegistryTypeOK'
  BY <1>1 DEF RegistryInv, ScansAreKnown, RegistryTypeOK
<1> DEFINE active == {p \in Projects : project[p].status \in Statuses /\ snapshots[p] # <<>>}
           found  == [p \in active |-> Len(snapshots[p])]
<1>5. SourcesExist(found)
  <2>1. \A p \in active : Len(snapshots[p]) \in 1..Len(snapshots[p])
    <3>1. \A p \in active : snapshots[p] \in Seq(Contents) /\ snapshots[p] # <<>>
      BY DEF RegistryInv, RegistryTypeOK
    <3>. QED BY <3>1, LenProperties, EmptySeq
  <2>. QED BY <2>1 DEF SourcesExist
<1>6. PICK new : /\ SourcesExist(new)
                 /\ build' = [build EXCEPT ![b] = [pc |-> "replace", sources |-> new]]
  BY <1>5 DEF GatherSources
<1>7. SourcesExist(new)' /\ \A sources : SourcesExist(sources) => SourcesExist(sources)'
  BY <1>1, <1>6 DEF SourcesExist
<1>8. BuildersAreKnown'
  BY <1>6, <1>7 DEF RegistryInv, BuildersAreKnown
<1>. QED BY <1>3, <1>4, <1>8 DEF RegistryInv

(* Replace stores the sources of one gathering as the next revision, with  *)
(* its rows in the same transaction.                                       *)
LEMMA ReplaceStep ==
  ASSUME RegistryInv, NEW b \in Builders, ReplaceTopology(b)
  PROVE  RegistryInv'
<1> DEFINE new == build[b].sources
<1>1. /\ UNCHANGED <<checkout, project, snapshots, scan, reader>>
      /\ build' = [build EXCEPT ![b] = NoScan] /\ SourcesExist(new)
  BY DEF ReplaceTopology, RegistryInv, BuildersAreKnown
<1>2. SnapshotsStay /\ \A q \in Projects : Len(snapshots'[q]) \in Nat
  BY <1>1, LenProperties DEF SnapshotsStay, RegistryInv, RegistryTypeOK
<1>3. ScansAreKnown'
  BY <1>1 DEF RegistryInv, ScansAreKnown
<1>4. \A sources : /\ SourcesExist(sources) <=> SourcesExist(sources)'
                   /\ RelationsOf(sources)' = RelationsOf(sources)
  BY <1>1 DEF SourcesExist, RelationsOf
<1>5. BuildersAreKnown'
  BY <1>1, <1>4 DEF RegistryInv, BuildersAreKnown, NoScan
<1>6. CASE UNCHANGED <<revisions, rows>>
  <2>1. RowsAreOfTheLast' /\ ReadersAreKnown' /\ ServedIsWhole'
    BY <1>1, <1>2, <1>6, TopologyStays
  <2>. QED BY <1>1, <1>3, <1>5, <1>6, <2>1 DEF RegistryInv, RegistryTypeOK
<1>7. CASE /\ Len(revisions) < MaxRevisions /\ revisions' = Append(revisions, new)
           /\ rows' = [revision |-> Len(revisions) + 1, services |-> ServicesOf(new),
                       relations |-> RelationsOf(new)]
  <2>1. /\ revisions' \in Seq(SourceMaps) /\ Len(revisions) \in Nat
        /\ Len(revisions') = Len(revisions) + 1
        /\ DOMAIN revisions' = 1..(Len(revisions) + 1)
        /\ \A i \in 1..Len(revisions) : revisions'[i] = revisions[i]
        /\ revisions'[Len(revisions) + 1] = new
    <3>1. revisions \in Seq(SourceMaps) /\ new \in SourceMaps
      BY <1>1, SourcesAreMaps DEF RegistryInv, RowsAreOfTheLast
    <3>. QED BY <1>7, <3>1, AppendProperties, LenProperties
  <2> HIDE DEF new
  <2>2. RowsAreOfTheLast'
    BY <1>1, <1>4, <1>7, <2>1 DEF RegistryInv, RowsAreOfTheLast, ServicesOf
  <2>3. ReadersAreKnown' /\ ServedIsWhole'
    BY <1>1, <1>4, <2>1 DEF RegistryInv, ReadersAreKnown, ServedIsWhole, ServicesOf
  <2>4. RegistryTypeOK'
    BY <1>1, <1>7, <2>1 DEF RegistryInv, RegistryTypeOK
  <2>. QED BY <1>3, <1>5, <2>2, <2>3, <2>4 DEF RegistryInv
<1>. QED BY <1>6, <1>7 DEF ReplaceTopology

(* Counts compare: a set of a revision's rows that was read too late is    *)
(* empty, so it has their number only when there are none.                 *)
LEMMA CountedIsWhole ==
  ASSUME RegistryInv, NEW r \in Readers, reader[r].pc = "relations",
         NEW found, found \in {{}, RelationsOf(revisions[reader[r].revision])}, Counted(r, found)
  PROVE  /\ reader[r].services = ServicesOf(revisions[reader[r].revision])
         /\ found = RelationsOf(revisions[reader[r].revision])
<1> DEFINE of == revisions[reader[r].revision]
<1>1. SourcesExist(of) /\ reader[r].services \in {{}, ServicesOf(of)}
  BY DEF RegistryInv, ReadersAreKnown, RowsAreOfTheLast
<1>2. IsFiniteSet(ServicesOf(of))
  BY <1>1, FS_Subset DEF SourcesExist, ServicesOf
<1>3. IsFiniteSet(RelationsOf(of))
  <2>1. IsFiniteSet(DOMAIN of)
    BY <1>1, FS_Subset DEF SourcesExist
  <2>2. IsFiniteSet((DOMAIN of) \X (DOMAIN of))
    BY <2>1, FS_Product
  <2>. QED BY <2>2, FS_Subset DEF RelationsOf
<1>4. /\ Cardinality(reader[r].services) = Cardinality(ServicesOf(of))
      /\ Cardinality(found) = Cardinality(RelationsOf(of))
  BY DEF Counted
<1> HIDE DEF of
<1>5. reader[r].services = ServicesOf(of)
  BY <1>1, <1>2, <1>4, FS_EmptySet
<1>6. found = RelationsOf(of)
  BY <1>3, <1>4, FS_EmptySet DEF of
<1>. QED BY <1>5, <1>6 DEF of

(* A reader's statements see the rows of its own revision or none, and     *)
(* count what they got.                                                    *)
LEMMA ReaderStep ==
  ASSUME RegistryInv, NEW r \in Readers,
         BeginRead(r) \/ ReadServices(r) \/ ReadRelations(r) \/ EndRead(r)
  PROVE  RegistryInv'
<1>1. UNCHANGED <<checkout, project, snapshots, revisions, rows, scan, build>>
  BY DEF BeginRead, ReadServices, ReadRelations, EndRead
<1>2. SnapshotsStay /\ \A q \in Projects : Len(snapshots'[q]) \in Nat
  BY <1>1, LenProperties DEF SnapshotsStay, RegistryInv, RegistryTypeOK
<1>3. RowsAreOfTheLast' /\ BuildersAreKnown'
  BY <1>1, <1>2, TopologyStays
<1>4. ScansAreKnown' /\ RegistryTypeOK'
  BY <1>1 DEF RegistryInv, ScansAreKnown, RegistryTypeOK
<1>5. \A sources : RelationsOf(sources)' = RelationsOf(sources)
  BY <1>1 DEF RelationsOf
<1>6. /\ DOMAIN reader' = Readers /\ \A q \in Readers \ {r} : reader'[q] = reader[q]
  BY DEF RegistryInv, ReadersAreKnown, BeginRead, ReadServices, ReadRelations, EndRead
<1> DEFINE next == reader'[r]
<1>7. ASSUME next.pc # "idle" => next.revision \in 1..Len(revisions),
             next.pc = "relations" =>
               next.services \in {{}, ServicesOf(revisions[next.revision])},
             next.pc = "served" => /\ next.services = ServicesOf(revisions[next.revision])
                                   /\ next.relations = RelationsOf(revisions[next.revision])
      PROVE  RegistryInv'
  <2>1. ReadersAreKnown' /\ ServedIsWhole'
    BY <1>1, <1>5, <1>6, <1>7 DEF RegistryInv, ReadersAreKnown, ServedIsWhole, ServicesOf
  <2>. QED BY <1>3, <1>4, <2>1 DEF RegistryInv
<1>8. CASE BeginRead(r)
  <2>1. next = [pc |-> "services", revision |-> Len(revisions)]
    BY <1>8 DEF BeginRead, RegistryInv, ReadersAreKnown
  <2>2. Len(revisions) \in 1..Len(revisions)
    BY <1>8, EmptySeq, LenProperties DEF BeginRead, RegistryInv, RowsAreOfTheLast
  <2> HIDE DEF next
  <2>. QED BY <1>7, <2>1, <2>2 DEF next
<1>9. CASE ReadServices(r)
  <2>1. /\ next = [pc |-> "relations", revision |-> reader[r].revision,
                   services |-> RowsOf(reader[r].revision, rows.services)]
        /\ reader[r].revision \in 1..Len(revisions)
    BY <1>9 DEF ReadServices, RegistryInv, ReadersAreKnown
  <2>2. RowsOf(reader[r].revision, rows.services)
          \in {{}, ServicesOf(revisions[reader[r].revision])}
    BY <2>1 DEF RowsOf, RegistryInv, RowsAreOfTheLast
  <2>. QED BY <1>7, <2>1, <2>2
<1>10. CASE ReadRelations(r)
  <2> DEFINE found == RowsOf(reader[r].revision, rows.relations)
  <2>1. reader[r].revision \in 1..Len(revisions) /\ reader[r].pc = "relations"
    BY <1>10 DEF ReadRelations, RegistryInv, ReadersAreKnown
  <2>2. found \in {{}, RelationsOf(revisions[reader[r].revision])}
    BY <2>1 DEF RowsOf, RegistryInv, RowsAreOfTheLast
  <2>3. CASE Counted(r, found)
    <3>1. next = [pc |-> "served", revision |-> reader[r].revision,
                  services |-> reader[r].services, relations |-> found]
      BY <1>10, <2>3 DEF ReadRelations, RegistryInv, ReadersAreKnown
    <3>2. /\ reader[r].services = ServicesOf(revisions[reader[r].revision])
          /\ found = RelationsOf(revisions[reader[r].revision])
      <4>1. PICK kept : kept = found
        OBVIOUS
      <4>. QED BY <2>1, <2>2, <2>3, <4>1, CountedIsWhole
    <3>. QED BY <1>7, <2>1, <3>1, <3>2
  <2>4. CASE ~ Counted(r, found)
    <3>1. next = NoScan
      BY <1>10, <2>4 DEF ReadRelations, RegistryInv, ReadersAreKnown
    <3>. QED BY <1>7, <3>1 DEF NoScan
  <2>. QED BY <2>3, <2>4
<1>11. CASE EndRead(r)
  <2>1. next = NoScan
    BY <1>11 DEF EndRead, RegistryInv, ReadersAreKnown
  <2>. QED BY <1>7, <2>1 DEF NoScan
<1>. QED BY <1>8, <1>9, <1>10, <1>11

(* Every step keeps the invariant: one lemma per group of actions.         *)
LEMMA RegistryStep == RegistryInv /\ [RegistryNext]_registryVars => RegistryInv'
<1> SUFFICES ASSUME RegistryInv, [RegistryNext]_registryVars PROVE RegistryInv'
  OBVIOUS
<1>1. CASE UNCHANGED registryVars
  <2>1. RegistryTypeOK' /\ ScansAreKnown'
    BY <1>1 DEF registryVars, RegistryInv, RegistryTypeOK, ScansAreKnown
  <2>2. RowsAreOfTheLast' /\ BuildersAreKnown'
    BY <1>1 DEF registryVars, RegistryInv, RowsAreOfTheLast, BuildersAreKnown, SourcesExist, RelationsOf, ServicesOf
  <2>3. ReadersAreKnown' /\ ServedIsWhole'
    BY <1>1 DEF registryVars, RegistryInv, ReadersAreKnown, ServedIsWhole, RelationsOf, ServicesOf
  <2>. QED BY <2>1, <2>2, <2>3 DEF RegistryInv
<1>2. ASSUME NEW p \in Projects, EditCheckout(p) \/ ArchiveProject(p) \/ RestoreProject(p)
      PROVE  RegistryInv'
  BY <1>2, OwnerStep
<1>3. ASSUME NEW s \in Scanners, NEW p \in Projects, ConnectProject(s, p) \/ ScanProject(s, p)
      PROVE  RegistryInv'
  BY <1>3, ConnectStep, ScanningStep
<1>4. ASSUME NEW s \in Scanners, \/ Inspect(s) \/ MarkScanning(s) \/ ReadCheckout(s)
                                 \/ SaveDiscovery(s) \/ MarkFailed(s) \/ ScanDies(s)
      PROVE  RegistryInv'
  BY <1>4, ScanningStep, MarkStep, SaveStep
<1>5. ASSUME NEW r \in Readers, BeginRead(r) \/ ReadServices(r) \/ ReadRelations(r) \/ EndRead(r)
      PROVE  RegistryInv'
  BY <1>5, ReaderStep
<1>. QED BY <1>1, <1>2, <1>3, <1>4, <1>5, GatherStep, ReplaceStep DEF RegistryNext

(* The invariant of the registry holds in every behaviour.                 *)
LEMMA RegistryInvariant == RegistrySpec => []RegistryInv
  BY InitRegistry, RegistryStep, PTL DEF RegistrySpec

(* Every topology that is served is the whole of one revision, although    *)
(* Get reads in statements of their own while Replace exchanges the rows.  *)
THEOREM RegistryStaysWhole == RegistrySpec => []RegistryIsWhole
<1>1. RegistryInv => RegistryIsWhole
  BY DEF RegistryInv, RegistryIsWhole
<1>. QED BY <1>1, RegistryInvariant, PTL

(* An archived project stays archived until it is restored, and is then    *)
(* what it was, whatever scans were under way: the table's constraint      *)
(* refuses what SaveDiscovery and UpdateStatus do not check.               *)
THEOREM ArchivesHold == RegistrySpec => ArchivedUntilRestored
<1>1. RegistryInv /\ [RegistryNext]_registryVars
        => [\A p \in Projects : Archived(p) =>
              \/ project'[p] = project[p]
              \/ project'[p] = [status |-> project[p].from, from |-> "none"]]_registryVars
  <2> SUFFICES ASSUME RegistryInv, RegistryNext, NEW p \in Projects, Archived(p)
               PROVE  \/ project'[p] = project[p]
                      \/ project'[p] = [status |-> project[p].from, from |-> "none"]
    BY DEF registryVars
  <2>1. /\ project \in [Projects -> ProjectRows] /\ project[p].from # "none"
        /\ \A s \in Scanners : scan[s].pc \in ScanPoints => scan[s].project \in Projects
    BY StatusWritten, ScanMoves DEF RegistryInv, ScansAreKnown, Archived, Consistent
  <2>2. ASSUME NEW s \in Scanners, NEW q \in Projects, ConnectProject(s, q)
        PROVE  project'[p] = project[p]
    BY <2>1, <2>2 DEF ConnectProject, Archived
  <2>3. ASSUME NEW s \in Scanners, MarkScanning(s) PROVE project'[p] = project[p]
    BY <2>1, <2>3 DEF MarkScanning
  <2>4. ASSUME NEW s \in Scanners, NEW q \in Projects, NEW status \in Statuses, q = p
        PROVE  ~ Consistent([project[q] EXCEPT !.status = status])
    BY <2>1, <2>4, StatusWritten DEF Consistent, Statuses
  <2>5. ASSUME NEW s \in Scanners, SaveDiscovery(s) PROVE project'[p] = project[p]
    BY <2>1, <2>4, <2>5 DEF SaveDiscovery, Statuses
  <2>6. ASSUME NEW s \in Scanners, MarkFailed(s) PROVE project'[p] = project[p]
    BY <2>1, <2>4, <2>6 DEF MarkFailed, Statuses
  <2>7. ASSUME NEW q \in Projects, ArchiveProject(q) \/ RestoreProject(q) \/ EditCheckout(q)
        PROVE  \/ project'[p] = project[p]
               \/ project'[p] = [status |-> project[p].from, from |-> "none"]
    BY <2>1, <2>7 DEF ArchiveProject, RestoreProject, EditCheckout, Archived, Statuses
  <2>. QED BY <2>2, <2>3, <2>5, <2>6, <2>7 DEF RegistryNext, ScanProject, Inspect, ReadCheckout,
         ScanDies, GatherSources, ReplaceTopology, BeginRead, ReadServices, ReadRelations, EndRead
<1>. QED BY <1>1, RegistryInvariant, PTL DEF RegistrySpec, ArchivedUntilRestored

-----------------------------------------------------------------------------
(***************************************************************************)
(* Conversation.  That turns do not overlap rests on one row: a running    *)
(* turn owns the conversation's only pending answer.  That answers share   *)
(* one thread rests on the runner's protocol: a turn completes only after  *)
(* its thread was reported, attached, and never detached since.            *)
(***************************************************************************)
(* A request knows where it is, the thread it resumes and whether the      *)
(* runner has reported one.                                                *)
TurnsAreKnown ==
  turn \in [Turns -> [pc : {"idle", "read", "run", "complete", "fail", "ended"},
                      thread : Threads \cup {NoThread}, seen : BOOLEAN]]

(* One pending answer at a time, and none before its turn has begun.       *)
OnePending ==
  /\ \A t, u \in Turns : answer[t] = "pending" /\ answer[u] = "pending" => t = u
  /\ \A t \in Turns : turn[t].pc \in {"idle", "read"} => answer[t] = "none" /\ ~turn[t].seen

(* A reported thread is the one attached, and nothing is answered without. *)
ReportedIsAttached ==
  \A t \in Turns :
     /\ turn[t].seen => turn[t].thread = thread /\ thread # NoThread
     /\ turn[t].pc = "complete" \/ answer[t] = "completed" => turn[t].seen

TalkInv == TalkTypeOK /\ TurnsAreKnown /\ OnePending /\ ReportedIsAttached

-----------------------------------------------------------------------------
(* No turn has begun at first.                                             *)
LEMMA InitTalkInv == TalkInit => TalkInv
  BY DEF TalkInit, TalkInv, TalkTypeOK, TurnsAreKnown, OnePending, ReportedIsAttached

(* Every step of a turn keeps the invariant; it touches its own request    *)
(* and its own answer, and the thread only once.                           *)
LEMMA TalkStep == TalkInv /\ [TalkNext]_talkVars => TalkInv'
<1> SUFFICES ASSUME TalkInv, [TalkNext]_talkVars PROVE TalkInv'
  OBVIOUS
<1> USE DEF TalkInv, TalkTypeOK, TurnsAreKnown, OnePending, ReportedIsAttached, Goes
<1>1. CASE UNCHANGED talkVars
  BY <1>1 DEF talkVars
<1>2. ASSUME NEW t \in Turns, ReadConversation(t) PROVE TalkInv'
  <2>1. turn' = [turn EXCEPT ![t] = [turn[t] EXCEPT !.pc = "read", !.thread = thread]]
    BY <1>2 DEF ReadConversation
  <2>. QED BY <1>2, <2>1 DEF ReadConversation
<1>3. ASSUME NEW t \in Turns, BeginTurn(t) PROVE TalkInv'
  <2>1. CASE NonePending
    <3>1. turn' = [turn EXCEPT ![t].pc = "run"] /\ answer' = [answer EXCEPT ![t] = "pending"]
      BY <1>3, <2>1 DEF BeginTurn
    <3>2. \A u \in Turns : answer'[u] = "pending" <=> u = t
      BY <2>1, <3>1 DEF NonePending
    <3>. QED BY <1>3, <3>1, <3>2 DEF BeginTurn
  <2>2. CASE ~NonePending
    <3>1. /\ turn' = [turn EXCEPT ![t].pc = "ended"] /\ turn[t].pc = "read"
          /\ answer' = answer /\ thread' = thread
      BY <1>3, <2>2 DEF BeginTurn
    <3>2. turn'[t].pc = "ended" /\ turn'[t].seen = turn[t].seen /\ turn'[t].thread = turn[t].thread
      BY <3>1
    <3>3. \A u \in Turns \ {t} : turn'[u] = turn[u]
      BY <3>1
    <3>. QED BY <3>1, <3>2, <3>3
  <2>. QED BY <2>1, <2>2
<1>4. ASSUME NEW t \in Turns, NEW id \in Threads, ThreadStarted(t, id) PROVE TalkInv'
  <2>1. CASE FirstOfTurn(t, id) /\ Attachable(id)
    <3>1. /\ turn' = [turn EXCEPT ![t] = [turn[t] EXCEPT !.seen = TRUE, !.thread = id]]
          /\ thread' = id /\ answer' = answer /\ turn[t].pc = "run"
      BY <1>4, <2>1 DEF ThreadStarted
    <3>2. \A u \in Turns : turn[u].seen => turn[u].thread = id
      BY <2>1, ThreadAssumption DEF Attachable
    <3> DEFINE next == [turn[t] EXCEPT !.seen = TRUE, !.thread = id]
    <3>a. turn[t] \in [pc : {"idle", "read", "run", "complete", "fail", "ended"},
                       thread : Threads \cup {NoThread}, seen : BOOLEAN]
      OBVIOUS
    <3>b. /\ next \in [pc : {"idle", "read", "run", "complete", "fail", "ended"},
                        thread : Threads \cup {NoThread}, seen : BOOLEAN]
          /\ next.seen /\ next.thread = id /\ next.pc = turn[t].pc
      BY <3>a
    <3> HIDE DEF next
    <3>c. turn' = [turn EXCEPT ![t] = next]
      BY <3>1 DEF next
    <3>3. TurnsAreKnown'
      BY <3>b, <3>c
    <3>4. /\ turn'[t].seen /\ turn'[t].thread = id /\ turn'[t].pc = "run"
          /\ \A u \in Turns \ {t} : turn'[u] = turn[u]
      BY <3>1, <3>b, <3>c
    <3>. QED BY <3>1, <3>2, <3>3, <3>4, ThreadAssumption
  <2>2. CASE ~(FirstOfTurn(t, id) /\ Attachable(id))
    BY <1>4, <2>2 DEF ThreadStarted
  <2>. QED BY <2>1, <2>2
<1>5. ASSUME NEW t \in Turns, NEW id \in Threads, ResultArrives(t, id) PROVE TalkInv'
  <2>1. PICK pc \in {"complete", "fail"} : turn' = [turn EXCEPT ![t].pc = pc]
    BY <1>5 DEF ResultArrives
  <2>2. turn[t].pc = "run" /\ answer' = answer /\ thread' = thread
    BY <1>5 DEF ResultArrives
  <2>3. pc = "complete" => turn[t].seen
    BY <1>5, <2>1 DEF ResultArrives
  <2>4. /\ turn'[t].pc = pc /\ turn'[t].seen = turn[t].seen /\ turn'[t].thread = turn[t].thread
        /\ \A u \in Turns \ {t} : turn'[u] = turn[u]
    BY <2>1
  <2>5. TurnsAreKnown'
    BY <2>1
  <2>. QED BY <2>1, <2>2, <2>3, <2>4, <2>5
<1>6. ASSUME NEW t \in Turns, RunnerFails(t) PROVE TalkInv'
  BY <1>6 DEF RunnerFails
<1>7. ASSUME NEW t \in Turns, CompleteTurn(t) PROVE TalkInv'
  BY <1>7 DEF CompleteTurn
<1>8. ASSUME NEW t \in Turns, FailTurn(t) PROVE TalkInv'
  BY <1>8 DEF FailTurn, FailPending
<1>9. ASSUME NEW t \in Turns, TurnDies(t) PROVE TalkInv'
  BY <1>9 DEF TurnDies
<1>. QED BY <1>1, <1>2, <1>3, <1>4, <1>5, <1>6, <1>7, <1>8, <1>9 DEF TalkNext

(* The invariant of a conversation holds in every behaviour.               *)
LEMMA TalkInvariant == TalkSpec => []TalkInv
  BY InitTalkInv, TalkStep, PTL DEF TalkSpec

(* At most one element: the set of running turns is empty or a singleton.  *)
LEMMA AtMostOne ==
  ASSUME NEW S, \A t, u \in S : t = u
  PROVE  Cardinality(S) <= 1
<1>1. CASE S = {}
  BY <1>1, FS_EmptySet
<1>2. CASE S # {}
  <2>1. PICK t \in S : S = {t}
    BY <1>2
  <2>2. Cardinality({t}) = 1
    BY FS_Singleton
  <2>. QED BY <2>1, <2>2
<1>. QED BY <1>1, <1>2

(* The owner talks to one operator (Send, BeginConversationTurn,           *)
(* AttachConversationThread): turns do not overlap and one thread gives    *)
(* every answer, whatever requests race and whatever process dies.         *)
THEOREM ConversationHasOneOperator == TalkSpec => []OneOperator
<1>1. TalkInv => AnswersShareOneThread
  BY DEF TalkInv, ReportedIsAttached, AnswersShareOneThread
<1>2. TalkInv => TurnsDoNotOverlap
  <2> SUFFICES ASSUME TalkInv
               PROVE  \A t, u \in {v \in Turns : turn[v].pc \in {"run", "complete"}} : t = u
    BY AtMostOne DEF TurnsDoNotOverlap
  <2>. QED BY DEF TalkInv, TalkTypeOK, OnePending
<1>3. TalkInv => OneOperator
  BY <1>1, <1>2 DEF TalkInv, OneOperator
<1>. QED BY <1>3, TalkInvariant, PTL

(* A stored answer is never taken back: FailConversationTurn touches a     *)
(* pending answer only, and no other turn writes it.                       *)
THEOREM AnswersAreKept == TalkSpec => AnswerStays
<1>1. TalkInv /\ [TalkNext]_talkVars
        => [\A t \in Turns : answer[t] = "completed" => answer'[t] = "completed"]_talkVars
  BY DEF TalkInv, TalkTypeOK, OnePending, TalkNext, talkVars, ReadConversation, BeginTurn,
     ThreadStarted, ResultArrives, RunnerFails, CompleteTurn, FailTurn, FailPending,
     TurnDies, Goes
<1>. QED BY <1>1, TalkInvariant, PTL DEF TalkSpec, AnswerStays

-----------------------------------------------------------------------------
(***************************************************************************)
(* GitLabLinks, with events delivered late, again and in any order.        *)
(***************************************************************************)
Events == [kind : {"merge_request", "pipeline"}, value : MergeStates \cup PipelineStates]
Rows   == [event : Nat, status : {"processed", "ignored"}]

(* The events, the rows that record them and the link have their types.    *)
LogsAreKnown ==
  /\ emitted \in Seq(Events)
  /\ \A e \in DOMAIN emitted :
       emitted[e].value \in IF emitted[e].kind = "pipeline" THEN PipelineStates ELSE MergeStates
  /\ recorded \in Seq(Rows)
  /\ link \in [merge : MergeStates \cup {"none", "unknown"},
               pipeline : PipelineStates \cup {"none"}, last : Nat]

(* An event is recorded once (its key is unique), of those GitLab emitted. *)
RecordedOnce ==
  \A i, j \in DOMAIN recorded : recorded[i].event = recorded[j].event => i = j

(* The records of merge request events that moved the link.                *)
Movers == {i \in DOMAIN recorded : /\ recorded[i].status = "processed"
                                   /\ emitted[recorded[i].event].kind = "merge_request"}

(* The link shows what the last of them said, and is not lost again.       *)
LastMoverShown ==
  Movers # {} => \E i \in Movers : /\ \A j \in Movers : j <= i
                                   /\ link.merge = emitted[recorded[i].event].value

LinkInv == LinkTypeOK /\ LogsAreKnown /\ RecordedOnce /\ LastMoverShown

-----------------------------------------------------------------------------
USE EventsAssumption

(* What Append makes of a sequence.                                        *)
LEMMA Appended ==
  ASSUME NEW S, NEW s \in Seq(S), NEW x \in S
  PROVE  /\ Append(s, x) \in Seq(S) /\ Len(s) \in Nat
         /\ Len(Append(s, x)) = Len(s) + 1
         /\ DOMAIN s = 1..Len(s) /\ DOMAIN Append(s, x) = 1..(Len(s) + 1)
         /\ \A i \in 1..Len(s) : Append(s, x)[i] = s[i]
         /\ Append(s, x)[Len(s) + 1] = x
  BY AppendProperties, LenProperties

(* There is no event, no delivery and no row at first.                     *)
LEMMA InitLinkInv == LinkInit => LinkInv
<1> SUFFICES ASSUME LinkInit PROVE LinkInv
  OBVIOUS
<1>1. /\ emitted \in Seq(Events) /\ recorded \in Seq(Rows)
      /\ DOMAIN emitted = {} /\ DOMAIN recorded = {} /\ Len(emitted) = 0
  BY EmptySeq DEF LinkInit
<1>2. LinkTypeOK
  <2>1. remote = "opened" /\ link.merge = "none" /\ link.pipeline = "none"
    BY DEF LinkInit, NoLink
  <2>. QED BY <1>1, <2>1 DEF LinkTypeOK, MergeStates
<1>3. LogsAreKnown
  BY <1>1 DEF LinkInit, LogsAreKnown, NoLink
<1>4. RecordedOnce /\ LastMoverShown
  BY <1>1 DEF RecordedOnce, LastMoverShown, Movers
<1>. QED BY <1>2, <1>3, <1>4 DEF LinkInv

(* GitLab's own steps append an event that nothing has recorded yet.       *)
LEMMA EmitStep ==
  ASSUME LinkInv, NEW ev \in Events, emitted' = Append(emitted, ev), remote' \in MergeStates,
         ev.value \in IF ev.kind = "pipeline" THEN PipelineStates ELSE MergeStates,
         Len(emitted) < MaxEvents, UNCHANGED <<link, recorded>>
  PROVE  LinkInv'
<1> USE DEF LinkInv
<1>1. /\ emitted' \in Seq(Events) /\ Len(emitted') = Len(emitted) + 1
      /\ DOMAIN emitted = 1..Len(emitted) /\ DOMAIN emitted' = 1..(Len(emitted) + 1)
      /\ \A e \in DOMAIN emitted : emitted'[e] = emitted[e]
      /\ emitted'[Len(emitted) + 1] = ev
  <2>1. emitted \in Seq(Events)
    BY DEF LogsAreKnown
  <2>. QED BY <2>1, Appended
<1>2. \A i \in DOMAIN recorded : emitted'[recorded[i].event] = emitted[recorded[i].event]
  BY <1>1 DEF LinkTypeOK
<1>3. LinkTypeOK'
  BY <1>1 DEF LinkTypeOK
<1>4. LogsAreKnown'
  BY <1>1 DEF LogsAreKnown
<1>5. Movers' = Movers
  BY <1>2 DEF Movers
<1>6. LastMoverShown'
  <2>1. CASE Movers = {}
    BY <1>5, <2>1 DEF LastMoverShown
  <2>2. CASE Movers # {}
    <3>1. PICK i \in Movers : /\ \A j \in Movers : j <= i
                              /\ link.merge = emitted[recorded[i].event].value
      BY <2>2, Zenon DEF LastMoverShown
    <3>2. emitted'[recorded[i].event] = emitted[recorded[i].event]
      BY <1>2 DEF Movers
    <3>3. link'.merge = emitted'[recorded'[i].event].value
      BY <3>1, <3>2
    <3>. QED BY <1>5, <3>1, <3>3, Zenon DEF LastMoverShown
  <2>. QED BY <2>1, <2>2
<1>. QED BY <1>3, <1>4, <1>6 DEF RecordedOnce

(* A publication makes the link once, with unknown states, and keeps it.   *)
LEMMA PublishStep == LinkInv /\ LinkPublished => LinkInv'
<1> SUFFICES ASSUME LinkInv, LinkPublished PROVE LinkInv'
  OBVIOUS
<1> USE DEF LinkInv, LinkPublished
<1>1. link # NoLink => link' = link
  OBVIOUS
<1>2. link' \in [merge : MergeStates \cup {"none", "unknown"},
                pipeline : PipelineStates \cup {"none"}, last : Nat]
  BY DEF LogsAreKnown, NoLink
<1>3. Movers # {} => link # NoLink
  <2> SUFFICES ASSUME Movers # {} PROVE link # NoLink
    OBVIOUS
  <2>1. PICK i \in Movers : link.merge = emitted[recorded[i].event].value
    BY DEF LastMoverShown
  <2>2. /\ recorded[i].event \in DOMAIN emitted
        /\ emitted[recorded[i].event].kind # "pipeline"
    BY DEF Movers, LinkTypeOK
  <2>3. link.merge \in MergeStates
    BY <2>1, <2>2 DEF LogsAreKnown
  <2>. QED BY <2>3 DEF NoLink, MergeStates
<1>4. Movers' = Movers
  BY DEF Movers
<1>5. LastMoverShown'
  BY <1>1, <1>3, <1>4 DEF LastMoverShown, Movers
<1>6. LinkTypeOK'
  BY <1>2 DEF LinkTypeOK
<1>. QED BY <1>2, <1>5, <1>6 DEF LogsAreKnown, RecordedOnce

(* A delivery records an event that was not known and, if it is processed  *)
(* and about the merge request, makes the link show it.                    *)
LEMMA DeliverStep ==
  ASSUME NEW e \in DOMAIN emitted
  PROVE  LinkInv /\ Deliver(e) => LinkInv'
<1> SUFFICES ASSUME LinkInv, Deliver(e) PROVE LinkInv'
  OBVIOUS
<1> USE DEF LinkInv
<1>1. PICK s \in {"processed", "ignored"} :
         /\ recorded' = Append(recorded, [event |-> e, status |-> s])
         /\ s = "ignored" => link' = link
         /\ s = "processed" => link' = Moved(e)
  BY DEF Deliver, Record
<1> DEFINE n == Len(recorded) + 1
<1>2. /\ e \in Nat /\ DOMAIN recorded = 1..Len(recorded) /\ DOMAIN recorded' = 1..n
      /\ \A i \in DOMAIN recorded : recorded'[i] = recorded[i]
      /\ recorded'[n] = [event |-> e, status |-> s]
      /\ n \notin DOMAIN recorded /\ n \in Nat
      /\ recorded' \in Seq(Rows)
  <2>1. e \in Nat /\ recorded \in Seq(Rows)
    BY DEF LogsAreKnown
  <2>2. [event |-> e, status |-> s] \in Rows
    BY <2>1 DEF Rows
  <2>. QED BY <1>1, <2>1, <2>2, Appended
<1>3. UNCHANGED <<remote, emitted>> /\ \A i \in DOMAIN recorded : recorded[i].event # e
  BY DEF Deliver, Duplicate, Known
<1>4. RecordedOnce'
  BY <1>2, <1>3 DEF RecordedOnce
<1>5. link' \in [merge : MergeStates \cup {"none", "unknown"},
                pipeline : PipelineStates \cup {"none"}, last : Nat]
  BY <1>1, <1>2 DEF LogsAreKnown, Moved
<1>6. LogsAreKnown' /\ LinkTypeOK'
  <2>1. LogsAreKnown'
    BY <1>2, <1>3, <1>5 DEF LogsAreKnown
  <2>2. LinkTypeOK'
    BY <1>2, <1>3, <1>5 DEF LinkTypeOK
  <2>. QED BY <2>1, <2>2
<1> DEFINE pipeline == emitted[e].kind = "pipeline"
<1>7. Moved(e).merge = IF pipeline THEN link.merge ELSE emitted[e].value
  BY DEF Moved, LogsAreKnown
<1>8. emitted[e].kind \in {"merge_request", "pipeline"}
  <2>1. emitted[e] \in Events
    BY DEF LogsAreKnown
  <2>. QED BY <2>1 DEF Events
<1>9. CASE s = "processed" /\ emitted[e].kind = "merge_request"
  <2>1. n \in Movers' /\ \A j \in Movers' : j <= n
    BY <1>2, <1>3, <1>9 DEF Movers
  <2>2. link'.merge = emitted'[recorded'[n].event].value
    BY <1>1, <1>2, <1>3, <1>9, <1>7
  <2>. QED BY <1>4, <1>6, <2>1, <2>2 DEF LastMoverShown
<1>10. CASE ~(s = "processed" /\ emitted[e].kind = "merge_request")
  <2>1. Movers' = Movers
    BY <1>2, <1>3, <1>10 DEF Movers
  <2>2. link'.merge = link.merge
    BY <1>1, <1>10, <1>7, <1>8
  <2>3. LastMoverShown'
    BY <1>2, <1>3, <2>1, <2>2 DEF LastMoverShown, Movers
  <2>. QED BY <1>4, <1>6, <2>3
<1>. QED BY <1>9, <1>10

(* Publishing, delivering and synchronising keep the invariant.            *)
LEMMA LinkStep == LinkInv /\ [LinkNext]_linkVars => LinkInv'
<1> SUFFICES ASSUME LinkInv, [LinkNext]_linkVars PROVE LinkInv'
  OBVIOUS
<1>1. CASE UNCHANGED linkVars
  BY <1>1 DEF linkVars, LinkInv, LinkTypeOK, LogsAreKnown, RecordedOnce, LastMoverShown, Movers
<1>2. ASSUME NEW to \in MergeStates, RemoteChanges(to) PROVE LinkInv'
  BY <1>2, EmitStep DEF RemoteChanges, Events
<1>3. ASSUME NEW status \in PipelineStates, RemotePipeline(status) PROVE LinkInv'
  BY <1>3, EmitStep DEF RemotePipeline, Events, LinkInv, LinkTypeOK
<1>. QED BY <1>1, <1>2, <1>3, PublishStep, DeliverStep DEF LinkNext

(* The invariant of the link holds in every behaviour.                     *)
LEMMA LinkInvariant == LinkSpec => []LinkInv
  BY InitLinkInv, LinkStep, PTL DEF LinkSpec

(* When the processed events came in GitLab's order, the last of them is   *)
(* the newest, and the link shows it.                                      *)
LEMMA LastIsNewest == LinkInv => RedeliveryUndoesNothing
<1> SUFFICES ASSUME LinkInv, InOrder, Shown # {}
             PROVE  link.merge = emitted[CHOOSE e \in Shown : \A f \in Shown : f <= e].value
  BY DEF RedeliveryUndoesNothing
<1> USE DEF LinkInv
<1>1. FirstTime = {i \in DOMAIN recorded : recorded[i].status = "processed"}
  BY DEF FirstTime, RecordedOnce, LogsAreKnown
<1>2. Shown = {recorded[i].event : i \in Movers}
  BY <1>1 DEF Shown, Movers
<1>3. \A j \in Movers : recorded[j].event \in Nat
  <2>1. \A j \in DOMAIN recorded : recorded[j] \in Rows
    BY DEF LogsAreKnown
  <2>. QED BY <2>1 DEF Movers, Rows
<1>4. PICK i \in Movers : /\ \A j \in Movers : j <= i
                          /\ link.merge = emitted[recorded[i].event].value
  BY <1>2 DEF LastMoverShown
<1> DEFINE m == recorded[i].event
<1>5. m \in Shown /\ \A f \in Shown : f \in Nat
  BY <1>2, <1>3
<1>6. \A j \in Movers : recorded[j].event <= m
  <2>1. \A j \in Movers : j \in Nat /\ j <= i /\ (j = i \/ j < i)
    BY <1>4 DEF Movers, LogsAreKnown
  <2>2. \A j \in Movers : j < i => recorded[j].event < recorded[i].event
    BY <1>1 DEF InOrder, Movers
  <2>. QED BY <2>1, <2>2, <1>3
<1>7. \A f \in Shown : f <= m
  BY <1>2, <1>6
<1>8. (CHOOSE e \in Shown : \A f \in Shown : f <= e) = m
  BY <1>5, <1>7
<1>. QED BY <1>4, <1>8

(* The link of a merge request follows it: deliveries that are repeated,   *)
(* late or out of order do not take it back (ApplyGitLabWebhook).          *)
THEOREM LinkFollowsItsRequest == LinkSpec => []LinkFollows
<1>1. LinkInv => LinkFollows
  BY LastIsNewest DEF LinkFollows, LinkInv
<1>. QED BY <1>1, LinkInvariant, PTL

(* A merged link stays merged: validExternalTransition refuses every event *)
(* that would reopen it, and a repeated publication keeps its state.       *)
THEOREM MergedLinksStay == LinkSpec => MergedStays
<1>1. LinkInv /\ [LinkNext]_linkVars => [link.merge = "merged" => link'.merge = "merged"]_linkVars
  <2> SUFFICES ASSUME LinkInv, LinkNext, link.merge = "merged" PROVE link'.merge = "merged"
    BY DEF linkVars
  <2>1. ASSUME NEW e \in DOMAIN emitted, Deliver(e) PROVE link'.merge = "merged"
    BY <2>1 DEF Deliver, ValidTransition, Moved, LinkInv, LogsAreKnown, Events
  <2>2. CASE LinkPublished
    BY <2>2 DEF LinkPublished, NoLink
  <2>. QED BY <2>1, <2>2 DEF LinkNext, RemoteChanges, RemotePipeline
<1>. QED BY <1>1, LinkInvariant, PTL DEF LinkSpec, MergedStays

-----------------------------------------------------------------------------
(* The components together: nothing that one of them settled is undone,    *)
(* whatever they all do at once.                                           *)
THEOREM SettledStaysSettled == ControlSpec => SettledStays
  BY DecisionsOnTargetsStand, ArchivesHold, AnswersAreKept, MergedLinksStay
     DEF ControlSpec, SettledStays

-----------------------------------------------------------------------------
(***************************************************************************)
(* RunGenerations, for every number of owner requests, tasks, retries,     *)
(* late writes and deaths of a request.                                    *)
(***************************************************************************)
RowRec == [status : RunStatuses \cup {"none"}, gen : 0..MaxGenerations,
           attached : 0..MaxGenerations]
ClientRec == [pc : {"idle", "start", "attach", "cancel"}, gen : 0..MaxGenerations]
WfStates == {"none", "started", "active", "ending", "closed"}
TaskStates == {"planned", "completed", "failed", "cancelled"}

(***************************************************************************)
(* The invariant.  A request knows a generation that is or was current;    *)
(* as long as no write was delayed, the older generations have ended and   *)
(* the status of the row is that of the current generation's workflow.     *)
(***************************************************************************)
ClientOK(c) ==
  /\ client[c].pc = "idle" => client[c] = NoRequest
  /\ client[c].pc # "idle" => client[c].gen \in 1..row.gen
  /\ client[c].pc \in {"start", "attach"} => client[c].gen = row.gen \/ overtaken
  /\ client[c].pc = "cancel" => client[c].gen \in wanted

RowIsCurrent ==
  delayed = 0 =>
    /\ late = {}
    /\ \A g \in Generations : g < row.gen => wf[g] \in {"ending", "closed"}
    /\ row.gen # 0 => /\ row.status = "pending" <=> wf[row.gen] \in {"none", "started"}
                      /\ row.status = "running" <=> wf[row.gen] = "active"
                      /\ row.status # "paused"

StartedOnce ==
  \A g \in Generations : /\ g > row.gen => wf[g] = "none"
                         /\ starts[g] = IF wf[g] = "none" THEN 0 ELSE 1

GenerationsInv ==
  /\ row.status = "none" <=> row.gen = 0
  /\ AttachedIsCurrent /\ StartedOnce /\ asked \subseteq wanted
  /\ \A c \in Clients : ClientOK(c)
  /\ RowIsCurrent

(* The parts of the type invariant, as the steps use them.                 *)
LEMMA Types ==
  ASSUME TypeOK
  PROVE  /\ row \in RowRec /\ row.status \in RunStatuses \cup {"none"}
         /\ row.gen \in 0..MaxGenerations /\ row.attached \in 0..MaxGenerations
         /\ task \in [Tasks -> TaskStates] /\ wf \in [Generations -> WfStates]
         /\ client \in [Clients -> ClientRec]
         /\ \A c \in Clients : client[c].gen \in 0..MaxGenerations
         /\ delayed \in Nat /\ MaxGenerations \in Nat
  BY GenerationsAssumption DEF TypeOK, RowRec, TaskStates, WfStates, ClientRec

(* What a write of the run's status does to the row and to the tasks.      *)
LEMMA StatusWrites ==
  ASSUME TypeOK, NEW to \in {"running", "completed", "failed", "cancelled"} \cup RunStatuses,
         UpdateRunStatus(to)
  PROVE  /\ row'.status = to /\ row'.gen = row.gen /\ row'.attached = row.attached
         /\ row' \in RowRec /\ task' \in [Tasks -> TaskStates]
         /\ \A t \in Tasks : task[t] = "completed" => task'[t] = "completed"
<1>0. to \in RunStatuses
  BY DEF RunStatuses
<1>1. row' \in RowRec /\ row'.status = to /\ row'.gen = row.gen /\ row'.attached = row.attached
  BY <1>0, Types DEF UpdateRunStatus, RowRec
<1>2. task' \in [Tasks -> TaskStates] /\ \A t \in Tasks : task[t] = "completed" => task'[t] = "completed"
  BY Types DEF UpdateRunStatus, TaskStates
<1>. QED BY <1>1, <1>2

-----------------------------------------------------------------------------
(* A run that was just planned has its types.                              *)
LEMMA InitTypes == GenInit => TypeOK
<1> SUFFICES ASSUME GenInit PROVE TypeOK
  OBVIOUS
<1>1. 0 \in 0..MaxGenerations /\ 0 \in 0..MaxFaults /\ 0 \in 0..MaxLate
  BY GenerationsAssumption
<1>2. row \in RowRec
  BY <1>1 DEF GenInit, RowRec
<1>3. client \in [Clients -> ClientRec]
  BY <1>1 DEF GenInit, ClientRec, NoRequest
<1>4. /\ task \in [Tasks -> TaskStates] /\ wf \in [Generations -> WfStates]
      /\ starts \in [Generations -> Nat]
  BY DEF GenInit, TaskStates, WfStates
<1>. QED BY <1>1, <1>2, <1>3, <1>4 DEF GenInit, TypeOK, RowRec, ClientRec, TaskStates, WfStates

(* Every step keeps the types; a generation counted up is bounded because  *)
(* its retry was.                                                          *)
LEMMA TypesStep == TypeOK /\ GenerationsInv /\ [GenNext]_genVars => TypeOK'
<1> SUFFICES ASSUME TypeOK, GenerationsInv, [GenNext]_genVars PROVE TypeOK'
  OBVIOUS
<1>1. CASE UNCHANGED genVars
  BY <1>1 DEF genVars, TypeOK
<1>2. ASSUME NEW c \in Clients, StartPlan(c) PROVE TypeOK'
  <2>1. 1 \in 0..MaxGenerations /\ 0 \in 0..MaxGenerations
    BY GenerationsAssumption
  <2>2. row.gen \in 0..MaxGenerations
    BY Types DEF RowRec
  <2>3. row' \in RowRec
    BY <1>2, <2>1, Types DEF StartPlan, RowRec, RunStatuses
  <2>4. client' \in [Clients -> ClientRec]
    BY <1>2, <2>1, <2>2, Types DEF StartPlan, ClientRec
  <2>. QED BY <1>2, <2>3, <2>4 DEF StartPlan, TypeOK, RowRec, ClientRec
<1>3. ASSUME NEW c \in Clients, RetryPlanRun(c) PROVE TypeOK'
  <2>1. row.gen + 1 \in 0..MaxGenerations
    BY <1>3, Types DEF RetryPlanRun, NextWorkflowId
  <2>2. row' \in RowRec
    BY <1>3, <2>1, GenerationsAssumption DEF RetryPlanRun, NextRun, RowRec, RunStatuses
  <2>3. task' \in [Tasks -> TaskStates]
    BY <1>3, Types DEF RetryPlanRun, ResetTasks, TaskStates
  <2>4. client' \in [Clients -> ClientRec]
    BY <1>3, <2>1, Types DEF RetryPlanRun, ClientRec
  <2>. QED BY <1>3, <2>2, <2>3, <2>4 DEF RetryPlanRun, TypeOK, RowRec, TaskStates, ClientRec
<1>4. ASSUME NEW c \in Clients, RunnerStart(c) PROVE TypeOK'
  <2>1. client' \in [Clients -> ClientRec]
    BY <1>4, Types DEF RunnerStart, ClientRec, NoRequest
  <2>2. wf' \in [Generations -> WfStates] /\ starts' \in [Generations -> Nat]
    BY <1>4, Types DEF RunnerStart, TypeOK, WfStates
  <2>. QED BY <1>4, <2>1, <2>2 DEF RunnerStart, TypeOK, WfStates, ClientRec
<1>5. ASSUME NEW c \in Clients, AttachTemporalRun(c) PROVE TypeOK'
  <2>1. row' \in RowRec
    BY <1>5, Types DEF AttachTemporalRun, RowRec
  <2>. QED BY <1>5, <2>1, GenerationsAssumption DEF AttachTemporalRun, TypeOK, RowRec, NoRequest
<1>6. ASSUME NEW c \in Clients, ControlRun(c) PROVE TypeOK'
  <2>1. row.gen \in Generations
    BY <1>6, Types DEF ControlRun, GenerationsInv, Generations
  <2>. QED BY <1>6, <2>1 DEF ControlRun, TypeOK, Generations
<1>7. ASSUME NEW c \in Clients, Control(c) PROVE TypeOK'
  <2>1. client[c].gen \in Generations
    BY <1>7, Types DEF Control, GenerationsInv, ClientOK, Generations
  <2>. QED BY <1>7, <2>1, GenerationsAssumption DEF Control, Signalled, TypeOK, NoRequest
<1>8. ASSUME NEW c \in Clients, RequestDies(c) PROVE TypeOK'
  BY <1>8, GenerationsAssumption DEF RequestDies, TypeOK, NoRequest
<1>9. ASSUME NEW g \in Generations, NEW to \in {"running", "completed", "failed", "cancelled"},
             NEW next \in WfStates, Write(g, to, next)
      PROVE  TypeOK'
  <2>1. CASE Accepts(to)
    <3>1. UpdateRunStatus(to) /\ wf' = [wf EXCEPT ![g] = next] /\ MayArriveLate(to)
      BY <1>9, <2>1 DEF Write
    <3>2. row' \in RowRec /\ task' \in [Tasks -> TaskStates]
      BY <3>1, StatusWrites
    <3>3. wf' \in [Generations -> WfStates]
      BY <3>1, Types
    <3>4. late' \subseteq RunStatuses
      BY <3>1 DEF MayArriveLate, TypeOK, RunStatuses
    <3>5. delayed' \in 0..MaxLate
      <4>1. delayed \in 0..MaxLate /\ MaxLate \in Nat
        BY GenerationsAssumption DEF TypeOK
      <4>2. delayed' = delayed \/ (delayed < MaxLate /\ delayed' = delayed + 1)
        BY <3>1 DEF MayArriveLate
      <4>. QED BY <4>1, <4>2
    <3>. QED BY <1>9, <3>2, <3>3, <3>4, <3>5 DEF Write, TypeOK, RowRec, TaskStates, WfStates
  <2>2. CASE ~Accepts(to)
    BY <1>9, <2>2 DEF Write, TypeOK
  <2>. QED BY <2>1, <2>2
<1>10. ASSUME NEW g \in Generations, Workflow(g) PROVE TypeOK'
  <2>1. CASE Begin(g) \/ End(g)
    BY <1>9, <2>1 DEF Begin, End, WfStates
  <2>2. CASE Close(g)
    BY <2>2 DEF Close, TypeOK
  <2>3. ASSUME NEW t \in Tasks, CompleteTask(g, t) PROVE TypeOK'
    BY <2>3 DEF CompleteTask, TypeOK
  <2>. QED BY <1>10, <2>1, <2>2, <2>3 DEF Workflow
<1>11. ASSUME NEW to \in RunStatuses, LateWrite(to) PROVE TypeOK'
  <2>1. row' \in RowRec /\ task' \in [Tasks -> TaskStates]
    BY <1>11, StatusWrites, Types DEF LateWrite
  <2>. QED BY <1>11, <2>1 DEF LateWrite, TypeOK, RowRec, TaskStates
<1>. QED BY <1>1, <1>2, <1>3, <1>4, <1>5, <1>6, <1>7, <1>8, <1>10, <1>11 DEF GenNext, Continue

-----------------------------------------------------------------------------
(* No generation has been started at first.                                *)
LEMMA InitGenerations == GenInit => GenerationsInv
  BY GenerationsAssumption DEF GenInit, GenerationsInv, AttachedIsCurrent, StartedOnce, ClientOK, RowIsCurrent,
     Generations, NoRequest

(* One request goes a step further, the others still know what they knew.  *)
LEMMA ClientsMove ==
  ASSUME TypeOK, GenerationsInv, NEW c \in Clients,
         \A d \in Clients \ {c} : client'[d] = client[d],
         row'.gen \in Nat, row.gen <= row'.gen, wanted \subseteq wanted',
         overtaken => overtaken',
         \A d \in Clients \ {c} :
           row'.gen = row.gen \/ overtaken' \/ client[d].pc \notin {"start", "attach"},
         ClientOK(c)'
  PROVE  \A d \in Clients : ClientOK(d)'
<1> SUFFICES ASSUME NEW d \in Clients \ {c} PROVE ClientOK(d)'
  OBVIOUS
<1>1. client'[d] = client[d] /\ ClientOK(d)
  BY DEF GenerationsInv
<1>2. client[d].gen \in 1..row.gen => client[d].gen \in 1..row'.gen
  BY Types
<1>. QED BY <1>1, <1>2 DEF ClientOK

(* The requests when one of them, and nothing they know of, changes.       *)
LEMMA ClientsRest ==
  ASSUME TypeOK, GenerationsInv, NEW c \in Clients, NEW new \in ClientRec,
         client' = [client EXCEPT ![c] = new],
         row'.gen = row.gen, wanted \subseteq wanted', UNCHANGED overtaken
  PROVE  /\ client'[c] = new
         /\ ClientOK(c)' => \A d \in Clients : ClientOK(d)'
<1>1. client'[c] = new /\ \A d \in Clients \ {c} : client'[d] = client[d]
  BY Types
<1>2. row'.gen \in Nat /\ row.gen <= row'.gen
  BY Types
<1>. QED BY <1>1, <1>2, ClientsMove

(* A workflow's write of the status: without a delay it is the current     *)
(* generation's, and the row accepts it.                                   *)
LEMMA LateWriteStep ==
  ASSUME TypeOK, GenerationsInv, NEW g \in Generations,
         \/ wf[g] = "started" /\ Write(g, "running", "active")
         \/ wf[g] = "active" /\ \E to \in {"completed", "failed", "cancelled"} : Write(g, to, "ending")
  PROVE  GenerationsInv'
<1>0. UNCHANGED <<starts, asked, wanted, client, overtaken>>
  BY DEF Write
<1>1. PICK to \in {"running", "completed", "failed", "cancelled"}, next \in {"active", "ending"} :
        /\ Write(g, to, next)
        /\ \/ wf[g] = "started" /\ to = "running" /\ next = "active"
           \/ wf[g] = "active" /\ to # "running" /\ next = "ending"
  OBVIOUS
<1>2. /\ row'.gen = row.gen /\ row'.attached = row.attached
      /\ row'.status = row.status \/ row'.status = to
      /\ row.status # "none" => row'.status # "none"
  <2>1. CASE Accepts(to)
    BY <1>1, <2>1, StatusWrites DEF Write
  <2>2. CASE ~Accepts(to)
    BY <1>1, <2>2 DEF Write
  <2>. QED BY <2>1, <2>2
<1>3. g <= row.gen /\ row.gen # 0 /\ row.status # "none"
  BY <1>1, Types DEF GenerationsInv, StartedOnce, Generations
<1>4. PICK after \in {next, "closed"} : wf' = [wf EXCEPT ![g] = after]
  BY <1>1 DEF Write
<1>5. StartedOnce'
  BY <1>0, <1>1, <1>2, <1>3, <1>4, Types DEF GenerationsInv, StartedOnce, Generations
<1>6. \A c \in Clients : ClientOK(c)'
  BY <1>0, <1>2 DEF GenerationsInv, ClientOK
<1>7. RowIsCurrent'
  <2> SUFFICES ASSUME delayed' = 0
               PROVE  /\ late' = {}
                      /\ \A h \in Generations : h < row'.gen => wf'[h] \in {"ending", "closed"}
                      /\ row'.status = "pending" <=> wf'[row'.gen] \in {"none", "started"}
                      /\ row'.status = "running" <=> wf'[row'.gen] = "active"
                      /\ row'.status # "paused"
    BY DEF RowIsCurrent
  <2>1. delayed = 0 /\ late' = late
    BY <1>1, Types DEF Write, MayArriveLate
  <2>2. g = row.gen
    BY <1>1, <1>3, <2>1, Types DEF GenerationsInv, RowIsCurrent, Generations
  <2>3. Accepts(to)
    BY <1>1, <1>3, <2>1, <2>2 DEF GenerationsInv, RowIsCurrent, Accepts, ValidRunTransition
  <2>4. row'.status = to /\ wf' = [wf EXCEPT ![g] = next]
    BY <1>1, <2>3, StatusWrites DEF Write
  <2>5. wf'[row'.gen] = next /\ \A h \in Generations \ {g} : wf'[h] = wf[h]
    BY <1>2, <2>2, <2>4, Types
  <2>. QED BY <1>1, <1>2, <1>3, <2>1, <2>2, <2>4, <2>5, Types DEF GenerationsInv, RowIsCurrent
<1>. QED BY <1>0, <1>2, <1>3, <1>5, <1>6, <1>7 DEF GenerationsInv, AttachedIsCurrent

(* Every step keeps the invariant: one case per request, write and         *)
(* workflow event.                                                         *)
LEMMA GenerationsStep == TypeOK /\ GenerationsInv /\ [GenNext]_genVars => GenerationsInv'
<1> SUFFICES ASSUME TypeOK, GenerationsInv, [GenNext]_genVars PROVE GenerationsInv'
  OBVIOUS
<1>0. 0 \in 0..MaxGenerations /\ row.gen \in Nat /\ MaxGenerations \in Nat
  BY Types, GenerationsAssumption
<1>1. CASE UNCHANGED genVars
  BY <1>1 DEF genVars, GenerationsInv, AttachedIsCurrent, StartedOnce, ClientOK, RowIsCurrent
<1>2. ASSUME NEW c \in Clients, StartPlan(c) PROVE GenerationsInv'
  <2>1. UNCHANGED <<wf, starts, asked, wanted, late, overtaken, delayed>>
    BY <1>2 DEF StartPlan
  <2>2. CASE row.status = "none"
    <3>1. /\ row'.status = "pending" /\ row'.gen = 1 /\ row'.attached = 0 /\ row.gen = 0
          /\ client' = [client EXCEPT ![c] = [pc |-> "start", gen |-> 1]]
      BY <1>2, <2>2 DEF StartPlan, GenerationsInv
    <3>2. \A d \in Clients : client[d].pc \notin {"start", "attach"}
      BY <3>1 DEF GenerationsInv, ClientOK
    <3>3. 1 \in 1..MaxGenerations /\ 1 \in 0..MaxGenerations /\ 1 \in 1..1
      BY GenerationsAssumption
    <3>4. [pc |-> "start", gen |-> 1] \in ClientRec
      BY <3>3 DEF ClientRec
    <3>5. \A d \in Clients : ClientOK(d)'
      <4>1. client'[c] = [pc |-> "start", gen |-> 1] /\ \A d \in Clients \ {c} : client'[d] = client[d]
        BY <3>1, <3>4, Types
      <4>2. ClientOK(c)'
        BY <3>1, <3>3, <4>1 DEF ClientOK
      <4>3. row'.gen \in Nat /\ row.gen <= row'.gen
        BY <3>1
      <4>. QED BY <2>1, <3>2, <4>1, <4>2, <4>3, ClientsMove
    <3>6. \A g \in Generations : wf[g] = "none" /\ g >= 1
      BY <3>1 DEF GenerationsInv, StartedOnce, Generations
    <3>7. StartedOnce' /\ RowIsCurrent'
      BY <2>1, <3>1, <3>3, <3>6 DEF GenerationsInv, StartedOnce, RowIsCurrent, Generations
    <3>. QED BY <2>1, <3>1, <3>5, <3>7 DEF GenerationsInv, AttachedIsCurrent
  <2>3. CASE row.status # "none"
    <3>1. row' = row /\ client' = [client EXCEPT ![c] = [pc |-> "start", gen |-> row.gen]]
      BY <1>2, <2>3 DEF StartPlan
    <3>2. [pc |-> "start", gen |-> row.gen] \in ClientRec /\ row.gen \in 1..row.gen
      BY <1>0, <2>3, Types DEF ClientRec, GenerationsInv
    <3>3. \A d \in Clients : ClientOK(d)'
      <4>1. /\ client'[c] = [pc |-> "start", gen |-> row.gen]
            /\ ClientOK(c)' => \A d \in Clients : ClientOK(d)'
        BY <2>1, <3>1, <3>2, ClientsRest
      <4>. QED BY <2>1, <3>1, <3>2, <4>1 DEF ClientOK
    <3>. QED BY <2>1, <3>1, <3>3 DEF GenerationsInv, AttachedIsCurrent, StartedOnce, RowIsCurrent
  <2>. QED BY <2>2, <2>3
<1>3. ASSUME NEW c \in Clients, RetryPlanRun(c) PROVE GenerationsInv'
  <2>1. /\ UNCHANGED <<wf, starts, asked, wanted, late, delayed>> /\ row.status = "failed"
        /\ row'.status = "pending" /\ row'.gen = row.gen + 1 /\ row'.attached = 0
        /\ client' = [client EXCEPT ![c] = [pc |-> "start", gen |-> row.gen + 1]]
        /\ overtaken' = (overtaken \/ \E d \in Clients \ {c} : client[d].pc \in {"start", "attach"})
        /\ row.gen < MaxGenerations
    BY <1>3 DEF RetryPlanRun, NextRun, Retryable, NextWorkflowId
  <2>2. row.gen + 1 \in 0..MaxGenerations /\ row.gen + 1 \in 1..(row.gen + 1) /\ row.gen + 1 \in Generations
    BY <1>0, <2>1 DEF Generations
  <2>3. [pc |-> "start", gen |-> row.gen + 1] \in ClientRec
    BY <2>2 DEF ClientRec
  <2>4. \A d \in Clients : ClientOK(d)'
    <3>1. \A d \in Clients \ {c} :
            row'.gen = row.gen \/ overtaken' \/ client[d].pc \notin {"start", "attach"}
      BY <2>1
    <3>2. row'.gen \in Nat /\ row.gen <= row'.gen
      BY <1>0, <2>1
    <3>3. overtaken => overtaken'
      BY <2>1
    <3>4. client'[c] = [pc |-> "start", gen |-> row.gen + 1]
          /\ \A d \in Clients \ {c} : client'[d] = client[d]
      BY <2>1, <2>3, Types
    <3>5. ClientOK(c)'
      BY <2>1, <2>2, <3>4 DEF ClientOK
    <3>. QED BY <2>1, <3>1, <3>2, <3>3, <3>4, <3>5, ClientsMove
  <2>5. StartedOnce'
    BY <1>0, <2>1, <2>2 DEF GenerationsInv, StartedOnce, Generations
  <2>6. wf[row.gen + 1] = "none"
    BY <1>0, <2>2 DEF GenerationsInv, StartedOnce
  <2>7. row.gen # 0 /\ row.gen \in Generations
    BY <1>0, <2>1, Types DEF GenerationsInv, Generations
  <2>8. ASSUME delayed = 0
        PROVE  \A g \in Generations : g < row.gen + 1 => wf[g] \in {"ending", "closed"}
    <3>1. wf[row.gen] \in {"ending", "closed"}
      BY <2>1, <2>7, <2>8, Types DEF GenerationsInv, RowIsCurrent, WfStates
    <3>. QED BY <1>0, <2>8, <3>1 DEF GenerationsInv, RowIsCurrent, Generations
  <2>9. RowIsCurrent'
    BY <2>1, <2>6, <2>8 DEF GenerationsInv, RowIsCurrent
  <2>. QED BY <1>0, <2>1, <2>4, <2>5, <2>9 DEF GenerationsInv, AttachedIsCurrent
<1>4. ASSUME NEW c \in Clients, RunnerStart(c) PROVE GenerationsInv'
  <2>0. UNCHANGED <<row, asked, wanted, late, overtaken, delayed>>
    BY <1>4 DEF RunnerStart
  <2>1. PICK g \in Generations : g = client[c].gen /\ g \in 1..row.gen /\ (g = row.gen \/ overtaken)
    BY <1>0, <1>4, Types DEF RunnerStart, GenerationsInv, ClientOK, Generations
  <2>2. PICK new \in {[pc |-> "attach", gen |-> g], NoRequest} : client' = [client EXCEPT ![c] = new]
    BY <1>4, <2>1 DEF RunnerStart
  <2>3. \A d \in Clients : ClientOK(d)'
    <3>1. new \in ClientRec
      BY <1>0, <2>1, <2>2 DEF ClientRec, NoRequest, Generations
    <3>2. /\ new.pc = "idle" => new = NoRequest
          /\ new.pc # "idle" => new.gen \in 1..row.gen
          /\ new.pc \in {"start", "attach"} => new.gen = row.gen \/ overtaken
          /\ new.pc # "cancel"
      BY <2>1, <2>2 DEF NoRequest
    <3>3. client'[c] = new /\ (ClientOK(c)' => \A d \in Clients : ClientOK(d)')
      BY <2>0, <2>2, <3>1, ClientsRest
    <3>. QED BY <2>0, <3>2, <3>3 DEF ClientOK
  <2>4. CASE UNCHANGED <<wf, starts>>
    BY <2>0, <2>3, <2>4 DEF GenerationsInv, AttachedIsCurrent, StartedOnce, RowIsCurrent
  <2>5. CASE /\ wf[g] = "none" /\ wf' = [wf EXCEPT ![g] = "started"]
             /\ starts' = [starts EXCEPT ![g] = @ + 1]
    <3>1. StartedOnce'
      BY <1>0, <2>0, <2>1, <2>5, Types DEF GenerationsInv, StartedOnce, Generations, TypeOK
    <3>2. RowIsCurrent'
      <4> SUFFICES ASSUME delayed = 0
                   PROVE  /\ \A h \in Generations : h < row.gen => wf'[h] \in {"ending", "closed"}
                          /\ row.gen # 0 => /\ row.status = "pending" <=> wf'[row.gen] \in {"none", "started"}
                                            /\ row.status = "running" <=> wf'[row.gen] = "active"
        BY <2>0 DEF GenerationsInv, RowIsCurrent
      <4>1. g = row.gen
        BY <1>0, <2>1, <2>5 DEF GenerationsInv, RowIsCurrent
      <4>. QED BY <2>5, <4>1, Types DEF GenerationsInv, RowIsCurrent
    <3>. QED BY <2>0, <2>3, <3>1, <3>2 DEF GenerationsInv, AttachedIsCurrent
  <2>. QED BY <1>4, <2>1, <2>4, <2>5 DEF RunnerStart, StartsNew
<1>5. ASSUME NEW c \in Clients, AttachTemporalRun(c) PROVE GenerationsInv'
  <2>1. /\ UNCHANGED <<wf, starts, asked, wanted, late, overtaken, delayed>>
        /\ row'.status = row.status /\ row'.gen = row.gen
        /\ row'.attached \in {row.attached, client[c].gen}
        /\ client' = [client EXCEPT ![c] = NoRequest]
    BY <1>5, Types DEF AttachTemporalRun, RowRec
  <2>2. client[c].gen = row.gen \/ overtaken
    BY <1>5 DEF AttachTemporalRun, GenerationsInv, ClientOK
  <2>3. \A d \in Clients : ClientOK(d)'
    <3>1. NoRequest \in ClientRec /\ NoRequest.pc = "idle"
      BY <1>0 DEF NoRequest, ClientRec
    <3>2. client'[c] = NoRequest /\ (ClientOK(c)' => \A d \in Clients : ClientOK(d)')
      BY <2>1, <3>1, ClientsRest
    <3>. QED BY <3>1, <3>2 DEF ClientOK
  <2>. QED BY <2>1, <2>2, <2>3 DEF GenerationsInv, AttachedIsCurrent, StartedOnce, RowIsCurrent
<1>6. ASSUME NEW c \in Clients, ControlRun(c) PROVE GenerationsInv'
  <2>1. /\ UNCHANGED <<row, wf, starts, asked, late, overtaken, delayed>>
        /\ wanted' = wanted \cup {row.gen} /\ row.status # "none"
        /\ client' = [client EXCEPT ![c] = [pc |-> "cancel", gen |-> row.gen]]
    BY <1>6 DEF ControlRun
  <2>2. [pc |-> "cancel", gen |-> row.gen] \in ClientRec /\ row.gen \in 1..row.gen
    BY <1>0, <2>1, Types DEF ClientRec, GenerationsInv
  <2>3. \A d \in Clients : ClientOK(d)'
    <3>1. /\ client'[c] = [pc |-> "cancel", gen |-> row.gen]
          /\ ClientOK(c)' => \A d \in Clients : ClientOK(d)'
      BY <2>1, <2>2, ClientsRest
    <3>. QED BY <2>1, <2>2, <3>1 DEF ClientOK
  <2>. QED BY <2>1, <2>3 DEF GenerationsInv, AttachedIsCurrent, StartedOnce, RowIsCurrent
<1>7. ASSUME NEW c \in Clients, Control(c) \/ RequestDies(c) PROVE GenerationsInv'
  <2>1. /\ UNCHANGED <<row, wf, starts, wanted, late, overtaken, delayed>>
        /\ client' = [client EXCEPT ![c] = NoRequest]
        /\ asked' \subseteq wanted
    BY <1>7 DEF Control, Signalled, RequestDies, GenerationsInv, ClientOK
  <2>2. \A d \in Clients : ClientOK(d)'
    <3>1. NoRequest \in ClientRec /\ NoRequest.pc = "idle"
      BY <1>0 DEF NoRequest, ClientRec
    <3>2. client'[c] = NoRequest /\ (ClientOK(c)' => \A d \in Clients : ClientOK(d)')
      BY <2>1, <3>1, ClientsRest
    <3>. QED BY <3>1, <3>2 DEF ClientOK
  <2>. QED BY <2>1, <2>2 DEF GenerationsInv, AttachedIsCurrent, StartedOnce, RowIsCurrent
<1>8. ASSUME NEW g \in Generations, Workflow(g) PROVE GenerationsInv'
  <2>1. CASE Begin(g) \/ End(g)
    BY <2>1, LateWriteStep DEF Begin, End
  <2>2. CASE Close(g)
    <3>1. /\ UNCHANGED <<row, starts, asked, wanted, late, client, overtaken, delayed>>
          /\ wf[g] = "ending" /\ wf' = [wf EXCEPT ![g] = "closed"]
      BY <2>2 DEF Close
    <3>. QED BY <3>1, Types DEF GenerationsInv, AttachedIsCurrent, StartedOnce, ClientOK, RowIsCurrent
  <2>3. ASSUME NEW t \in Tasks, CompleteTask(g, t) PROVE GenerationsInv'
    BY <2>3 DEF CompleteTask, GenerationsInv, AttachedIsCurrent, StartedOnce, ClientOK, RowIsCurrent
  <2>. QED BY <1>8, <2>1, <2>2, <2>3 DEF Workflow
<1>9. ASSUME NEW to \in RunStatuses, LateWrite(to) PROVE GenerationsInv'
  <2>1. /\ UNCHANGED <<wf, starts, asked, wanted, client, overtaken, delayed>>
        /\ row'.gen = row.gen /\ row'.attached = row.attached
        /\ row.status = "none" <=> row'.status = "none"
    <3>1. CASE Accepts(to) /\ UpdateRunStatus(to)
      <4>1. row'.status = to /\ to # "none" /\ row'.gen = row.gen /\ row'.attached = row.attached
        BY <3>1, StatusWrites DEF RunStatuses
      <4>2. row.status # "none"
        BY <3>1, <4>1 DEF Accepts, ValidRunTransition
      <4>. QED BY <1>9, <4>1, <4>2 DEF LateWrite
    <3>2. CASE UNCHANGED <<row, task>>
      BY <1>9, <3>2 DEF LateWrite
    <3>. QED BY <1>9, <3>1, <3>2 DEF LateWrite
  <2>2. RowIsCurrent'
    BY <1>9, <2>1 DEF LateWrite, GenerationsInv, RowIsCurrent
  <2>. QED BY <2>1, <2>2 DEF GenerationsInv, AttachedIsCurrent, StartedOnce, ClientOK
<1>. QED BY <1>1, <1>2, <1>3, <1>4, <1>5, <1>6, <1>7, <1>8, <1>9 DEF GenNext, Continue

-----------------------------------------------------------------------------
(* The invariant holds in every reachable state: what the requests, the    *)
(* row and the workflows of its generations know of each other.            *)
THEOREM GenerationsKept == GenSpec => [](TypeOK /\ GenerationsInv)
<1>1. GenInit => TypeOK /\ GenerationsInv
  BY InitTypes, InitGenerations
<1>2. TypeOK /\ GenerationsInv /\ [GenNext]_genVars => TypeOK' /\ GenerationsInv'
  BY TypesStep, GenerationsStep
<1>. QED BY <1>1, <1>2, PTL DEF GenSpec

(* StartPlan, RetryPlanRun and the workflow: no generation's workflow is   *)
(* started twice, and two generations act on the row at once only if a     *)
(* write of a timed-out activity was delayed.                              *)
THEOREM GenerationsNeverOverlap == GenSpec => []GenerationsTakeTurns
<1>1. ASSUME TypeOK, GenerationsInv PROVE OneExecutionPerGeneration
  BY <1>1 DEF GenerationsInv, StartedOnce, OneExecutionPerGeneration
<1>2. ASSUME TypeOK, GenerationsInv PROVE OneGenerationActs
  <2> SUFFICES ASSUME delayed = 0
               PROVE  Cardinality({g \in Generations : wf[g] \in {"started", "active"}}) <= 1
    BY DEF OneGenerationActs
  <2> DEFINE acting == {g \in Generations : wf[g] \in {"started", "active"}}
  <2>1. acting \subseteq {row.gen}
    BY <1>2, Types DEF GenerationsInv, StartedOnce, RowIsCurrent, Generations
  <2>2. IsFiniteSet({row.gen}) /\ Cardinality({row.gen}) = 1
    BY FS_Singleton
  <2>3. IsFiniteSet(acting) /\ Cardinality(acting) <= Cardinality({row.gen})
    BY <2>1, <2>2, FS_Subset
  <2>. QED BY <2>2, <2>3
<1>3. TypeOK /\ GenerationsInv => GenerationsTakeTurns
  BY <1>1, <1>2 DEF GenerationsTakeTurns
<1>. QED BY <1>3, GenerationsKept, PTL

(* AttachTemporalRun: the run attached to the row is the current           *)
(* generation's, unless a retry overtook a request that was under way.     *)
THEOREM AttachedRunIsCurrent == GenSpec => []AttachedIsCurrent
<1>1. TypeOK /\ GenerationsInv => AttachedIsCurrent
  BY DEF GenerationsInv
<1>. QED BY <1>1, GenerationsKept, PTL

-----------------------------------------------------------------------------
(* A write of the status keeps the tasks that are completed, and cancels   *)
(* the run only when that is what it writes.                               *)
LEMMA WriteKeepsHistory ==
  ASSUME TypeOK, GenerationsInv, NEW g \in Generations,
         NEW to \in {"running", "completed", "failed", "cancelled"}, NEW next \in {"active", "ending"},
         Write(g, to, next)
  PROVE  /\ \A t \in Tasks : task[t] = "completed" => task'[t] = "completed"
         /\ row'.status = "cancelled" /\ row.status # "cancelled" => to = "cancelled"
<1>1. CASE Accepts(to)
  BY <1>1, StatusWrites DEF Write
<1>2. CASE ~Accepts(to)
  BY <1>2 DEF Write
<1>. QED BY <1>1, <1>2

(* One step neither resets a completed task nor cancels a run nobody asked *)
(* to cancel.                                                              *)
LEMMA HistoryStep ==
  TypeOK /\ GenerationsInv /\ [GenNext]_genVars =>
    /\ \A t \in Tasks : task[t] = "completed" => task'[t] = "completed"
    /\ row'.status = "cancelled" /\ row.status # "cancelled" => row.gen \in wanted \/ delayed > 0
<1> SUFFICES ASSUME TypeOK, GenerationsInv, [GenNext]_genVars
             PROVE  /\ \A t \in Tasks : task[t] = "completed" => task'[t] = "completed"
                    /\ row'.status = "cancelled" /\ row.status # "cancelled"
                         => row.gen \in wanted \/ delayed > 0
  OBVIOUS
<1> DEFINE goal == /\ \A t \in Tasks : task[t] = "completed" => task'[t] = "completed"
                   /\ row'.status = "cancelled" /\ row.status # "cancelled"
                        => row.gen \in wanted \/ delayed > 0
<1> SUFFICES goal
  OBVIOUS
<1>1. ASSUME UNCHANGED task, row'.status = row.status \/ row'.status = "pending" PROVE goal
  BY <1>1
<1>2. CASE UNCHANGED genVars
  BY <1>1, <1>2 DEF genVars
<1>3. ASSUME NEW c \in Clients, StartPlan(c) \/ ControlRun(c) \/ Continue(c) \/ RequestDies(c)
      PROVE  goal
  <2>1. UNCHANGED task
    BY <1>3 DEF StartPlan, ControlRun, Continue, RunnerStart, AttachTemporalRun, Control, RequestDies
  <2>2. row'.status = row.status \/ row'.status = "pending"
    <3>1. CASE AttachTemporalRun(c)
      BY <3>1, Types DEF AttachTemporalRun, RowRec
    <3>2. CASE ~AttachTemporalRun(c)
      BY <1>3, <3>2 DEF StartPlan, ControlRun, Continue, RunnerStart, Control, RequestDies
    <3>. QED BY <3>1, <3>2
  <2>. QED BY <1>1, <2>1, <2>2
<1>4. ASSUME NEW c \in Clients, RetryPlanRun(c) PROVE goal
  <2>1. row'.status = "pending" /\ task' = ResetTasks
    BY <1>4 DEF RetryPlanRun, NextRun
  <2>. QED BY <2>1 DEF ResetTasks
<1>5. ASSUME NEW g \in Generations, Begin(g) \/ End(g) PROVE goal
  <2>1. ASSUME NEW to \in {"running", "completed", "failed"}, NEW next \in {"active", "ending"},
               Write(g, to, next)
        PROVE  goal
    BY <2>1, WriteKeepsHistory
  <2>2. CASE wf[g] = "active" /\ g \in asked /\ Write(g, "cancelled", "ending")
    <3>1. g \in wanted /\ (delayed = 0 => g = row.gen)
      BY <2>2, Types DEF GenerationsInv, StartedOnce, RowIsCurrent, Generations
    <3>2. delayed = 0 \/ delayed > 0
      BY Types
    <3>. QED BY <2>2, <3>1, <3>2, WriteKeepsHistory
  <2>. QED BY <1>5, <2>1, <2>2 DEF Begin, End
<1>6. ASSUME NEW g \in Generations, Close(g) PROVE goal
  BY <1>1, <1>6 DEF Close
<1>7. ASSUME NEW g \in Generations, NEW t \in Tasks, CompleteTask(g, t) PROVE goal
  <2>1. row' = row /\ task' = [task EXCEPT ![t] = "completed"]
    BY <1>7 DEF CompleteTask
  <2>. QED BY <2>1, Types
<1>8. ASSUME NEW to \in RunStatuses, LateWrite(to) PROVE goal
  <2>1. delayed > 0
    BY <1>8, Types DEF LateWrite, GenerationsInv, RowIsCurrent
  <2>2. \A t \in Tasks : task[t] = "completed" => task'[t] = "completed"
    BY <1>8, StatusWrites DEF LateWrite
  <2>. QED BY <2>1, <2>2
<1>. QED BY <1>2, <1>3, <1>4, <1>5, <1>6, <1>7, <1>8 DEF GenNext, Workflow

(* A retry keeps the tasks that are completed, and the run is cancelled    *)
(* only for a generation an owner decided to cancel, unless a delayed      *)
(* write had let two generations act.                                      *)
THEOREM HistoryKept == GenSpec => HistoryIsKept
<1>1. TypeOK /\ GenerationsInv /\ [GenNext]_genVars
        => [\A t \in Tasks : task[t] = "completed" => task'[t] = "completed"]_genVars
  BY HistoryStep
<1>2. TypeOK /\ GenerationsInv /\ [GenNext]_genVars
        => [row'.status = "cancelled" /\ row.status # "cancelled"
              => row.gen \in wanted \/ delayed > 0]_genVars
  BY HistoryStep
<1>. QED BY <1>1, <1>2, GenerationsKept, PTL DEF GenSpec, HistoryIsKept, CompletedStays, CancelledAsAsked
=============================================================================
