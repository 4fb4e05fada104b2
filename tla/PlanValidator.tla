----------------------------- MODULE PlanValidator ----------------------------
(***************************************************************************)
(* The gate for the routing and contract metadata of a plan: every claim   *)
(* of the result m is checked again against the evidence index and against *)
(* the profile.  q gives the projects, their evidence and the profile.     *)
(***************************************************************************)
EXTENDS PlanRouting

EvidenceOf(q, id) == CHOOSE e \in UNION {p.evidence : p \in ToSet(q.projects)} : e.id = id
OwnerOf(q, id) == (CHOOSE p \in ToSet(q.projects) : \E e \in p.evidence : e.id = id).id
(* Evidence ids are known when they are indexed for the same project.      *)
Known(q, m, project, ids) == ids # {} /\ \A id \in ids : id \in m.index /\ OwnerOf(q, id) = project

ReviewIsAsked(m) == m.review = (m.status # "resolved" \/ m.confidence = "low")

ProfilesHold(q, m) ==
  /\ DOMAIN m.profiles = ToSet(q.projects)
  /\ \A p \in DOMAIN m.profiles : m.profiles[p].resolved => Known(q, m, p.id, m.profiles[p].evidence)

(* Each target path is indexed, compatible with the route and cited by it, *)
(* and nothing else is cited.                                              *)
RoutesHold(q, m) ==
  \A r \in m.routes :
    /\ r.paths # {} /\ m.profiles[Project(q, r.ref.project)].resolved
    /\ r.ref.route \in q.profile.routes
    /\ \A id \in r.paths : r.ref.route \in EvidenceOf(q, id).targets
    /\ r.paths \subseteq m.index /\ r.paths = r.evidence
    /\ Known(q, m, r.ref.project, r.evidence)

StatusHolds(m) ==
  /\ m.status = "resolved" => /\ \A p \in DOMAIN m.profiles :
                                   m.profiles[p].resolved /\ \E r \in m.routes : r.ref.project = p.id
                              /\ m.routes # {}
  /\ m.status = "partial" => m.routes # {} /\ m.reasoned
  /\ m.status = "unresolved" => m.routes = {} /\ m.reasoned

(* Inspections and verification boundaries belong to routed targets.       *)
ChecksHold(q, m) ==
  /\ \A r \in m.routes : r.ref.route \in q.profile.inspected => Known(q, m, r.ref.project, r.inspected)
  /\ {c.ref : c \in m.checks} = {r.ref : r \in m.routes}
  /\ \A c \in m.checks : IF c.state = "existing"
                           THEN Known(q, m, c.ref.project, c.evidence) /\ \A id \in c.evidence : EvidenceOf(q, id).kind = "test"
                           ELSE c.evidence = {}

(* The state of the contract plan follows from the shared boundaries.      *)
ContractStateHolds(m) ==
  LET plan == m.plan IN
    /\ \A s \in m.shared : Cardinality(s.routes) >= 2 /\ s.routes \subseteq {r.ref : r \in m.routes}
    /\ plan.state = "NOT_REQUIRED" => plan.boundaries = {} /\ plan.affected = {} /\ m.status = "resolved"
    /\ plan.state = "PLANNED" => m.status # "resolved" /\ m.shared = {} /\ plan.boundaries = {} /\ plan.independent = {}
    /\ plan.state = "FREEZE_REQUIRED" => Cardinality(m.routes) >= 2 /\ m.shared # {} /\ plan.independent # {}
    /\ m.shared # {} /\ Cardinality(m.routes) >= 2 => plan.state = "FREEZE_REQUIRED"
    /\ plan.state # "NOT_REQUIRED" => plan.affected = {r.ref : r \in m.routes}

(* Each boundary: a permitted and proven owner, consumers that may depend  *)
(* on it, the profile's implementers, a source that shows the interface.   *)
BoundaryHolds(q, m, b) ==
  LET refs == {r.ref : r \in m.routes}
      ownerProject == Project(q, b.owner.project)
      shown == {e \in ownerProject.evidence : e.id \in m.index /\ e.kind = "source" /\ b.owner.route \in e.targets}
      Shows(e) == \E ref \in b.consumers \cup {b.owner} : ref.route \in e.faces
  IN  /\ b.consumers # {} /\ b.consumers \subseteq refs
      /\ b.owner.route \in ToSet(q.profile.owners[b.kind])
      /\ b.owner \notin refs => b.owner \in m.plan.owners /\ shown # {}
      /\ \A ref \in b.consumers : ref.project = b.owner.project /\ Allowed(q.profile, ref.route, b.owner.route)
      /\ b.implementers = {ref \in b.consumers : ref.route \in q.profile.implementers[b.kind]}
      /\ \A id \in b.source :
           /\ id \in m.index /\ b.kind \in EvidenceOf(q, id).kinds
           /\ EvidenceOf(q, id).kind = "contract" \/ (EvidenceOf(q, id).kind = "source" /\ Shows(EvidenceOf(q, id)))
      /\ \E s \in m.shared : s.kind = b.kind /\ s.routes = b.consumers \cup ({b.owner} \cap refs)

BoundariesHold(q, m) ==
  /\ \A b \in m.plan.boundaries : BoundaryHolds(q, m, b)
  /\ m.plan.owners = {b.owner : b \in m.plan.boundaries}
  /\ m.plan.state = "FREEZE_REQUIRED" =>
       Cardinality({b.kind : b \in m.plan.boundaries}) = Cardinality(m.plan.boundaries)
       /\ Cardinality(m.plan.boundaries) = Cardinality(m.shared)

validatePlannerMetadata(q, m) ==
  /\ ReviewIsAsked(m) /\ ProfilesHold(q, m) /\ RoutesHold(q, m) /\ StatusHolds(m)
  /\ ChecksHold(q, m) /\ ContractStateHolds(m) /\ BoundariesHold(q, m)

(***************************************************************************)
(* What routing promises.                                                  *)
(***************************************************************************)
(* The result of the router passes the gate unless no route was selected   *)
(* while the owner must decide, a boundary was taken from a source that    *)
(* does not show it, or the evidence index was too small to hold what the  *)
(* result cites (buildRoutingMetadataMode against validatePlannerMetadata).*)
RoutingPasses(q, m) ==
  LET cited == ToSet(Cited(q)) \cup UNION {b.source : b \in m.plan.boundaries}
  IN  /\ ~Conflict(q) /\ cited \subseteq m.index
      /\ ~(m.status = "partial" /\ m.routes = {})
      /\ \A b \in m.plan.boundaries : \A id \in b.source : b.kind \in EvidenceOf(q, id).kinds
      => validatePlannerMetadata(q, m)

(* Nothing the text excludes is routed, in any project and whatever other  *)
(* clause or source speaks for it; nothing is routed without evidence.     *)
ExclusionsHold(q) ==
  \A ref \in Routed(q) : LET p == Project(q, ref.project) IN
    /\ Files(p, ref.route) # {}
    /\ \A c \in p.clauses : c.route = ref.route =>
         (c.negated => c.contextual \/ c.future)

(* Owners of the frozen boundaries depend on none of their consumers'      *)
(* projects: each boundary lives in one project (resolveContractOwner).    *)
BoundariesAreLocal(q) ==
  ~Conflict(q) => \A b \in buildContractPlan(q).boundaries :
    /\ \A ref \in b.consumers : ref.project = b.owner.project
    /\ \E e \in Project(q, b.owner.project).evidence : e.kind = "source" /\ b.owner.route \in e.targets
=============================================================================
