----------------------------- MODULE PlanRouting -----------------------------
(***************************************************************************)
(* Architectural routing of a plan: which responsibilities (routes) of     *)
(* which projects the request touches, on what evidence, and which shared  *)
(* boundaries must be frozen as contracts first.  The validator re-derives *)
(* every claim of the result before the plan is stored.                    *)
(*                                                                         *)
(* A question q has the projects in plan order with the evidence indexed   *)
(* in each checkout (numbers in path order), what each clause of the text  *)
(* says of each route, the profile both projects use, and the two bounds   *)
(* on targets and evidence.                                                *)
(***************************************************************************)
EXTENDS Integers, SequencesExt

(* Go shape: every required root present, or the declared alternate of the *)
(* use-case root corroborated by metadata and by an implementation.        *)
GoShape(f) ==
  \/ f.required # {} /\ f.required \subseteq f.present
  \/ /\ f.alternate.targeted /\ f.alternate.declared /\ f.alternate.implemented
     /\ "internal/usecase" \in f.required /\ f.alternate.root \in f.present
     /\ f.required \ {"internal/usecase"} \subseteq f.present

(* Which architecture profile the checkout proves.                         *)
ProfileOf(f) ==
  IF f.goMod /\ f.goSources THEN (IF GoShape(f) THEN "go.canonical" ELSE "unresolved")
  ELSE IF f.nextPackage /\ f.appSource /\ f.nextShape THEN "nextjs.common" ELSE "unresolved"

(* What one mention of a route in one clause means.                        *)
SignalOf(route, clause) ==
  IF clause.contextual \/ clause.future THEN "neutral"
  ELSE IF clause.negated THEN "negative"
  ELSE IF clause.conditional THEN "conditional"
  ELSE IF clause.explanatory THEN "neutral"
  ELSE IF route = "composition" THEN (IF clause.wiring THEN "positive" ELSE "neutral")
  ELSE IF clause.action \/ clause.fragment THEN "positive" ELSE "neutral"

Polarity(signals) ==
  IF {"positive", "negative"} \subseteq signals THEN "conflicting"
  ELSE IF "negative" \in signals THEN "negative"
  ELSE IF "conditional" \in signals THEN "conditional"
  ELSE IF "positive" \in signals THEN "positive" ELSE "neutral"

(* Route choice in one project p: a positive mention needs source evidence,*)
(* an exclusion wins, uncertainty is left to the owner.                    *)
Files(p, route) == {e \in p.evidence : route \in e.targets}
PolarityOf(p, route) ==
  LET said == Polarity({SignalOf(route, c) : c \in {d \in p.clauses : d.route = route}})
  IN  IF said = "neutral" /\ route \in p.anchored THEN "positive" ELSE said
Implicit(p, route) == \E c \in p.clauses : c.route = route /\ c.fragment /\ ~c.action /\ SignalOf(route, c) = "positive"
Score(p, route) == IF Files(p, route) = {} THEN 0 ELSE p.score[route]

Uncertain(p, route) ==
  \/ PolarityOf(p, route) \in {"conditional", "conflicting"}
  \/ PolarityOf(p, route) = "positive" /\ Files(p, route) = {} /\ ~Implicit(p, route)

SelectedRoutes(profile, p) ==
  LET backed == {r \in profile.routes : PolarityOf(p, r) = "positive" /\ Files(p, r) # {}}
      best == Max({0} \cup {Score(p, r) : r \in backed})
  IN  {r \in backed : best = 0 \/ Score(p, r) = best \/ p.imperative \/ r \in p.anchored}

(* Sources before tests, in path order, at most maxTargets of them.        *)
Targets(p, route, maxTargets) ==
  LET rank(e) == e.id + (IF e.kind = "test" THEN 1000 ELSE 0)
      ahead(e) == {x \in Files(p, route) : rank(x) < rank(e)}
  IN  {e.id : e \in {x \in Files(p, route) : Cardinality(ahead(x)) < maxTargets}}

TestsOf(p, route) == {e.id : e \in {x \in Files(p, route) : x.kind = "test"}}

Ref(p, route) == [project |-> p.id, route |-> route]
Resolved(p) == ProfileOf(p.facts) # "unresolved"
Review(profile, p) == Resolved(p) /\ \E r \in profile.routes : Uncertain(p, r)
RoutesOf(profile, p) == IF Resolved(p) THEN SelectedRoutes(profile, p) ELSE {}

Routed(q) == UNION {{Ref(p, r) : r \in RoutesOf(q.profile, p)} : p \in ToSet(q.projects)}

StatusOf(q) ==
  LET ps == ToSet(q.projects)
      review == \E p \in ps : Review(q.profile, p)
  IN  IF Routed(q) = {} THEN (IF review THEN "partial" ELSE "unresolved")
      ELSE IF review \/ (\E p \in ps : ~Resolved(p) \/ RoutesOf(q.profile, p) = {}) THEN "partial" ELSE "resolved"

ConfidenceOf(q) ==
  LET ps == ToSet(q.projects) IN
    IF \E p \in ps : ~Resolved(p) \/ Review(q.profile, p) \/ RoutesOf(q.profile, p) = {} THEN "low"
    ELSE IF \E p \in ps : \E r \in RoutesOf(q.profile, p) : Score(p, r) > 0 THEN "medium" ELSE "high"

(* Boundaries that two routes share, over all projects; registrations and  *)
(* the database schema are wiring, not interfaces.                         *)
Wiring == {"http-route-registration", "message-consumer-registration", "database-schema"}
sharedBoundaryCandidates(q) ==
  LET kinds == (UNION {q.profile.bounds[ref.route] : ref \in Routed(q)}) \ Wiring
      Sharing(k) == {ref \in Routed(q) : k \in q.profile.bounds[ref.route]}
  IN  {[kind |-> k, routes |-> Sharing(k)] : k \in {x \in kinds : Cardinality(Sharing(x)) >= 2}}

Supports(profile, kind, route, e) ==
  kind \in e.kinds /\ (e.kind = "contract" \/ (e.kind = "source" /\ route \in e.faces))
Allowed(profile, consumer, owner) == consumer = owner \/ owner \in profile.mayUse[consumer]

(* Owner of a boundary: evidence first, then the profile's order; it must  *)
(* be proven by a source of its own and every other route may depend on it.*)
resolveContractOwner(q, candidate) ==
  LET first == CHOOSE i \in DOMAIN q.projects :
                 /\ \E ref \in candidate.routes : ref.project = q.projects[i].id
                 /\ \A j \in 1..(i - 1) : \A ref \in candidate.routes : ref.project # q.projects[j].id
      p == q.projects[first]
      permitted == q.profile.owners[candidate.kind]
      Backed(r) == \E e \in p.evidence : Supports(q.profile, candidate.kind, r, e) /\ r \in e.owned
      Proven(r) == \E e \in p.evidence : e.kind = "source" /\ r \in e.targets
      Fits(r) == Proven(r) /\ \A ref \in candidate.routes : ref.project = p.id /\ Allowed(q.profile, ref.route, r)
      order == SelectSeq(permitted, Backed) \o permitted
  IN  SelectSeq([i \in DOMAIN order |-> Ref(p, order[i])], LAMBDA ref : Fits(ref.route))

Project(q, id) == CHOOSE p \in ToSet(q.projects) : p.id = id

(* An interface found in the owner's checkout, else one the task names.    *)
ExistingSource(q, kind, owner) ==
  LET found == {e \in Project(q, owner.project).evidence :
                  Supports(q.profile, kind, owner.route, e) /\ (e.kind = "source" => owner.route \in e.owned)}
      named == {e \in Project(q, owner.project).evidence :
                  kind = "application-command-result" /\ e.kind = "source" /\ owner.route \in e.owned /\ e.typed}
      first(S) == CHOOSE e \in S : \A x \in S : e.id <= x.id
  IN  IF found # {} THEN {first(found).id} ELSE IF named # {} THEN {first(named).id} ELSE {}

Boundary(q, candidate) ==
  LET owner == Head(resolveContractOwner(q, candidate))
      consumers == candidate.routes \ {owner}
  IN  [kind |-> candidate.kind, owner |-> owner, consumers |-> consumers, source |-> ExistingSource(q, candidate.kind, owner),
       implementers |-> {ref \in consumers : ref.route \in q.profile.implementers[candidate.kind]}]

(* An unowned boundary is an architecture conflict: no plan is built.      *)
Conflict(q) == \E c \in sharedBoundaryCandidates(q) : resolveContractOwner(q, c) = <<>>

ContractPlanOf(q, shared) ==
  LET state == IF shared # {} THEN "FREEZE_REQUIRED" ELSE IF StatusOf(q) # "resolved" THEN "PLANNED" ELSE "NOT_REQUIRED"
      boundaries == {Boundary(q, c) : c \in shared}
  IN  [state |-> state, boundaries |-> boundaries, owners |-> {b.owner : b \in boundaries},
       affected |-> IF state = "NOT_REQUIRED" THEN {} ELSE Routed(q),
       independent |-> IF shared = {} THEN {} ELSE {ref \in Routed(q) : ref.route \notin {"composition", "bff"}}]
buildContractPlan(q) == ContractPlanOf(q, sharedBoundaryCandidates(q))

(* The evidence index is bounded: what the result cites comes first.       *)
IdsInOrder(S) == [i \in 1..Cardinality(S) |-> CHOOSE x \in S : Cardinality({y \in S : y < x}) = i - 1]
Dedupe(ids) == FoldLeft(LAMBDA seen, id : IF Contains(seen, id) THEN seen ELSE Append(seen, id), <<>>, ids)
ProfileEvidence(p) == IF Resolved(p) THEN p.proof ELSE {}
RECURSIVE RouteIds(_, _, _)
RouteIds(q, p, routes) ==
  IF routes = {} THEN <<>>
  ELSE LET r == CHOOSE x \in routes : \A y \in routes : q.profile.rank[x] <= q.profile.rank[y]
       IN  IdsInOrder(Targets(p, r, q.maxTargets)) \o IdsInOrder(TestsOf(p, r)) \o RouteIds(q, p, routes \ {r})
Cited(q) ==
  FlattenSeq([i \in DOMAIN q.projects |->
                IdsInOrder(ProfileEvidence(q.projects[i])) \o RouteIds(q, q.projects[i], RoutesOf(q.profile, q.projects[i]))])
buildBoundedEvidenceIndex(q, plan) ==
  LET all == UNION {{e.id : e \in p.evidence} : p \in ToSet(q.projects)}
      order == Dedupe(Cited(q) \o IdsInOrder(UNION {b.source : b \in plan.boundaries}) \o IdsInOrder(all))
  IN  ToSet(SubSeq(order, 1, IF Len(order) < q.maxEvidence THEN Len(order) ELSE q.maxEvidence))

Metadata(q, plan, index, status, confidence) ==
  LET Target(ref) == LET ids == Targets(Project(q, ref.project), ref.route, q.maxTargets)
                     IN  [ref |-> ref, paths |-> ids, evidence |-> ids \cap index, inspected |-> ids]
      Check(ref) == LET ids == TestsOf(Project(q, ref.project), ref.route)
                    IN  [ref |-> ref, state |-> IF ids # {} THEN "existing" ELSE "to_add", evidence |-> ids \cap index]
  IN  [status |-> status, review |-> status # "resolved" \/ confidence = "low", confidence |-> confidence,
       reasoned |-> confidence = "low", index |-> index,
       profiles |-> [p \in ToSet(q.projects) |-> [resolved |-> Resolved(p), evidence |-> ProfileEvidence(p) \cap index]],
       routes |-> {Target(ref) : ref \in Routed(q)}, checks |-> {Check(ref) : ref \in Routed(q)},
       shared |-> sharedBoundaryCandidates(q), plan |-> plan]
Indexed(q, plan) == Metadata(q, plan, buildBoundedEvidenceIndex(q, plan), StatusOf(q), ConfidenceOf(q))
buildRoutingMetadata(q) == Indexed(q, buildContractPlan(q))
=============================================================================
