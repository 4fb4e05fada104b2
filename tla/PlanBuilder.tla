----------------------------- MODULE PlanBuilder -----------------------------
(***************************************************************************)
(* How a request becomes a task graph: the deterministic planner chooses   *)
(* the projects, derives the order of their tasks from the topology and    *)
(* bounds the parallelism; the planner-agent refines the draft; the        *)
(* validator is the gate before the plan is stored.                        *)
(*                                                                         *)
(* Projects are numbers in the order of their identifiers.  A request q    *)
(* carries the facts its text and the catalog establish: the services      *)
(* their words mention, the relations, the drifts, whether the words speak *)
(* of contracts or of a migration.                                         *)
(***************************************************************************)
EXTENDS Integers, SequencesExt

RiskLevels == <<"low", "medium", "high", "critical">>
RiskRank(risk) == CHOOSE i \in DOMAIN RiskLevels : RiskLevels[i] = risk
LastRisk(left, right) == right
maxRisk(left, right) == IF RiskRank(right) > RiskRank(left) THEN right ELSE left
maxParallel(n) == IF n < 1 THEN 1 ELSE IF n > 3 THEN 3 ELSE n
ModelProfile(risk) == <<"fast", "standard", "deep", "deep">>[RiskRank(risk)]

(* A source issue counts once; an incomplete reference refuses the request.*)
normalizedIssueReferences(issues) ==
  IF \A i \in issues : i.project # 0 /\ i.number >= 1 /\ i.provider \in {"github", "gitlab"}
    THEN [ok |-> TRUE, projects |-> {i.project : i \in issues}] ELSE [ok |-> FALSE, projects |-> {}]

(* Role of the task in a repository; only a backend runs migrations.       *)
taskRole(s) ==
  IF s.role = "frontend" \/ s.kind = "frontend_application" THEN "frontend-coder"
  ELSE IF s.kind = "gateway" THEN "gateway-coder"
  ELSE IF "infrastructure" \in {s.role, s.kind} THEN "infrastructure-coder"
  ELSE IF s.role \in {"content", "policy", "documentation", "archive"} THEN "knowledge-coder" ELSE "backend-coder"

(* Verification commands of a checkout: the canonical forms of what its    *)
(* manifest declares as verification without approval.  A manifest that is *)
(* present but unsafe, replaced while read, or undecodable is an error.    *)
Canonical == {"go test", "npm test", "npm run build", "npm run lint"}
manifestEntryIsVerification(entry) == entry.risk = "verification" \/ entry.namedAsCheck
verificationCommands(checkout) ==
  LET declared == {e.run : e \in {x \in checkout.entries :
                     ~x.approval /\ manifestEntryIsVerification(x) /\ x.run \in Canonical}}
  IN  IF checkout.manifest = "absent" THEN [ok |-> TRUE, commands |-> {"git diff --check"}]
      ELSE IF checkout.manifest \in {"symlink", "oversized", "escaping", "replaced", "undecodable"} THEN [ok |-> FALSE, commands |-> {}]
      ELSE [ok |-> TRUE, commands |-> {"git diff --check"} \cup declared]

(* Selection of the projects; {} stands for the refusal of the request.    *)
Services(q) == IF q.limited THEN q.available ELSE q.catalog

selectProjects(q) ==
  LET seeds == IF q.requested # {} THEN q.requested ELSE normalizedIssueReferences(q.issues).projects
      scored == q.mentioned \cap Services(q)
  IN  IF seeds # {} THEN (IF seeds \subseteq Services(q) THEN seeds ELSE {})
      ELSE IF scored = {} /\ Cardinality(Services(q)) = 1 THEN Services(q) ELSE scored

includeRelatedProjects(q, selected) ==
  selected \cup {p \in Services(q) : \E r \in q.relations :
                   \/ r.source \in selected /\ r.target = p
                   \/ r.target \in selected /\ r.source = p}

Chosen(q) ==
  LET selected == IF normalizedIssueReferences(q.issues).ok THEN selectProjects(q) ELSE {}
  IN  IF q.requested # {} THEN selected ELSE includeRelatedProjects(q, selected)

(* Commands of every chosen project are read; one failure refuses the plan.*)
Built(q) == Chosen(q) # {} /\ \A p \in Chosen(q) : verificationCommands(q.checkouts[p]).ok

(* The order of the tasks.  d.task waits for d.on.                         *)
Edge(task, on, type) == [task |-> task, on |-> on, type |-> type]
hasDependency(deps, task, on) == \E d \in deps : d.task = task /\ d.on = on

RECURSIVE Reached(_, _)
Reached(deps, from) ==
  LET next == from \cup {d.on : d \in {e \in deps : e.task \in from}}
  IN  IF next = from THEN from ELSE Reached(deps, next)

pathExists(deps, from, to) == to \in Reached(deps, {from})

Ordering == {"consumes", "depends_on", "routes_to", "subscribes"}
TypeRank == [consumes |-> 1, depends_on |-> 2, parallelism_limit |-> 3, prerequisite |-> 4, routes_to |-> 5, subscribes |-> 6]
Sooner(d, e) == \/ d.task < e.task
                \/ d.task = e.task /\ d.on < e.on
                \/ d.task = e.task /\ d.on = e.on /\ TypeRank[d.type] < TypeRank[e.type]

RECURSIVE InOrder(_)
InOrder(deps) ==
  IF deps = {} THEN <<>>
  ELSE LET first == CHOOSE d \in deps : \A e \in deps \ {d} : Sooner(d, e)
       IN  <<first>> \o InOrder(deps \ {first})

(* A relation becomes a dependency unless it repeats one or closes a cycle.*)
planDependencies(selected, relations) ==
  LET candidates == {Edge(r.source, r.target, r.type) : r \in
                       {s \in relations : s.type \in Ordering /\ {s.source, s.target} \subseteq selected}}
      Take(deps, d) == IF d.task = d.on \/ hasDependency(deps, d.task, d.on) \/ pathExists(deps, d.on, d.task)
                         THEN deps ELSE deps \cup {d}
  IN  FoldLeft(Take, {}, InOrder(candidates))

(* The first level of the graph that is empty or wider than the limit.     *)
RECURSIVE Overflow(_, _, _, _)
Overflow(keys, deps, limit, processed) ==
  LET Ready(k) == k \notin processed /\ \A d \in deps : d.task = k => d.on \in processed
      ready == SelectSeq(keys, Ready)
  IN  IF Len(ready) \notin 1..limit THEN ready
      ELSE Overflow(keys, deps, limit, processed \cup ToSet(ready))

firstParallelOverflow(keys, deps, limit) == Overflow(keys, deps, limit, {})

(* Too wide a level is narrowed: its surplus waits for its first members.  *)
RECURSIVE boundParallelism(_, _, _)
boundParallelism(keys, deps, limit) ==
  LET ready == firstParallelOverflow(keys, deps, limit)
      Wait(sofar, i) == IF hasDependency(sofar, ready[i], ready[i - limit]) \/ pathExists(sofar, ready[i - limit], ready[i])
                          THEN sofar ELSE sofar \cup {Edge(ready[i], ready[i - limit], "parallelism_limit")}
  IN  IF Len(ready) <= limit THEN deps
      ELSE boundParallelism(keys, FoldLeft(Wait, deps, [k \in 1..(Len(ready) - limit) |-> k + limit]), limit)

(* Risk of the plan: what the words announce, raised by the drifts that    *)
(* touch a chosen project.                                                 *)
planRisk(q, selected) ==
  LET words == IF q.migration THEN "high" ELSE IF q.contracts THEN "medium" ELSE "low"
      touching == {d.severity : d \in {e \in q.drifts : {e.producer, e.consumer} \cap selected # {}}}
  IN  IF "critical" \in touching THEN "critical" ELSE IF "error" \in touching THEN "high" ELSE words

(* The draft plan.  q.keys lists the projects in the order of their names. *)
Build(q) ==
  LET selected == Chosen(q)
      In(p) == p \in selected
      keys == SelectSeq(q.keys, In)
      risk == planRisk(q, selected)
      taskRisk == IF risk = "critical" THEN "high" ELSE risk
  IN  [tasks |-> [i \in DOMAIN keys |->
                    [key |-> keys[i], risk |-> taskRisk, profile |-> ModelProfile(taskRisk), depth |-> 0,
                     priority |-> Len(keys) - (i - 1), contracts |-> q.contracts,
                     migration |-> q.migration /\ taskRole(q.services[keys[i]]) = "backend-coder",
                     commands |-> verificationCommands(q.checkouts[keys[i]]).commands, routes |-> {}]],
       deps |-> boundParallelism(keys, planDependencies(selected, q.relations), maxParallel(q.limit)),
       risk |-> risk]

Keys(plan) == [i \in DOMAIN plan.tasks |-> plan.tasks[i].key]

(* Levels as the validator counts them: each wave releases the next.       *)
RECURSIVE WavesWithin(_, _, _, _)
WavesWithin(keys, deps, limit, processed) ==
  LET wave == {k \in keys \ processed : \A d \in deps : d.task = k => d.on \in processed}
  IN  IF wave = {} THEN processed = keys
      ELSE Cardinality(wave) <= limit /\ WavesWithin(keys, deps, limit, processed \cup wave)

Validate(plan, limit, maxDepth) ==
  LET keys == ToSet(Keys(plan)) IN
    /\ plan.tasks # <<>> /\ Cardinality(keys) = Len(plan.tasks)
    /\ \A i \in DOMAIN plan.tasks : plan.tasks[i].depth \in 0..(IF maxDepth < 1 THEN 1 ELSE maxDepth)
    /\ \A d \in plan.deps : d.task # d.on /\ d.type # "" /\ {d.task, d.on} \subseteq keys
    /\ \A d, e \in plan.deps : d.task = e.task /\ d.on = e.on => d = e
    /\ WavesWithin(keys, plan.deps, maxParallel(limit), {})

(* Refinement by the planner-agent: the same tasks, its own prerequisites  *)
(* first, then the draft's relations that do not contradict them.          *)
RECURSIVE Depths(_, _, _)
Depths(keys, deps, sofar) ==
  LET Ready(k) == k \notin DOMAIN sofar /\ \A d \in deps : d.task = k => d.on \in DOMAIN sofar
      DepthOf(k) == Max({0} \cup {sofar[d.on] + 1 : d \in {e \in deps : e.task = k}})
      ready == {k \in keys : Ready(k)}
  IN  IF ready = {} THEN sofar
      ELSE Depths(keys, deps, [k \in DOMAIN sofar \cup ready |-> IF k \in ready THEN DepthOf(k) ELSE sofar[k]])

dependencyDepths(keys, deps) == Depths(keys, deps, [k \in {} |-> 0])

AgentDependencies(plan, answer) ==
  LET own == {Edge(d.task, d.on, "prerequisite") : d \in answer.deps}
      Keep(deps, d) == IF d.type = "parallelism_limit" \/ hasDependency(deps, d.task, d.on) \/ pathExists(deps, d.on, d.task)
                         THEN deps ELSE deps \cup {d}
  IN  FoldLeft(Keep, own, InOrder(plan.deps))

(* The answer covers every task once and widens no scope.                  *)
AnswerFits(plan, answer) ==
  LET keys == Keys(plan) IN
    /\ Len(answer.tasks) = Len(keys)
    /\ {t.key : t \in ToSet(answer.tasks)} = ToSet(keys)
    /\ \A t \in ToSet(answer.tasks) : \E base \in ToSet(plan.tasks) :
         /\ base.key = t.key
         /\ (t.contracts => base.contracts) /\ (t.migration => base.migration)
    /\ \A d \in answer.deps : {d.task, d.on} \subseteq ToSet(keys) /\ d.task # d.on

refinePlannerOutput(plan, answer, limit) ==
  LET keys == Keys(plan)
      deps == boundParallelism(keys, AgentDependencies(plan, answer), maxParallel(limit))
      depths == dependencyDepths(ToSet(keys), deps)
      Said(key) == CHOOSE t \in ToSet(answer.tasks) : t.key = key
      Refined(base) == LET risk == maxRisk(base.risk, Said(base.key).risk)
                       IN  [base EXCEPT !.risk = risk, !.profile = ModelProfile(risk),
                                        !.routes = Said(base.key).routes, !.depth = depths[base.key]]
      tasks == [i \in DOMAIN keys |-> Refined(plan.tasks[i])]
      accepted == AnswerFits(plan, answer) /\ DOMAIN depths = ToSet(keys)
  IN  IF accepted
        THEN [ok |-> TRUE, plan |-> [tasks |-> tasks, deps |-> deps,
              risk |-> FoldLeft(maxRisk, maxRisk(plan.risk, answer.risk), [i \in DOMAIN tasks |-> tasks[i].risk])]]
        ELSE [ok |-> FALSE, plan |-> plan]

(* A refined task may only claim the routes the routing offers its project.*)
validateArchitecturalRouteSelection(plan, offered) ==
  \A task \in ToSet(plan.tasks) : task.routes \subseteq offered[task.key]

(* What the agent is shown: the tasks' own projects, each with a checkout, *)
(* and the relations among them only.                                      *)
AgentContext(q, plan) ==
  LET selected == ToSet(Keys(plan)) IN
    [ok |-> \A p \in selected : q.checkouts[p].path, projects |-> selected,
     relations |-> {r \in q.relations : {r.source, r.target} \subseteq selected}]

(* The whole refined build; {} tasks stand for the refusal.                *)
Refined(q, plan, out) ==
  [ok |-> /\ Built(q) /\ AgentContext(q, plan).ok /\ out.ok
         /\ validateArchitecturalRouteSelection(out.plan, q.offered),
       plan |-> out.plan]
AgentBuild(q, answer) == LET plan == Build(q) IN Refined(q, plan, refinePlannerOutput(plan, answer, q.limit))

(***************************************************************************)
(* What the planner promises.                                              *)
(***************************************************************************)
(* The plan made from any topology passes the gate that stores it, whether *)
(* the relations form a cycle, a fan or a chain (boundParallelism against  *)
(* Validator.Validate).                                                    *)
DraftIsAcceptable(q) == Built(q) => Validate(Build(q), q.limit, 1)

(* Each ordering relation between two chosen projects is respected, or     *)
(* contradicted only by relations that already order them the other way.   *)
RelationsAreRespected(q) ==
  LET deps == Build(q).deps IN
    \A r \in q.relations :
      r.type \in Ordering /\ {r.source, r.target} \subseteq Chosen(q) =>
        pathExists(deps, r.source, r.target) \/ pathExists(deps, r.target, r.source)

(* Only projects that may be used get a task, all that are asked for get   *)
(* one, and a plan without an explicit choice leaves no neighbour out.     *)
ChoiceIsClosed(q) ==
  LET chosen == Chosen(q) IN
    chosen # {} =>
      /\ chosen \subseteq Services(q) /\ q.requested \subseteq chosen
      /\ q.requested = {} => \A r \in q.relations :
           r.source \in selectProjects(q) /\ r.target \in Services(q) => r.target \in chosen

(* A task runs only commands its manifest declares without approval, only  *)
(* a backend migrates, and a manifest that cannot be trusted stops the     *)
(* plan instead of weakening its checks (verificationCommands).            *)
ChecksAreTrusted(q) ==
  Built(q) => \A t \in ToSet(Build(q).tasks) :
    LET checkout == q.checkouts[t.key] IN
      /\ checkout.manifest \in {"absent", "sound"} /\ "git diff --check" \in t.commands
      /\ \A c \in t.commands \ {"git diff --check"} : \E e \in checkout.entries : e.run = c /\ ~e.approval
      /\ t.migration => q.services[t.key].kind \notin {"gateway", "frontend_application"}

(* The agent cannot lower a risk, lose the owner's prerequisites, or order *)
(* a task before what it waits for; what it returns is a graph the gate    *)
(* accepts whenever the depth is allowed.                                  *)
RefinementIsSound(q, answer, plan, out) ==
  LET depth == [k \in ToSet(Keys(plan)) |-> (CHOOSE t \in ToSet(out.plan.tasks) : t.key = k).depth]
  IN  out.ok =>
        /\ \A d \in answer.deps : hasDependency(out.plan.deps, d.task, d.on)
        /\ \A d \in out.plan.deps : depth[d.task] > depth[d.on]
        /\ RiskRank(out.plan.risk) >= RiskRank(plan.risk)
        /\ \A i \in DOMAIN plan.tasks : RiskRank(out.plan.tasks[i].risk) >= RiskRank(plan.tasks[i].risk)
        /\ \A t \in ToSet(out.plan.tasks) : t.routes \subseteq q.offered[t.key] /\ q.checkouts[t.key].path
        /\ Validate(out.plan, q.limit, Cardinality(ToSet(Keys(plan))))

(* Only a contradiction in the agent's own prerequisites is refused: the   *)
(* draft's relations never turn an acyclic answer into a cyclic plan.      *)
AcyclicAnswerIsTaken(q, answer, plan) ==
    Built(q) /\ AgentContext(q, plan).ok /\ AnswerFits(plan, answer)
    /\ (\A d \in answer.deps : ~pathExists(answer.deps, d.on, d.task))
      => refinePlannerOutput(plan, answer, q.limit).ok
=============================================================================
