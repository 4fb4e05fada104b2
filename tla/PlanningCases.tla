----------------------------- MODULE PlanningCases -----------------------------
(***************************************************************************)
(* Small requests for the planner, its agent and the router: relations     *)
(* with cycles, fans and self-relations, answers that refine or            *)
(* contradict, and clauses that ask for, exclude or only mention a route;  *)
(* small worktrees, answers of coders and runs of commands for the work on *)
(* a planned task; and small catalogs of agent assets.                     *)
(***************************************************************************)
EXTENDS PlanBuilder, PlanValidator, TaskVerification

(* Four projects, at most three tasks at once; every subset of nine        *)
(* relations: two cycles, a self-relation, a fan and one that orders none. *)
Rel(s, t, type) == [source |-> s, target |-> t, type |-> type]
MCRelations == {Rel(1, 2, "depends_on"), Rel(2, 1, "consumes"), Rel(2, 3, "depends_on"), Rel(3, 1, "routes_to"),
                Rel(3, 4, "subscribes"), Rel(4, 4, "depends_on"), Rel(1, 4, "calls"), Rel(4, 2, "consumes"),
                Rel(1, 2, "routes_to")}
Drift(s, p, c) == [severity |-> s, producer |-> p, consumer |-> c]
Entry(run, approval, named) == [run |-> run, approval |-> approval, risk |-> "low", namedAsCheck |-> named]
Checkout(manifest) ==
  [path |-> TRUE, manifest |-> manifest,
   entries |-> {Entry("go test", FALSE, TRUE), Entry("npm run build", TRUE, TRUE), Entry("rm", FALSE, TRUE), Entry("npm test", FALSE, FALSE)}]
Repository(role, kind) == [role |-> role, kind |-> kind]
Request(relations, limit) ==
  [requested |-> 1..4, issues |-> {}, mentioned |-> {}, catalog |-> 1..4, available |-> {}, limited |-> FALSE,
   relations |-> relations, drifts |-> {Drift("error", 2, 9)}, contracts |-> FALSE, migration |-> FALSE,
   services |-> <<Repository("backend", "api"), Repository("unknown", "gateway"), Repository("policy", "unknown"), Repository("frontend", "unknown")>>,
   checkouts |-> <<Checkout("sound"), Checkout("absent"), Checkout("sound"), Checkout("sound")>>,
   offered |-> <<{"r"}, {"r", "s"}, {"r"}, {}>>, keys |-> <<3, 1, 4, 2>>, limit |-> limit]

PlannerQuestions ==
  {Request(rs, n) : rs \in SUBSET MCRelations, n \in {0, 2, 3}}
ChoiceQuestions ==
  {[Request({Rel(1, 2, "consumes"), Rel(3, 2, "calls")}, 9) EXCEPT
           !.requested = asked, !.issues = issues, !.mentioned = words, !.available = live, !.limited = limited,
           !.drifts = drifts, !.contracts = contracts, !.migration = contracts, !.checkouts[2] = Checkout(manifest)] :
         asked \in {{}, {2}, {1, 4}}, issues \in {{}, {[project |-> 3, number |-> 7, provider |-> "gitlab"]}, {[project |-> 3, number |-> 0, provider |-> "gitlab"]}},
         manifest \in {"absent", "sound", "symlink"}, words \in {{}, {1}, {2, 4}}, live \in {{}, {2}, {1, 2, 3}},
         limited \in BOOLEAN, contracts \in BOOLEAN, drifts \in {{}, {Drift("critical", 9, 2)}, {Drift("error", 1, 9)}}}

(* Answers of the planner-agent over three tasks.                          *)
Says(k, risk, contracts) == [key |-> k, risk |-> risk, contracts |-> contracts, migration |-> FALSE, routes |-> {"r"}]
AgentQuestions(wanted, risk) ==
  [request : {[Request(rs, wanted) EXCEPT !.requested = 1..3, !.contracts = TRUE, !.keys = <<2, 1, 3>>] :
                rs \in SUBSET {Rel(1, 2, "depends_on"), Rel(2, 3, "depends_on"), Rel(3, 1, "consumes")}},
   answer : [risk : {risk},
             tasks : UNION {{<<Says(1, "low", TRUE), [Says(2, "high", FALSE) EXCEPT !.routes = {route}], Says(3, "low", FALSE)>>,
                      <<Says(1, "low", TRUE), Says(1, "high", FALSE), Says(3, "low", FALSE)>>} : route \in {"s", "t"}},
             deps : SUBSET ({[task |-> 1, on |-> 1]} \cup {[task |-> p[1], on |-> p[2]] : p \in {x \in (1..3) \X (1..3) : x[1] # x[2]}})]]

(* A Go service with a use case, a handler, a store, a domain port and a    *)
(* composition root; a second service beside it.                           *)
App == "application-command-result"
Port == "repository-port"
MCProfile ==
  [routes |-> {"domain", "usecase", "http", "store", "composition"},
   rank |-> [composition |-> 1, domain |-> 2, http |-> 3, store |-> 4, usecase |-> 5],
   bounds |-> [domain |-> {}, usecase |-> {App, Port}, http |-> {App}, store |-> {Port, "database-schema"},
               composition |-> {"http-route-registration", "database-schema"}],
   owners |-> (App :> <<"usecase">> @@ Port :> <<"domain", "usecase">>),
   implementers |-> (App :> {"usecase"} @@ Port :> {"store"}),
   mayUse |-> [domain |-> {}, usecase |-> {"domain"}, http |-> {"usecase"}, store |-> {"domain"}, composition |-> {}],
   inspected |-> {"http"}]
Item(id, kind, targets, kinds, owned, typed) ==
  [id |-> id, kind |-> kind, targets |-> targets, faces |-> owned, kinds |-> kinds, owned |-> owned, typed |-> typed]
Clause(route, word) ==
  [route |-> route, contextual |-> FALSE, future |-> word = "later", negated |-> word \in {"not", "later"},
   conditional |-> word = "maybe", explanatory |-> word = "now", action |-> word \in {"do", "not", "maybe", "later"},
   fragment |-> word = "about", wiring |-> word = "do"]
Alternate == "internal/application/usecase"
GoFacts == [goMod |-> TRUE, goSources |-> TRUE, required |-> {"internal/domain", "internal/usecase"}, present |-> {"internal/domain", Alternate},
            alternate |-> [root |-> Alternate, targeted |-> TRUE, declared |-> TRUE, implemented |-> TRUE], nextPackage |-> FALSE, appSource |-> FALSE, nextShape |-> FALSE]
Service(id, clauses, evidence, score, anchored, facts) ==
  [id |-> id, facts |-> facts, clauses |-> clauses, evidence |-> evidence, anchored |-> anchored, imperative |-> FALSE,
   score |-> [domain |-> 0, usecase |-> score, http |-> 0, store |-> 0, composition |-> 0], proof |-> {e.id : e \in {x \in evidence : "usecase" \in x.targets}}]
UseCase(kinds, typed) == Item(1, "source", {"usecase"}, kinds, {"usecase"}, typed)
MCEvidence ==
  {{UseCase(k, t), Item(2, "source", {"http"}, {}, {}, FALSE), Item(3, "test", {"http"}, {}, {}, FALSE)} \cup more :
     k \in {{}, {App}}, t \in BOOLEAN,
     more \in {{}, {Item(4, "source", {"store"}, {}, {}, FALSE), Item(5, "source", {"domain"}, {Port}, {"domain"}, FALSE)},
               {Item(4, "source", {"store"}, {}, {}, FALSE), Item(6, "contract", {}, {Port}, {}, FALSE)},
               {Item(7, "source", {"composition"}, {}, {}, FALSE)}}}
Other == Service(2, {Clause("http", "do")}, {Item(8, "source", {"usecase"}, {}, {}, FALSE), Item(9, "source", {"http"}, {}, {}, FALSE)}, 0, {}, GoFacts)
MCServices(word) ==
  {Service(1, {Clause("http", word), Clause("usecase", w2), Clause("store", w3), Clause("http", w4), Clause("composition", w3)},
           evidence, score, anchored, facts) :
     w2 \in {"do", "now", "about"}, w3 \in {"do", "not", "about"}, w4 \in {"now", "do"},
     evidence \in MCEvidence, score \in {0, 4}, anchored \in {{}, {"http"}},
     facts \in {GoFacts, [GoFacts EXCEPT !.alternate.implemented = FALSE]}}
Words == {"do", "not", "maybe", "later"}
RoutingQuestions(word) ==
  {[projects |-> <<s>>, profile |-> MCProfile, maxTargets |-> 1, maxEvidence |-> n] : s \in MCServices(word), n \in {3, 9}}
SharedQuestions(word) ==
  {[projects |-> <<s, Other>>, profile |-> MCProfile, maxTargets |-> 2, maxEvidence |-> 9] : s \in MCServices(word)}

-----------------------------------------------------------------------------
(* Worktrees, answers of coders and runs of commands, and what a completed *)
(* task promises.                                                          *)
Run == <<"src", "run">>
Deep == <<"src", "in", "run">>
Up == <<"db", "1.up">>
Down == <<"db", "1.down">>
Api == <<"api", "openapi">>
Paths == {Run, Deep, Up, Down, Api}
Content(files, version) == [f \in Paths |-> IF f \in files THEN version ELSE 0]

Scopes == {{<<"src", "*">>}, {<<"**", "run">>}, {<<"src", "**">>, <<"db", "*">>}, {<<"*", "*", "run">>, <<"src", "run">>}, {<<"**">>}}
Task(scope, migration, contracts, commands) == [scope |-> scope, migration |-> migration, contracts |-> contracts, commands |-> commands]

Ran(exit, writes) == [exit |-> exit, writes |-> writes]
Runs(test) == [c \in {"git diff --check", "go test", "make"} |-> IF c = "git diff --check" THEN Ran("pass", {}) ELSE test]
Tests == {Ran("pass", {}), Ran("fail", {}), Ran("error", {}), Ran("pass", {Run}), Ran("pass", {Deep})}

Worktree(head, tree) == [head |-> head, tree |-> tree, planned |-> TRUE, inside |-> TRUE, ours |-> TRUE, descends |-> TRUE]
Quiet == [moved |-> FALSE, dirty |-> FALSE]
Artifact == [relative |-> TRUE, exists |-> TRUE, inside |-> TRUE, regular |-> TRUE, small |-> TRUE]
Answer(status, files, test) ==
  [status |-> status, files |-> files, checks |-> ("go test" :> test), prerequisites |-> FALSE, blockers |-> status = "blocked", artifacts |-> {Artifact}]

RunnerReport(lifecycle, acceptance, blockers) ==
  [readable |-> TRUE, schema |-> TRUE, ofBase |-> TRUE, head |-> Content({}, 0), lifecycle |-> lifecycle, acceptance |-> acceptance, blockers |-> blockers]
DoneReport == RunnerReport("DONE", "NOT_REQUIRED", {})
NoReport == [DoneReport EXCEPT !.readable = FALSE]
PassingGate ==
  [run |-> "r", full |-> TRUE, lock |-> "pinned", bundle |-> "pinned", verifyLock |-> 0, verify |-> 0, evidence |-> "absent", dod |-> 0,
   writes |-> TRUE, report |-> DoneReport, left |-> NoReport]

(* A reference for write scopes: the name is cut into one piece for each   *)
(* segment of the pattern.                                                 *)
Covers(pattern, name) ==
  \E cut \in [0..Len(pattern) -> 0..Len(name)] :
     /\ cut[0] = 0 /\ cut[Len(pattern)] = Len(name)
     /\ \A i \in 1..Len(pattern) :
          /\ cut[i - 1] <= cut[i]
          /\ pattern[i] = "**" => i < Len(pattern) \/ cut[i - 1] < cut[i]
          /\ pattern[i] # "**" => cut[i] = cut[i - 1] + 1 /\ pattern[i] \in {"*", name[cut[i]]}
InScope(f, scope) == \E pattern \in scope : Covers(pattern, f)

(* Deliveries: over a fresh branch or one that an earlier execution of the *)
(* task committed to, the coder says the truth or not.                     *)
Answers(files) ==
  <<Answer("completed", files, "passed"), Answer("completed", files \ {Deep}, "skipped"), Answer("completed", files, "failed"),
    Answer("blocked", files, "failed"), [Answer("blocked", files, "failed") EXCEPT !.prerequisites = TRUE],
    [Answer("completed", files, "passed") EXCEPT !.artifacts = {[Artifact EXCEPT !.inside = FALSE]}]>>
Delivery(task, wt, answer, test, source) ==
  [task |-> task, wt |-> wt, result |-> answer, runs |-> Runs(test), source |-> source, gate |-> PassingGate]
Starts == {<<scope, earlier>> \in Scopes \X {{}, {Run, Deep}, {Up, Down}} : \A f \in earlier : InScope(f, scope)}
DeliveryQuestions(n) ==
  {LET tree == IF edits[1] THEN Content(edits[2], 2) ELSE Content(start[2], 1) IN
   Delivery(Task(start[1], migration, contracts, {"go test"}), Worktree(Content(start[2], 1), tree),
            Answers({f \in Paths : tree[f] # 0})[n], test, Quiet) :
     start \in Starts, edits \in BOOLEAN \X SUBSET Paths, migration \in BOOLEAN, contracts \in BOOLEAN, test \in Tests}
OddQuestions ==
  {Delivery(Task({<<"src", "*">>}, FALSE, FALSE, {command}), wt, Answer("completed", {Run}, "passed"), Ran("pass", {}), source) :
     command \in {"go test", "make"}, source \in {Quiet, [Quiet EXCEPT !.moved = TRUE], [Quiet EXCEPT !.dirty = TRUE]},
     wt \in {Worktree(Content({}, 0), Content({Run}, 2)), [Worktree(Content({}, 0), Content({Run}, 2)) EXCEPT !.ours = FALSE],
             [Worktree(Content({}, 0), Content({Run}, 2)) EXCEPT !.planned = FALSE]}}

(* Gates over work that passes everything else: what the runner says of    *)
(* this commit, or said of another one, and how its commands end.          *)
Blocker(code, severity) == [code |-> code, severity |-> severity]
Blockers == {Blocker(code, severity) : code \in {"DOD_BUSINESS_ACCEPTANCE_PENDING", "MISSING_TEST"}, severity \in {"PENDING", "BLOCKING"}}
Reports ==
  {RunnerReport(lifecycle, acceptance, blockers) :
     lifecycle \in {"DONE", "BLOCKED", "BUSINESS_ACCEPTANCE_PENDING", "ALMOST"}, acceptance \in {"NOT_REQUIRED", "EVIDENCE_PRESENT", "PENDING", "none"},
     blockers \in {b \in SUBSET Blockers : Cardinality(b) <= 2}} \cup {NoReport, [DoneReport EXCEPT !.ofBase = FALSE], [DoneReport EXCEPT !.schema = FALSE]}
Work == Delivery(Task({<<"src", "*">>}, FALSE, FALSE, {"go test"}), Worktree(Content({}, 0), Content({Run}, 2)), Answer("completed", {Run}, "passed"), Ran("pass", {}), Quiet)
GateQuestions(verify) ==
  {[Work EXCEPT !.gate = [PassingGate EXCEPT !.verify = verify, !.dod = dod, !.evidence = evidence, !.writes = writes, !.report = report, !.left = left]] :
     dod \in {0, 1, 2}, evidence \in {"absent", "present", "unsafe"}, writes \in BOOLEAN, report \in Reports,
     left \in {NoReport, [DoneReport EXCEPT !.head = Content({Run}, 1)], [DoneReport EXCEPT !.head = Content({Run}, 2)]}}
PinQuestions ==
  {[Work EXCEPT !.gate = [PassingGate EXCEPT !.run = run, !.full = full, !.lock = lock, !.bundle = bundle, !.verifyLock = code]] :
     run \in {"r", ""}, full \in BOOLEAN, lock \in {"pinned", "other", "missing"}, bundle \in {"pinned", "other", "missing"}, code \in {0, 1}}

-----------------------------------------------------------------------------
(* The write scopes of completed work are as the reference above reads     *)
(* them, and the migrations and contracts of these paths are committed.    *)
ScopesAreMeant(q, answer) ==
  answer.outcome = "completed" =>
    /\ \A f \in Committed(answer) : InScope(f, q.task.scope)
    /\ q.task.migration => {Up, Down} \subseteq Committed(answer)
    /\ q.task.contracts => Api \in Committed(answer)

-----------------------------------------------------------------------------
(* Small catalogs, repositories and plans for AgentControl: one Go profile *)
(* whose domain route may lie or depend wrongly, a repository an owner     *)
(* edited at any of three looks, and tasks of every weight.                *)
Agents == INSTANCE AgentControl
RouteOf(id, target) ==
  [id |-> id, targets |-> {target}, candidates |-> {}, evidence |-> TRUE, verification |-> {"build"}, surface |-> <<>>,
   package |-> "", values |-> <<>>, mayUse |-> <<>>]
GoRoutes(surface, targets, uses) ==
  <<[RouteOf("domain", <<"internal", "domain", "*">>) EXCEPT !.targets = targets, !.surface = surface, !.package = "domain"],
    [RouteOf("usecase", <<"internal", "usecase", "*">>) EXCEPT !.mayUse = uses], RouteOf("store", <<"internal", "store">>), RouteOf("composition", <<"cmd">>)>>
GoProfile(surface, targets, uses, owners) ==
  [schema |-> 1, id |-> "go.canonical", language |-> "go", stack |-> "go", directory |-> <<>>, shape |-> {<<"go.mod">>}, composition |-> {<<"cmd">>},
   routes |-> GoRoutes(surface, targets, uses), ownership |-> <<[kind |-> "port", owners |-> owners, implementers |-> <<"store">>]>>, variants |-> {}]
NextProfile ==
  [schema |-> 1, id |-> "nextjs.common", language |-> "typescript", stack |-> "nextjs", directory |-> <<"src", "contracts">>, shape |-> {<<"app">>}, composition |-> {},
   routes |-> <<RouteOf("route", <<"app">>), RouteOf("ui", <<"src", "ui">>), RouteOf("bff", <<"src", "bff">>)>>, ownership |-> <<>>,
   variants |-> {[id |-> v, hints |-> {"ui"}] : v \in {"student", "admin"}}]
GoodGo == GoProfile(<<"internal", "domain", "ports">>, {<<"internal", "domain", "*">>}, <<"domain">>, <<"domain">>)

Asset(id, kind, name, source, target, files) ==
  [id |-> id, kind |-> kind, name |-> name, version |-> "1", ownership |-> "MANAGED", source |-> <<"agent-system">> \o source, target |-> target, files |-> files,
   declared |-> "computed", regular |-> TRUE, small |-> TRUE, profiles |-> {"*"}, profile |-> <<>>]
Skill(name, text) == Asset("skill/" \o name, "skill", name, <<"skills", name>>, <<".agents", "skills", name>>, "SKILL.md" :> text @@ "notes.md" :> "fixed")
ProfileAsset(p) == [Asset("profile/" \o p.id, "profile", p.id, <<"profiles", p.id>>, <<".agents", "profiles", p.id>>, p.id :> p.id) EXCEPT !.profile = p]
GlobalPolicy == Asset("global-policy", "global_policy", "", <<"AGENTS">>, <<"~", ".codex", "AGENTS.md">>, "AGENTS.md" :> "rules")
Assets(go, text) == {GlobalPolicy, Skill("task-route", text), Skill("contract-plan", "fixed"), ProfileAsset(go), ProfileAsset(NextProfile)}
Manifest(assets) == [schema |-> 1, assets |-> assets]

Surfaces == {<<>>, <<"internal", "domain">>, <<"internal", "domain", "ports">>, <<"pkg">>, <<"internal", "..", "pkg">>}
TargetSets == {{<<"internal", "domain", "*">>}, {<<"internal", "*">>}, {<<"*">>}, {<<"internal", "domain", "ports">>}}
Profiles ==
  {GoProfile(surface, targets, uses, owners) :
     surface \in Surfaces, targets \in TargetSets, uses \in {<<>>, <<"domain">>, <<"usecase">>, <<"domain", "domain">>}, owners \in {<<"domain">>, <<"store">>, <<"domain", "domain">>}}
Nested == [Skill("inner", "text") EXCEPT !.target = <<".agents", "skills", "task-route", "inner">>]
Catalogs ==
  {Manifest(Assets(p, "new")) : p \in Profiles} \cup
  {Manifest(Assets(GoodGo, "new") \cup {more}) : more \in {Nested, [Skill("other", "text") EXCEPT !.target = <<".agents", "skills", "task-route">>],
     [Skill("inner", "text") EXCEPT !.declared = "other"], Skill("inner", "text"), [Skill("inner", "text") EXCEPT !.source = <<"agent-system", ".ai", "inner">>]}}

(* What may lie at the target of the one skill that changed, and what the  *)
(* repository remembers of the last distribution.                          *)
Catalog == [assets |-> {GlobalPolicy, Skill("task-route", "new"), Skill("contract-plan", "fixed")}, profiles |-> {}]
Old == Skill("task-route", "old")
Bytes(text) == "SKILL.md" :> text @@ "notes.md" :> "fixed"
Present(files) == [exists |-> TRUE, unsafe |-> FALSE, files |-> files]
Gone == [exists |-> FALSE, unsafe |-> FALSE, files |-> << >>]
Looks == {Gone, Present(Bytes("old")), Present(Bytes("new")), Present(Bytes("mine")), Present("SKILL.md" :> "old"), [Present(<< >>) EXCEPT !.unsafe = TRUE]}
Entries ==
  {{}, {Agents!EntryOf(Old)}, {[Agents!EntryOf(Old) EXCEPT !.ownership = "LOCAL"]}, {[Agents!EntryOf(Old) EXCEPT !.target = <<".agents", "skills", "moved">>]},
   {Agents!EntryOf(Old), Agents!EntryOf(Skill("retired", "text"))}, {Agents!EntryOf(Old), [Agents!EntryOf(Old) EXCEPT !.version = "0"]}}
AgentRepository(look, entries, revision) ==
  [revision |-> revision, assets |-> "skill/task-route" :> look @@ "skill/contract-plan" :> Present(Bytes("fixed")),
   provenance |-> [exists |-> entries # {}, schema |-> 1, ownership |-> "GENERATED", entries |-> entries]]
DistributeQuestions(a) ==
  {[catalog |-> Catalog, seen |-> AgentRepository(a, entries, 1), first |-> AgentRepository(b, entries, 1), second |-> AgentRepository(c, later, revision)] :
     b \in Looks, c \in Looks, entries \in Entries, later \in Entries, revision \in {0, 1, 2}}

Weights == [risk : {"low", "medium", "high"}, migration : BOOLEAN, contracts : BOOLEAN]
TaskQuestions(n) == [1..n -> IF n <= 2 THEN Weights ELSE {t \in Weights : ~t.migration /\ ~t.contracts}]
=============================================================================
