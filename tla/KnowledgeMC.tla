------------------------------ MODULE KnowledgeMC ------------------------------
(***************************************************************************)
(* The planner and what the orchestrator knows of the repositories, asked  *)
(* one question at a time: every state after the first holds a question    *)
(* out of a small family, and the invariants compare the answer of the     *)
(* code with what it promises.  Instead of asking, the first state may run *)
(* the publication of manifest files in a checkout, or the generations of  *)
(* a plan's run, which share no state with the rest, step by step.         *)
(***************************************************************************)
EXTENDS Knowledge, RunGenerations

Plans == INSTANCE PlanningCases
Maps == INSTANCE CatalogCases
Cases == INSTANCE ManifestCases

MCTrees == Cases!FoundTrees
MCReport == Cases!Discovered
MCTexts == Cases!EditorTexts

(* First a topic is chosen, then one of its questions is asked.            *)
Topic(topic) == [about |-> "nothing", q |-> topic]
Stands(topic) == About("nothing") /\ question.q = topic
Ask(about, questions) == Stands(about) /\ \E q \in questions : question' = [about |-> about, q |-> q]

(* A domain with ports, a use case with an interface file of its own, a    *)
(* store without a contract surface.                                       *)
Port == "repository-port"
App == "application-command-result"
GoProfile ==
  [language |-> "go", routes |-> {"domain", "usecase", "store"}, directory |-> {},
   surface |-> [domain |-> {"ports"}, usecase |-> {"app"}, store |-> {}],
   candidates |-> [domain |-> {}, usecase |-> {"legacy"}, store |-> {}],
   fileOf |-> [domain |-> (Port :> "ports" @@ App :> "ports"), usecase |-> (Port :> "app" @@ App :> "app"), store |-> (Port :> "store" @@ App :> "store")],
   package |-> [domain |-> "ports", usecase |-> "app", store |-> "store"],
   mayUse |-> [domain |-> {}, usecase |-> {"domain"}, store |-> {"domain"}],
   values |-> [domain |-> {"ErrMissing"}, usecase |-> {"ErrMissing"}, store |-> {}], standard |-> TRUE, thirdParty |-> FALSE]
TSProfile == [GoProfile EXCEPT !.language = "typescript", !.directory = {"ports", "app", "legacy"}, !.fileOf = (Port :> "ports" @@ App :> "app")]

Decl(sort, name, body) == [sort |-> sort, name |-> name, body |-> body]
Type(name, methods, embeds) == Decl("type", name, [methods |-> methods, embeds |-> embeds])
Import(kind, matches) == [kind |-> kind, matches |-> matches, declared |-> TRUE, allowed |-> kind = "std"]
File(package, imports, decls) ==
  [kind |-> "file", ext |-> TRUE, parses |-> TRUE, small |-> TRUE, secret |-> FALSE, directive |-> FALSE, regular |-> TRUE,
   package |-> package, imports |-> imports, decls |-> decls]
Match(route, length) == [route |-> route, length |-> length]

(* What the agent may leave where the port was planned, and what the       *)
(* legacy interface of the use case was and may become.                    *)
PortFiles ==
  {Absent, renderSkeleton(GoProfile, [owner |-> "domain", kind |-> Port]),
   renderSkeleton(TSProfile, [owner |-> "domain", kind |-> Port]),
   File("ports", {}, <<Type(Port, FALSE, {"Reader"}), Type("Reader", TRUE, {})>>),
   File("ports", {Import("std", {})}, <<Type(Port, TRUE, {}), Decl("var", "ErrMissing", "errors.New")>>),
   File("ports", {Import("module", {Match("usecase", 2), Match("domain", 1)})}, <<Type(Port, TRUE, {})>>),
   File("ports", {Import("module", {Match("usecase", 1), Match("domain", 1)})}, <<Type(Port, TRUE, {})>>),
   File("ports", {Import("third", {})}, <<Type(Port, TRUE, {})>>),
   File("ports", {}, <<Type(Port, TRUE, {}), Decl("func", "New", "body")>>),
   File("app", {}, <<Type(Port, TRUE, {})>>),
   [File("ports", {}, <<Type(Port, TRUE, {})>>) EXCEPT !.secret = TRUE],
   [File("ports", {}, <<Type(Port, TRUE, {})>>) EXCEPT !.regular = FALSE]}
Legacy(imports, more) == File("legacy", imports, <<Type(App, TRUE, {}), Decl("func", "init", "one")>> \o more)
LegacyFiles ==
  {Absent, Legacy({}, <<>>), Legacy({Import("module", {Match("domain", 1)})}, <<Type("Extra", TRUE, {})>>),
   Legacy({}, <<Decl("func", "init", "two")>>), Legacy({}, <<Decl("var", "ErrOther", "errors.New")>>),
   Legacy({}, <<Decl("var", "ErrMissing", "errors.New")>>), Legacy({}, <<Decl("var", "ErrMissing", "other")>>),
   File("legacy", {}, <<Type(App, TRUE, {})>>), File("other", {}, <<Type(App, TRUE, {})>>),
   [Legacy({}, <<>>) EXCEPT !.secret = TRUE]}
StoreFile == File("store", {}, <<Decl("func", "Save", "one")>>)

Shown == [path |-> "legacy", symbol |-> App, local |-> TRUE, kind |-> "source"]
Wanted(kind, owner, existing, target) ==
  [kind |-> kind, owner |-> owner, existing |-> existing, target |-> target, local |-> TRUE, shown |-> Shown]
BoundaryPlans ==
  {<<Wanted(Port, "domain", FALSE, "ports")>>, <<Wanted(App, "usecase", TRUE, "")>>,
   <<Wanted(Port, "domain", FALSE, ""), Wanted(App, "usecase", TRUE, "legacy")>>,
   <<Wanted(Port, "domain", FALSE, ""), Wanted(App, "store", FALSE, "")>>,
   <<Wanted(Port, "domain", FALSE, "app")>>, <<Wanted(Port, "domain", FALSE, ""), [Wanted(App, "usecase", TRUE, "") EXCEPT !.local = FALSE]>>}

Tree(ports, legacy, store) == [ports |-> ports, app |-> Absent, legacy |-> legacy, store |-> store]
Facts == [approvedPlan |-> 1, plan |-> 1, profile |-> 1, revision |-> 1]
Freeze(profile, boundaries, base, result) ==
  [profile |-> profile, boundaries |-> boundaries, base |-> base, tree |-> result,
   commit |-> [sha |-> TRUE, parents |-> 1, childOfBase |-> TRUE, tree |-> result], now |-> Facts,
   baseline |-> [approvedPlan |-> 1, plan |-> 1, profile |-> 1, revision |-> 1, files |-> {}, aggregate |-> {}, refs |-> {},
                 evidence |-> {"agent", "mechanical", "verification", "review"}]]
FreezeQuestions(profile, plan) ==
  {Freeze(profile, plan, Tree(before, legacy, StoreFile), Tree(ports, edited, store)) :
     before \in {Absent, renderSkeleton(GoProfile, [owner |-> "domain", kind |-> Port]), File("ports", {}, <<Type(Port, TRUE, {})>>)},
     legacy \in {Absent, Legacy({}, <<>>), Legacy({}, <<Decl("func", "init", "two")>>), [Legacy({}, <<>>) EXCEPT !.secret = TRUE]},
     ports \in PortFiles, edited \in LegacyFiles, store \in {StoreFile, Absent}}

(* A service with a manifest that cites its source, a policy, a captured   *)
(* graph and a file nobody may read; a neighbour with one external source. *)
Text(path, text, kind) ==
  [source |-> "own", path |-> path, text |-> text, kind |-> kind, secret |-> FALSE, readable |-> TRUE, regular |-> TRUE, parses |-> TRUE,
   symbols |-> << >>, cites |-> {}]
Code(text) == [Text("code", text, "source") EXCEPT !.symbols = ("Run" :> <<1, 1>>)]
CodeV1 == Code(<<"run", "body">>)
Pin == [path |-> "code", text |-> CodeV1.text]
Manifest == [Text("manifest", <<"declares">>, "manifest") EXCEPT !.cites = {Pin}]
Graph == [Text("graph", <<"nodes">>, "diagram") EXCEPT !.cites = {Pin}]
Rules == Text("rules", <<"must">>, "doc")
CodeFiles ==
  {<<CodeV1>>, <<Code(<<"run", "other">>)>>, <<>>, <<[CodeV1 EXCEPT !.secret = TRUE]>>, <<[CodeV1 EXCEPT !.readable = FALSE]>>,
   <<[CodeV1 EXCEPT !.text = <<"run", "b", "c", "d", "e">>]>>}
Far == [Text("code", <<"far">>, "source") EXCEPT !.source = "next"]
World(code) == <<Graph, Manifest>> \o code \o <<Rules, Text(".env", <<"key">>, "doc"), Far>>

Own == [id |-> "own", read |-> {"code", "manifest", "graph", "rules", ".env", "gone"}, exclude |-> {}, external |-> FALSE, dirty |-> FALSE]
Neighbour == [Own EXCEPT !.id = "next", !.read = {"code"}, !.external = TRUE]
Facet(id, path, query, claim, value) ==
  [id |-> id, source |-> "own", path |-> path, symbol |-> "", query |-> query, kind |-> "source", hash |-> <<>>, required |-> TRUE,
   claim |-> [type |-> claim, key |-> IF value = "" THEN "" ELSE "Run", value |-> value]]
AskCode == Facet("code", "code", "exact", "behavior", "one")
AskAPI == Facet("api", "manifest", "metadata", "api", "two")
AskManifest == [Facet("manifest", "manifest", "metadata", "ownership", "") EXCEPT !.required = FALSE]
AskSymbol == [Facet("symbol", "code", "contract", "api", "") EXCEPT !.symbol = "Run"]
AskGraph == Facet("graph", "graph", "architecture", "rule", "")
AskNext == [Facet("next", "code", "exact", "behavior", "") EXCEPT !.source = "next"]
AskGone == Facet("gone", "gone", "exact", "behavior", "")
AskEnv == [Facet("env", ".env", "exact", "behavior", "") EXCEPT !.required = FALSE]
Policy == [id |-> "policy", source |-> "own", path |-> "rules", text |-> Rules.text, everywhere |-> FALSE, scope |-> {"code"}]

Limits == [totalBytes |-> 20, fileBytes |-> 4, results |-> 3, depth |-> 1]
Budget == [bytes |-> 8, tokens |-> 40, reserve |-> 2, perSource |-> 0, perFacet |-> 0]
PackRequests ==
  {[sources |-> <<Own, Neighbour>>, facets |-> facets, policies |-> policies, routed |-> TRUE, ownerReview |-> FALSE,
    limits |-> [Limits EXCEPT !.results = results, !.totalBytes = total], budget |-> [Budget EXCEPT !.bytes = bytes]] :
     facets \in {<<AskCode>>, <<AskCode, AskManifest>>, <<AskCode, AskAPI>>, <<AskSymbol, AskCode>>, <<AskGraph>>, <<AskCode, AskGone>>, <<AskEnv, AskNext>>},
     policies \in {{}, {Policy}, {[Policy EXCEPT !.text = <<"may">>]}, {[Policy EXCEPT !.everywhere = TRUE]}},
     results \in {1, 3}, total \in {2, 20}, bytes \in {2, 8}}
NoLimit == [bytes |-> 0, tokens |-> 0, perFacet |-> 0, perSource |-> 0]
Asks == {[facet |-> f, remaining |-> left] : f \in {AskNext, AskManifest, AskCode, AskEnv}, left \in {NoLimit, [NoLimit EXCEPT !.bytes = 1]}}

(* The code changes before one of the loads, or not at all.                *)
Changes == {<<World(<<CodeV1>>), World(<<CodeV1>>), World(<<CodeV1>>), World(<<CodeV1>>)>>} \cup
           {[n \in 1..4 |-> IF n < k THEN World(<<CodeV1>>) ELSE World(code)] : k \in 1..4, code \in CodeFiles}
PackQuestions(trees) == {[request |-> r, trees |-> trees] : r \in PackRequests}

(* The base of an expansion, grown once before or not, and forged or not.  *)
Edited(pack) == [pack EXCEPT !.evidence = [i \in DOMAIN @ |-> [@[i] EXCEPT !.required = ~@]]]
Packs(x) == IF x.ok THEN {x.pack} ELSE {}
GrownOnce(r, ask, first) == Packs(first) \cup Packs(ExpandOnce(r, first.pack, ask, World(<<CodeV1>>), World(<<CodeV1>>)))
WithForged(packs) == packs \cup {Edited(pack) : pack \in packs}
Bases(r, ask) == WithForged(GrownOnce(r, ask, Prepare(r, World(<<CodeV1>>), World(<<CodeV1>>))))
ExpandRequests == {r \in PackRequests : r.limits.results = 3 /\ r.limits.totalBytes = 20 /\ r.facets \in {<<AskCode>>, <<AskCode, AskManifest>>, <<AskGraph>>}}
ExpandQuestions(r, ask) ==
  {[request |-> r, trees |-> trees, ask |-> ask, base |-> base] : trees \in {t \in Changes : t[1] = World(<<CodeV1>>)}, base \in Bases(r, ask)}
Lines == <<"a", "b", "a", "b", "c">>
MergeQuestions == {[text |-> Lines, a |-> a, b |-> b] : a, b \in {s \in (1..5) \X (1..5) : s[1] <= s[2]}}

Topics ==
  {"planner", "agent", "routing", "freeze", "pack", "expand", "merge", "distribute", "catalog",
   "tasks", "manifests", "verify", "topology", "maps", "counts", "export", "fleet", "work"}

KnowledgeInit == question = Topic("") /\ Init /\ GenInit
AtRest == vars = <<<< >>, Idle, << >>, 0>>
NoRun  == row.gen = 0
Chosen == /\ AtRest /\ NoRun /\ UNCHANGED <<vars, genVars>>
          /\ \E topic \in Topics : Stands("") /\ question' = Topic(topic)
Asked == /\ UNCHANGED <<vars, genVars>>
         /\ \/ Ask("planner", Plans!PlannerQuestions)
            \/ Ask("planner", Plans!ChoiceQuestions)
            \/ \E n \in 1..2, risk \in {"low", "critical"} : Ask("agent", Plans!AgentQuestions(n, risk))
            \/ \E word \in Plans!Words : Ask("routing", Plans!RoutingQuestions(word)) \/ Ask("routing", Plans!SharedQuestions(word))
            \/ \E profile \in {GoProfile, TSProfile}, plan \in BoundaryPlans : Ask("freeze", FreezeQuestions(profile, plan))
            \/ \E trees \in Changes : Ask("pack", PackQuestions(trees))
            \/ \E r \in ExpandRequests, ask \in Asks : Ask("expand", ExpandQuestions(r, ask))
            \/ Ask("merge", MergeQuestions)
            \/ \E look \in Plans!Looks : Ask("distribute", Plans!DistributeQuestions(look))
            \/ Ask("catalog", Plans!Catalogs)
            \/ \E n \in 1..4 : Ask("tasks", Plans!TaskQuestions(n))
            \/ Ask("manifests", Cases!ManifestQuestions)
            \/ Ask("verify", Cases!VerifyQuestions)
            \/ Ask("topology", Maps!TopologyQuestions)
            \/ Ask("maps", Maps!CatalogQuestions)
            \/ Ask("counts", Maps!CountQuestions)
            \/ Ask("export", Maps!ExportQuestions)
            \/ Ask("fleet", Maps!FleetQuestions)
            \/ \E n \in 1..6 : Ask("work", Plans!DeliveryQuestions(n))
            \/ Ask("work", Plans!OddQuestions)
            \/ \E verify \in {0, 1} : Ask("work", Plans!GateQuestions(verify))
            \/ Ask("work", Plans!PinQuestions)
MovePublication == Stands("") /\ NoRun /\ Next /\ UNCHANGED <<question, genVars>>
MoveRun == Stands("") /\ AtRest /\ GenNext /\ UNCHANGED <<question, vars>>
KnowledgeNext == Chosen \/ Asked \/ MovePublication \/ MoveRun
KnowledgeSpec == KnowledgeInit /\ [][KnowledgeNext]_<<question, vars, genVars>> /\ Fairness
(* The planner's draft is acceptable, respects the relations and chooses   *)
(* the right projects (planner.go against validator.go).                   *)
DraftsAreAcceptable == About("planner") => Plans!DraftIsAcceptable(question.q)
(* No ordering relation is lost except to break a cycle (planDependencies).*)
DraftsRespectRelations == About("planner") => Plans!RelationsAreRespected(question.q)
(* The selection is closed (selectProjects, includeRelatedProjects).       *)
ChoicesAreClosed == About("planner") => Plans!ChoiceIsClosed(question.q)
(* The checks of a task can be trusted (verificationCommands, taskRole).    *)
ChecksCanBeTrusted == About("planner") => Plans!ChecksAreTrusted(question.q)
(* The agent refines, it does not weaken (refinePlannerOutput).            *)
RefinementsAreSound == About("agent") => LET q == question.q IN Plans!RefinementIsSound(q.request, q.answer, Plans!Build(q.request), Plans!AgentBuild(q.request, q.answer))
(* Only a contradictory answer is refused (refinePlannerOutput).           *)
AcyclicAnswersAreTaken == About("agent") => Plans!AcyclicAnswerIsTaken(question.q.request, question.q.answer, Plans!Build(question.q.request))
(* What the router builds, the gate accepts (routing.go, validator.go).    *)
RoutingsPass == About("routing") => Plans!RoutingPasses(question.q, Plans!buildRoutingMetadata(question.q))
(* Exclusions hold (analyzeRouteCandidate, selectEvidenceBackedRoutes).    *)
ExclusionsAreKept == About("routing") => Plans!ExclusionsHold(question.q)
(* Boundaries are owned in one project (resolveContractOwner).             *)
BoundariesAreOwned == About("routing") => Plans!BoundariesAreLocal(question.q)
(* Loaded catalogs can plan their boundaries (ValidateProfile).            *)
CatalogsCanPlan == About("catalog") => Assets!LoadedCatalogsPlan(question.q)
(* Planner and reviewer agree on what is critical (agentpolicy.Router).    *)
PlannersMatch == About("tasks") => Assets!PlannersMatchReviews(question.q)
(* What was planned as a scope is verified as that scope (matchScope).     *)
ScopesAreRead == About("work") => Plans!ScopesAreMeant(question.q, Plans!Deliver(question.q))
(* Scaffold, reconcile, draw and audit agree (audit.go).                   *)
ManifestToolsAgree == About("manifests") => Cases!ToolsAgree(question.q.tree, question.q.report)
(* Reconciling owns only what was generated (isReconcileScaffold).         *)
ReconcileKeepsAuthored == About("manifests") => Cases!AuthoredStays(question.q.tree, question.q.report)
(* An unchanged platform keeps its topology (topology.Builder.Build).      *)
TopologiesAreStable == About("topology") => Maps!IsStable(question.q)
(* No consumer is silent (buildRelations, buildDrifts).                    *)
ConsumersAreSeen == About("topology") => Maps!ConsumerIsSeen(question.q)
(* Catalog and auditor count alike (applyDiscoveredOperations).            *)
CountsAgree == About("counts") => Maps!CountsAreAudited(question.q.tree, question.q.report)

(* A plan that is stored was drafted in the order of its relations, keeps  *)
(* its projects under any answer of the planner-agent, is routed on        *)
(* evidence, and passes the gate that derives all of this again; and the   *)
(* work on it is measured by the scopes it was planned with.               *)
PlanningIsSound ==
  /\ DraftsAreAcceptable /\ DraftsRespectRelations /\ ChoicesAreClosed /\ ChecksCanBeTrusted
  /\ RefinementsAreSound /\ AcyclicAnswersAreTaken
  /\ RoutingsPass /\ ExclusionsAreKept /\ BoundariesAreOwned
  /\ CatalogsCanPlan /\ PlannersMatch /\ ScopesAreRead

(* The tools that derive the same facts, from reports and from manifests,  *)
(* agree and have nothing more to do once they are done: scaffold,         *)
(* reconcile, draw and audit, also after an interruption; the catalog's    *)
(* counts and the auditor's; and the topology of an unchanged platform.    *)
ToolsConverge ==
  /\ ManifestToolsAgree /\ ReconcileKeepsAuthored /\ InterruptedResumes
  /\ CountsAgree /\ TopologiesAreStable /\ ConsumersAreSeen
=============================================================================
