---------------------------- MODULE ManifestCases ----------------------------
(***************************************************************************)
(* Small checkouts for the manifest tools: a route that may be gone, be    *)
(* new, be authored or belong to another service, a worker, and services   *)
(* that list and group them in different ways.                             *)
(***************************************************************************)
EXTENDS ArchitectureManifests

Key(name) == [method |-> "GET", path |-> name]
Evidence(source) == {[source |-> source, first |-> 0, last |-> 0]}
Found(type, key, source) == [type |-> type, key |-> key, source |-> source]
Route(name) == Found("http", Key(name), "router.go")
Job(name) == Found("worker", [method |-> "", path |-> name], "jobs.go")
ReportOf(operations) == [operations |-> operations, project |-> "svc", fresh |-> TRUE, warnings |-> FALSE]

Scaffolded(name) == scaffoldHTTPManifest("svc", scaffoldOperationID(Key(name)), Key(name), Evidence("router.go"))
Authored(name) == [Scaffolded(name) EXCEPT !.statements = {[value |-> "what it is for", confidence |-> 90, evidence |-> Evidence("handler.go")]}]
Worker(name) ==
  [Authored(name) EXCEPT !.id = "job", !.type = "worker", !.transport = "worker", !.parts = {"worker"}, !.key = [method |-> "", path |-> name], !.evidence = Evidence("jobs.go")]
PathOf(name) == <<"endpoints", scaffoldOperationID(Key(name))>>
WorkerPath == <<"operations", "job">>
Drawing(op) == [kind |-> "diagram", of |-> {op}]

(* A service that lists the paths, and groups the ids they have.           *)
Listing(files, paths, groups) ==
  [scaffoldHTTPService("svc", paths, {"x"}, Evidence("router.go")) EXCEPT !.groups =
     IF groups = "one" THEN <<[id |-> "all", ops |-> {files[p].id : p \in paths}]>>
     ELSE SelectSeq(<<[id |-> "http-reconciled", ops |-> {files[p].id : p \in {x \in paths : files[x].type # "http"}}],
                      [id |-> "web", ops |-> {files[p].id : p \in {x \in paths : files[x].type = "http"}}]>>, LAMBDA g : g.ops # {})]
Optional(path, contents) == IF contents = {} THEN << >> ELSE path :> (CHOOSE x \in contents : TRUE)
Files(a, b, job) ==
  Optional(PathOf("/a"), a) @@ Optional(<<"endpoints", "hand">>, b) @@ Optional(WorkerPath, job)
Checkout(files, groups, forgets, drawing) ==
  LET listed == DOMAIN files \ forgets
      service == IF groups = "none" THEN << >> ELSE Service :> Listing(files, listed, groups)
  IN  service @@ files @@ Optional(Diagram(PathOf("/a")), drawing)
Checkouts ==
  {Checkout(Files(a, b, job), groups, forgets, drawing) :
     a \in {{}, {Scaffolded("/a")}, {Authored("/a")}, {[Scaffolded("/a") EXCEPT !.service = "other"]}}, b \in {{}, {[Authored("/b") EXCEPT !.id = "hand"]}},
     job \in {{}, {Worker("sweep")}}, groups \in {"none", "one", "two"}, forgets \in {{}, {WorkerPath}, {PathOf("/a")}},
     drawing \in {{}, {Drawing(Scaffolded("/a"))}, {Drawing(Authored("/a"))}}}
Reports ==
  {ReportOf(operations) : operations \in {<<>>, <<Route("/a")>>, <<Route("/b")>>, <<Route("/a"), Route("/b")>>, <<Route("/c"), Route("/b")>>,
                                           <<Route("/a"), [Route("/a") EXCEPT !.key.method = "TRACE"]>>}} \cup
  {[ReportOf(<<Route("/a")>>) EXCEPT !.warnings = TRUE]}
ManifestQuestions == {[tree |-> t, report |-> r] : t \in Checkouts, r \in Reports}

(* A job may have been renamed in its manifest.                            *)
JobFiles(names) == [p \in {<<"operations", n>> : n \in names} |-> [Worker(p[2]) EXCEPT !.id = p[2]]]
MatchQuestions ==
  {[tree |-> Checkout(JobFiles(names), "one", {}, {}), report |-> ReportOf(jobs)] :
     names \in {{"sweep"}, {"sweep", "clean"}, {"nightly"}}, jobs \in UNION {[1..n -> {Job("sweep"), Job("clean")}] : n \in 1..2}}

Drawn(tree) == AllApplied(tree, GenerateFiles(tree).files)
Whole == Drawn(Checkout(Files({Scaffolded("/a")}, {}, {}), "one", {}, {}))
Root ==
  [canonical |-> "one", git |-> TRUE, worktree |-> TRUE, scans |-> TRUE, gitAfter |-> TRUE, before |-> 1, after |-> 1, changes |-> {}, truncated |-> FALSE,
   safe |-> TRUE, tree |-> Whole, report |-> ReportOf(<<Route("/a")>>)]
Roots ==
  {Root, [Root EXCEPT !.git = FALSE], [Root EXCEPT !.worktree = FALSE], [Root EXCEPT !.scans = FALSE], [Root EXCEPT !.gitAfter = FALSE],
   [Root EXCEPT !.after = 2], [Root EXCEPT !.truncated = TRUE], [Root EXCEPT !.report.warnings = TRUE], [Root EXCEPT !.report.operations = <<Route("/c")>>],
   [Root EXCEPT !.tree = << >>], [Root EXCEPT !.safe = FALSE], [Root EXCEPT !.changes = {<<".ai", "architecture", "service.mmd">>, <<"main.go">>}]}
VerifyQuestions == UNION {[1..n -> {[r EXCEPT !.canonical = c] : r \in Roots, c \in {"", "one", "two"}}] : n \in 1..2}

(* For publication: a route is gone, one is authored, one is new.          *)
Discovered == ReportOf(<<Route("/b"), Route("/c"), Route("/d")>>)
Moved == Files({Scaffolded("/a")}, {[Authored("/b") EXCEPT !.id = "hand"]}, {Worker("sweep")})
FoundTrees == {<< >>, Checkout(Moved, "two", {}, {Drawing(Scaffolded("/a"))}), Checkout(Files({}, {}, {Worker("sweep")}), "one", {}, {})}
EditorTexts == {{}, {[kind |-> "text", of |-> {}]}}
=============================================================================
