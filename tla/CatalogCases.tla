------------------------------ MODULE CatalogCases ------------------------------
(***************************************************************************)
(* Small fleets for the catalog: a service of orders that uses, hears and  *)
(* calls, a service of users that serves and publishes, and a third one    *)
(* that may serve the same, have the same name or have no manifest; and    *)
(* small platforms for the topology.                                       *)
(***************************************************************************)
EXTENDS CatalogExport, ManifestCases, TopologyBuilder

Http == <<"http", "GET /users">>
Other == <<"http", "GET /other">>
UserCreated == <<"nats", "user.created">>
Operation(id, service, type, path) ==
  [id |-> id, service |-> service, type |-> type, key |-> [method |-> "", path |-> path], evidence |-> Evidence(id), interactions |-> {}, emitted |-> {}]
Hearing(service) == Operation("hear", service, "nats_event_subscriber", "user.created")
Emitting(service) == [Operation("emit", service, "worker", "sweep") EXCEPT !.emitted = {UserCreated}]
Interaction(target, transport, sure) ==
  [target |-> target, transport |-> transport, contract |-> "c", direction |-> IF transport = "unknown" THEN "unknown" ELSE "outbound", sure |-> sure, proven |-> TRUE]
Declared(id, operations) ==
  [id |-> id, name |-> id, declared |-> Len(operations), paths |-> {<<"operations", operations[i].id>> : i \in DOMAIN operations}, groups |-> <<[id |-> "all", ops |-> {operations[i].id : i \in DOMAIN operations}]>>,
   outbound |-> {}, produced |-> {}, consumed |-> {}, published |-> {}, subscribed |-> {}]
Metadata(kind, id, path) == [kind |-> kind, id |-> id, path |-> path, checksum |-> id]
Source(id, operations) ==
  [id |-> "project-" \o id, name |-> "repo-" \o id, identity |-> id, commit |-> "c1", head |-> "c1", covered |-> TRUE, service |-> Declared(id, operations),
   operations |-> operations, discovered |-> <<>>, metadata |-> <<Metadata("service", id, <<"service">>)>> \o [i \in DOMAIN operations |-> Metadata("operation", operations[i].id, <<"operations", operations[i].id>>)],
   sameProject |-> TRUE, sameCommit |-> TRUE, sameChecksum |-> TRUE, dirty |-> FALSE, stored |-> TRUE, pinned |-> FALSE, external |-> FALSE, snapshot |-> "s"]
Uncovered(s) == [s EXCEPT !.covered = FALSE, !.operations = <<>>, !.metadata = <<>>, !.service.id = "", !.service.name = "", !.service.declared = 0]

Orders == {[Source("orders", ops) EXCEPT !.service.consumed = c, !.service.subscribed = e, !.service.outbound = out] :
             ops \in {<<>>, <<Hearing("orders")>>, <<[Emitting("orders") EXCEPT !.interactions = {Interaction("unknown", "unknown", FALSE)}]>>},
             c \in {{}, {Http}}, e \in {{}, {UserCreated}}, out \in {{}, {Interaction("users", "http", TRUE)}}}
Users == {[Source("users", ops) EXCEPT !.service.produced = p, !.service.published = e] :
            ops \in {<<>>, <<Emitting("users")>>, <<Hearing("users")>>}, p \in {{}, {Http}, {Http, Other}}, e \in {{}, {UserCreated}}}
Thirds == {<<>>, <<[Source("mail", <<>>) EXCEPT !.service.produced = {Http}, !.external = TRUE]>>, <<[Source("mail", <<>>) EXCEPT !.service.name = "users", !.service.produced = {Other}]>>,
           <<Uncovered(Source("mail", <<>>))>>, <<[Source("mail", <<>>) EXCEPT !.identity = "users", !.service.id = "users"]>>}
CatalogQuestions ==
  {[i \in 1..(2 + Len(third)) |-> [(<<a, b>> \o third)[i] EXCEPT !.pinned = pinned]] : a \in Orders, b \in Users, third \in Thirds, pinned \in BOOLEAN}

(* Discoveries: a job that was renamed, one twice, one without a method.   *)
CountQuestions ==
  MatchQuestions \cup
  {[tree |-> Checkout(Files({Authored("/a")}, b, {Worker("sweep")}), "one", {}, {}), report |-> ReportOf(operations)] :
     b \in {{}, {[Authored("/a") EXCEPT !.id = "hand"]}, {[Authored("/b") EXCEPT !.id = "hand"]}},
     operations \in UNION {[1..n -> {Route("/a"), Route("/c"), Job("clean"), [Route("/a") EXCEPT !.key.method = "TRACE"], [Job("sweep") EXCEPT !.source = "main.go"]}] : n \in 1..3}}

(* Exports: one or two things wrong with either source.                    *)
Calling == [Source("orders", <<[Hearing("orders") EXCEPT !.interactions = {Interaction("users", "http", TRUE)}]>>) EXCEPT !.service.consumed = {Http}]
Wrong(s) ==
  {s, [s EXCEPT !.snapshot = "later"], [s EXCEPT !.head = "c2"], [s EXCEPT !.head = ""], [s EXCEPT !.dirty = TRUE], [s EXCEPT !.sameChecksum = FALSE], [s EXCEPT !.sameCommit = FALSE], [s EXCEPT !.stored = FALSE],
   [s EXCEPT !.commit = "c0", !.head = "c0"], [s EXCEPT !.metadata = Tail(@)], [s EXCEPT !.metadata = SubSeq(@, 1, 1)], [s EXCEPT !.metadata = @ \o <<@[1]>>], [s EXCEPT !.metadata[1].checksum = "changed"],
   [s EXCEPT !.service.declared = 3], [s EXCEPT !.service.groups = <<[id |-> "all", ops |-> {"gone"}]>>], [s EXCEPT !.service.outbound = {Interaction("postgres", "postgres", TRUE)}],
   [s EXCEPT !.discovered = <<Found("nats_event_subscriber", [method |-> "", path |-> "user.created"], "hear.go")>>], [s EXCEPT !.discovered = <<Route("/a")>>], [s EXCEPT !.external = TRUE], Uncovered(s)}
Blobs == {[identity |-> i, commit |-> "c1", path |-> p] : i \in {"orders", "users"}, p \in {<<"service">>, <<"operations", "hear">>, <<"operations", "emit">>}}
BlobOf(k) == IF k.path = <<"service">> THEN k.identity ELSE k.path[2]
Producer == [identity |-> "planner", commit |-> "p1"]
Inventory == [asked |-> TRUE, read |-> TRUE, pin |-> [identity |-> "planner", commit |-> "p1", path |-> <<"fleet">>, content |-> "fleet"],
              document |-> [content |-> "fleet", strict |-> TRUE, identities |-> <<1, 2>>], scope |-> {"orders", "users"}]
Requests == {Inventory, [Inventory EXCEPT !.asked = FALSE], [Inventory EXCEPT !.read = FALSE], [Inventory EXCEPT !.pin.commit = "p0"], [Inventory EXCEPT !.document.identities = <<2, 1>>],
             [Inventory EXCEPT !.scope = {"orders"}]}
ExportQuestions ==
  {[topology |-> [i \in 1..2 |-> [id |-> <<a, b>>[i].id, snapshot |-> "s"]], latest |-> (a.id :> a @@ b.id :> b), blobs |-> [k \in Blobs \ gone |-> BlobOf(k)], request |-> r, producer |-> Producer] :
     a \in Wrong(Calling), b \in Wrong([Source("users", <<Emitting("users")>>) EXCEPT !.service.produced = {Http}]),
     gone \in {{}, {[identity |-> "users", commit |-> "c1", path |-> <<"operations", "emit">>]}}, r \in Requests}

(* Fleets: a lock of the same two services and of an external owner.       *)
Locked(s) ==
  [identity |-> s.identity, commit |-> s.commit, serviceID |-> s.service.id, external |-> s.external,
   declarations |-> [i \in DOMAIN s.metadata |-> [path |-> s.metadata[i].path, content |-> s.metadata[i].checksum]]]
Contents(s) ==
  [k \in {[identity |-> s.identity, commit |-> s.commit, path |-> s.metadata[i].path] : i \in DOMAIN s.metadata} |->
     LET i == CHOOSE n \in DOMAIN s.metadata : s.metadata[n].path = k.path
     IN  [digest |-> s.metadata[i].checksum, kind |-> s.metadata[i].kind, value |-> IF i = 1 THEN s.service ELSE s.operations[i - 1]]]
WrongLock(repo) ==
  {repo, [repo EXCEPT !.declarations[1].path = <<".env">>], [repo EXCEPT !.declarations[1].content = "changed"], [repo EXCEPT !.declarations = Front(@)], [repo EXCEPT !.serviceID = "users"], [repo EXCEPT !.declarations = @ \o <<@[1]>>]}
Outbound == {{}, {Interaction("users", "http", TRUE)}} \cup {{Interaction("postgres", t, sure)} : t \in {"postgres", "unknown"}, sure \in BOOLEAN}
Owner == [Source("mail", <<>>) EXCEPT !.external = TRUE, !.service.outbound = {Interaction("nats", "nats", TRUE)}]
FleetQuestions ==
  UNION {{[fleet |-> <<lock, Locked(b)>> \o (IF external THEN <<Locked(Owner)>> ELSE <<>>), blobs |-> Contents(a) @@ Contents(b) @@ Contents(Owner), request |-> r, producer |-> Producer] : lock \in WrongLock(Locked(a))} :
     a \in {[Calling EXCEPT !.service.outbound = out, !.operations[1].interactions = i] : out \in Outbound, i \in Outbound},
     b \in {Source("users", <<>>), [Source("users", <<Emitting("users")>>) EXCEPT !.service.produced = {Http}]}, external \in BOOLEAN, r \in {Inventory, [Inventory EXCEPT !.asked = FALSE], [Inventory EXCEPT !.scope = {"orders"}]}}

-----------------------------------------------------------------------------
(* Platforms: a service that may serve one route in two versions and from  *)
(* two files, a second one that may serve it too, a consumer, and a        *)
(* project that answers to the name of another.                            *)
Fact(kind, words, source) == [kind |-> kind, words |-> words, method |-> "GET", valid |-> TRUE, source |-> source, text |-> 1, confidence |-> 80]
Platform(id, rank, name, facts) ==
  [id |-> id, rank |-> rank, name |-> name, snapshot |-> "s", snapshotOf |-> id, reportOf |-> id, sameCommit |-> TRUE, role |-> "service", facts |-> facts]
HttpRoute(version, source) == Fact("http_route", <<"api", version, "users">>, source)
Event(kind, version) == Fact(kind, <<"users", "created", version>>, 1)
Call(version, source) == Fact("http_consume", <<"api", version, "users">>, source)
Served ==
  {<<>>, <<HttpRoute("v1", 1)>>, <<HttpRoute("v1", 2), HttpRoute("v1", 1)>>, <<HttpRoute("v1", 1), HttpRoute("v2", 1)>>, <<Event("event_publish", "v2"), HttpRoute("v2", 1)>>,
   <<[HttpRoute("v1", 1) EXCEPT !.confidence = 90], [HttpRoute("v1", 1) EXCEPT !.text = 2]>>, <<Fact("database_table", <<"users">>, 1), [HttpRoute("v1", 1) EXCEPT !.valid = FALSE]>>}
Consumed ==
  {<<>>, <<Call("v1", 1)>>, <<Call("v1", 1), [Call("v1", 1) EXCEPT !.confidence = 90]>>, <<Call("v1", 1), Call("v2", 2)>>, <<Event("event_subscribe", "v1")>>,
   <<Fact("depends_on", <<"user">>, 1), Event("event_subscribe", "v2")>>, <<Fact("stores_in", <<"shop">>, 1), [Call("v1", 1) EXCEPT !.method = "POST"]>>}
Broken(s) == {s, [s EXCEPT !.role = "content"], [s EXCEPT !.sameCommit = FALSE]}
TopologyQuestions ==
  UNION {{<<Platform("u", 3, <<"ms", "go", "user">>, a), b, Platform("s", 1, <<"shop", "service">>, c)>> :
            b \in Broken(Platform("v", 2, <<"ms", "user">>, other))} : a \in Served, c \in Consumed, other \in Served \cup Consumed}
=============================================================================
