----------------------------- MODULE CatalogExport -----------------------------
(***************************************************************************)
(* The graph of Architecture CURRENT that leaves the orchestrator: Export  *)
(* binds a catalog to the captured sources and to declaration pins that    *)
(* were resolved from immutable Git objects; FleetExport does the same     *)
(* from a reviewed lock of repositories, without any persisted record.     *)
(*                                                                         *)
(* A pin is [identity, commit, path, content]: the content stands for both *)
(* digests.  A diagnostic is [code, about]; every one blocks.              *)
(***************************************************************************)
EXTENDS ArchitectureCatalog

(* A path below the repository is a sequence of names.                     *)
ValidGraphPin(pin) == pin.identity # "" /\ pin.commit # "" /\ pin.content # "" /\ pin.path # <<>> /\ ".." \notin ToSet(pin.path)
KeyOf(pin) == [identity |-> pin.identity, commit |-> pin.commit, path |-> pin.path]
Blocked(code, about) == [code |-> code, about |-> about]

(* The inventory of the fleet is the sorted document at the producer's own *)
(* commit, with the bytes its pin names.                                   *)
VerifyInventory(pin, document, producer) ==
  /\ ValidGraphPin(pin) /\ pin.identity = producer.identity /\ pin.commit = producer.commit
  /\ pin.content = document.content /\ document.strict
  /\ document.identities # <<>> /\ \A i \in 2..Len(document.identities) : document.identities[i - 1] < document.identities[i]

PinFor(s, metadata, pins) == {p \in pins : KeyOf(p) = [identity |-> s.identity, commit |-> s.commit, path |-> metadata.path]}
PinsOf(s, pins) == UNION {{p \in PinFor(s, m, pins) : p.content = m.checksum} : m \in ToSet(s.metadata)}
DiagnosticsOf(s, service, pins) ==
  LET Unless(holds, code, about) == IF holds THEN {} ELSE {Blocked(code, about)}
      Declared(kind) == {m.id : m \in {x \in ToSet(s.metadata) : x.kind = kind}}
  IN  Unless(s.covered, "SERVICE_MANIFEST_MISSING", <<s.id>>) \cup Unless(service.current, "SOURCE_NOT_CURRENT", <<s.id>>)
      \cup Unless(~s.dirty, "SOURCE_DIRTY", <<s.id>>) \cup Unless(s.commit # "", "SOURCE_COMMIT_INVALID", <<s.id>>)
      \cup Unless(s.covered => s.metadata # <<>>, "DECLARATION_METADATA_MISSING", <<s.id>>)
      \cup (UNION {IF PinFor(s, m, pins) = {} THEN {Blocked("DECLARATION_PIN_MISSING", m.path)}
                  ELSE Unless(\E p \in PinFor(s, m, pins) : p.content = m.checksum, "DECLARATION_CONTENT_MISMATCH", m.path) : m \in ToSet(s.metadata)})
      \cup Unless(s.covered => ManifestID(s) \in Declared("service"), "SERVICE_DECLARATION_METADATA_MISSING", <<s.id>>)
      \cup (UNION {Unless(o.id \in Declared("operation"), "OPERATION_DECLARATION_METADATA_MISSING", <<o.id>>) : o \in ToSet(s.operations)})
      \cup Unless(~service.incomplete, "DECLARATION_COVERAGE_INCOMPLETE", <<s.id>>)

(* inventory is {} or the one verified set of identities.                  *)
Export(catalog, sources, pins, given, inventory) ==
  LET services == catalog.services
      ServiceOf(s) == CHOOSE x \in services : x.id = s.id
      all == ToSet(sources)
      Unproven == {Blocked("FLEET_SCOPE_UNPROVEN", <<>>)}
      own == {s.identity : s \in {x \in all : ~x.external}}
      edges == {[id |-> StableEdgeID(EdgeOf(services, r)), edge |-> EdgeOf(services, r),
                 pins |-> UNION {PinsOf(s, pins) : s \in {x \in all : x.id \in {r.source, r.target}}}] : r \in catalog.relations}
  IN  IF ~catalog.ok \/ catalog # BuildCatalog(sources) THEN [ok |-> FALSE]
      ELSE IF \/ \E p \in pins : ~ValidGraphPin(p) \/ \E q \in pins : p # q /\ KeyOf(p) = KeyOf(q)
              \/ \E s \in all : \E i, j \in DOMAIN s.metadata : i # j /\ s.metadata[i].path = s.metadata[j].path
      THEN [ok |-> FALSE]
      ELSE [ok |-> TRUE,
            references |-> {[id |-> ReferenceOf(s), kind |-> IF s.external THEN "external_owner" ELSE "", identity |-> s.identity, pins |-> PinsOf(s, pins)] : s \in all},
            edges |-> edges,
            diagnostics |-> given \cup (UNION {DiagnosticsOf(s, ServiceOf(s), pins) : s \in all})
              \cup {Blocked("EDGE_TARGET_UNRESOLVED", e.id) : e \in {x \in edges : x.edge.to = <<>>}}
              \cup (IF sources = <<>> THEN {Blocked("GRAPH_SCOPE_EMPTY", <<>>)} ELSE {})
              \cup (IF inventory = {} THEN Unproven ELSE IF own \in inventory THEN {} ELSE Unproven \cup {Blocked("FLEET_INVENTORY_SCOPE_MISMATCH", <<>>)}),
            inventory |-> {i \in inventory : i = own}]

(* usecase/architecturecatalog/export.go: the pins of the captured commits *)
(* of CURRENT; an inventory that cannot be verified only blocks.           *)
ExportCurrent(topology, latest, blobs, request, producer) ==
  LET current == Sources(topology, latest)
      sources == current.sources
      Wanted == UNION {{[identity |-> s.identity, commit |-> s.commit, path |-> m.path] : m \in ToSet(s.metadata)} : s \in {x \in ToSet(sources) : x.stored}}
      pins == {[identity |-> k.identity, commit |-> k.commit, path |-> k.path, content |-> blobs[k]] : k \in Wanted \cap DOMAIN blobs}
      NoStore == UNION {{Blocked("DECLARATION_OBJECT_STORE_MISSING", m.path) : m \in ToSet(s.metadata)} : s \in {x \in ToSet(sources) : ~x.stored}}
      NoObject == {Blocked("DECLARATION_OBJECT_UNAVAILABLE", k.path) : k \in Wanted \ DOMAIN blobs}
      verified == request.asked /\ request.read /\ VerifyInventory(request.pin, request.document, producer)
      Unverified == IF request.asked /\ ~verified THEN {Blocked("FLEET_INVENTORY_UNVERIFIED", <<>>)} ELSE {}
  IN  IF ~current.ok THEN [ok |-> FALSE]
      ELSE Export(BuildCatalog(sources), sources, pins, NoStore \cup NoObject \cup Unverified, IF verified THEN {request.scope} ELSE {})

(* fleet_external.go: reviewed names of products that are no services.     *)
fleetExternalTargets == {"postgres", "nats"}
ReviewedExternal(r) == /\ r.target = "" /\ r.external \in fleetExternalTargets /\ r.type \in {"outbound_dependency", "operation_interaction"}
                       /\ r.sure /\ r.proven /\ r.transport \notin {"", "unknown"}
ResolveFleetExternals(graph, catalog) ==
  LET authored == {StableEdgeID(EdgeOf(catalog.services, r)) : r \in {x \in catalog.relations : ReviewedExternal(x)}}
      Resource(e) == StableReferenceID("external:" \o e.edge.transport \o ":" \o e.edge.external, e.edge.external)
      Toward(e) == [e.edge EXCEPT !.to = Resource(e)]
      Moved(e) == [id |-> StableEdgeID(Toward(e)), edge |-> Toward(e), pins |-> e.pins]
      moving == {e \in graph.edges : e.id \in authored}
      Resolved == {[id |-> ref, kind |-> "external", identity |-> ref[1], pins |-> UNION {e.pins : e \in {x \in moving : Resource(x) = ref}}] : ref \in {Resource(e) : e \in moving}}
  IN  [graph EXCEPT !.edges = (@ \ moving) \cup {Moved(e) : e \in moving}, !.references = @ \cup Resolved,
                    !.diagnostics = {d \in @ : ~(d.code = "EDGE_TARGET_UNRESOLVED" /\ d.about \in authored)}]

(* What one side declared and no other side names is counted as debt.      *)
CountUnmatchedInterfaceMetadata(sources) ==
  LET Live == {s \in ToSet(sources) : s.covered}
      Ops(s) == ToSet(s.operations)
      Events(s) == {<<"nats", o.key.path>> : o \in {x \in Ops(s) : x.type = "nats_event_subscriber"}}
      Made == UNION {s.service.produced : s \in Live}
      Used == UNION {s.service.consumed : s \in Live}
      Sent == UNION {s.service.published \cup UNION {o.emitted : o \in Ops(s)} : s \in Live}
      Heard == UNION {s.service.subscribed \cup Events(s) : s \in Live}
      Unmet(s) == (s.service.produced \ Used) \cup (s.service.consumed \ Made)
                  \cup ((s.service.published \cup UNION {o.emitted : o \in Ops(s)}) \ Heard) \cup ((s.service.subscribed \cup Events(s)) \ Sent)
  IN  UNION {{<<s.id, ref>> : ref \in Unmet(s)} : s \in {x \in Live : ~x.external}}

(* fleet_inputs.go and fleet_export.go.  The order of repositories is that *)
(* of their numbers.                                                       *)
forbiddenFleetPath(path) == {"test-results", ".git", ".env"} \cap ToSet(path) # {}
LockedPins(repo) == {[identity |-> repo.identity, commit |-> repo.commit, path |-> d.path, content |-> d.content] : d \in ToSet(repo.declarations)}
validFleetRepository(repo) ==
  /\ repo.identity # "" /\ repo.commit # "" /\ repo.serviceID # "" /\ repo.declarations # <<>>
  /\ \A pin \in LockedPins(repo) : ValidGraphPin(pin) /\ ~forbiddenFleetPath(pin.path)
  /\ \A i, j \in DOMAIN repo.declarations : repo.declarations[i].path = repo.declarations[j].path => i = j
ParseFleetInputs(fleet) ==
  /\ \A i \in DOMAIN fleet : validFleetRepository(fleet[i])
  /\ \A i, j \in DOMAIN fleet : fleet[i].serviceID = fleet[j].serviceID \/ fleet[i].identity = fleet[j].identity => i = j

(* The blobs a repository locks hold one service manifest and exactly the  *)
(* operations it lists, or the export is refused.                          *)
LockedSource(repo, blobs) ==
  LET ContentOf(d) == blobs[[identity |-> repo.identity, commit |-> repo.commit, path |-> d.path]]
      fine == \A pin \in LockedPins(repo) : KeyOf(pin) \in DOMAIN blobs /\ ContentOf(pin).digest = pin.content /\ ContentOf(pin).kind \in {"service", "operation"}
      services == SelectSeq(repo.declarations, LAMBDA d : ContentOf(d).kind = "service")
      operations == SelectSeq(repo.declarations, LAMBDA d : ContentOf(d).kind = "operation")
      service == ContentOf(services[1]).value
      metadata == [i \in DOMAIN repo.declarations |->
                     [kind |-> ContentOf(repo.declarations[i]).kind, id |-> ContentOf(repo.declarations[i]).value.id, path |-> repo.declarations[i].path, checksum |-> repo.declarations[i].content]]
  IN  IF ~fine THEN [ok |-> FALSE]
      ELSE IF Len(services) # 1 THEN [ok |-> FALSE]
      ELSE [ok |-> service.id = repo.serviceID /\ service.declared = Len(operations) /\ service.paths \subseteq {d.path : d \in ToSet(operations)},
            source |-> [id |-> repo.identity, name |-> repo.serviceID, identity |-> repo.identity, commit |-> repo.commit, head |-> repo.commit, covered |-> TRUE,
                        service |-> service, operations |-> [i \in DOMAIN operations |-> ContentOf(operations[i]).value], discovered |-> <<>>, metadata |-> metadata,
                        sameProject |-> TRUE, sameCommit |-> TRUE, sameChecksum |-> TRUE, dirty |-> FALSE, stored |-> TRUE, pinned |-> TRUE, external |-> repo.external]]
ResolvedFleet(sources, catalog, graph, asked) ==
  LET Scoped(g) == [g EXCEPT !.diagnostics = {d \in @ : d.code = "FLEET_SCOPE_UNPROVEN" => asked}]
  IN  IF ~graph.ok THEN [ok |-> FALSE]
      ELSE [ok |-> TRUE, sources |-> sources, graph |-> Scoped(ResolveFleetExternals(graph, catalog)), debt |-> CountUnmatchedInterfaceMetadata(sources)]
FleetExport(fleet, blobs, request, producer) ==
  LET locked == [i \in DOMAIN fleet |-> LockedSource(fleet[i], blobs)]
      sources == [i \in DOMAIN fleet |-> locked[i].source]
      catalog == BuildCatalog(sources)
      verified == request.asked /\ request.read /\ VerifyInventory(request.pin, request.document, producer)
      pins == UNION {LockedPins(repo) : repo \in ToSet(fleet)}
  IN  IF ~ParseFleetInputs(fleet) \/ (request.asked /\ ~verified) THEN [ok |-> FALSE]
      ELSE IF \E i \in DOMAIN fleet : ~locked[i].ok THEN [ok |-> FALSE]
      ELSE ResolvedFleet(sources, catalog, Export(catalog, sources, pins, {}, IF verified THEN {request.scope} ELSE {}), request.asked)

(***************************************************************************)
(* What Architecture CURRENT promises its readers.                         *)
(***************************************************************************)
(* A service-level declaration meets its counterpart in an edge, and only  *)
(* there: a consumer is related to exactly those that provide its exact    *)
(* reference, a subscriber to those that publish it.  What nobody answers  *)
(* is an unknown edge, or debt when everything is pinned (buildRelations   *)
(* against CountUnmatchedInterfaceMetadata).                               *)
EdgeIn(catalog, type, from, to, ref) == \E r \in catalog.relations : <<r.type, r.source, r.target>> = <<type, from, to>> /\ <<r.transport, r.contract>> = ref
Published(s) == s.service.published \cup UNION {o.emitted : o \in ToSet(s.operations)}
DeclarationsAreAccounted(sources, catalog) ==
  LET Live == {s \in ToSet(sources) : s.covered}
      debt == CountUnmatchedInterfaceMetadata(sources)
      Owed(s, ref) == s.external \/ <<s.id, ref>> \in debt
      explicit == \A i \in DOMAIN sources : sources[i].pinned
      Meets(s, type, ref, answering) ==
        /\ \A t \in Live : EdgeIn(catalog, type, s.id, t.id, ref) <=> t \in answering
        /\ answering = {} => IF explicit THEN Owed(s, ref) ELSE EdgeIn(catalog, type, s.id, "", ref)
      Uses(s) == s.service.consumed \cup s.service.subscribed \cup {<<"nats", o.key.path>> : o \in {x \in ToSet(s.operations) : x.type = "nats_event_subscriber"}}
  IN  catalog.ok => \A s \in Live :
        /\ \A ref \in s.service.consumed : Meets(s, "contract", ref, {t \in Live : ref \in t.service.produced})
        /\ \A ref \in s.service.subscribed : Meets(s, "event", ref, {t \in Live : ref \in Published(t)})
        /\ \A ref \in s.service.produced \cup Published(s) : explicit /\ (\A t \in Live : ref \notin Uses(t)) => Owed(s, ref)

(* The catalog counts discovered operations as the auditor does, though    *)
(* each has its own matching (applyDiscoveredOperations, auditService).    *)
CountsAreAudited(tree, report) ==
  LET counts == applyDiscoveredOperations(report.operations, {tree[p] : p \in tree[Service].manifests})
      audit == auditService(TRUE, tree, report)
  IN  <<counts.with, counts.missing, counts.blocked>> = <<audit.with, audit.missing, audit.opsBlocked>>

(* A graph without a diagnostic was proven whole: every source is covered, *)
(* clean and at the commit that was captured, each of its declarations is  *)
(* the object of that commit, what was discovered is declared, every edge  *)
(* ends at a reference, and the fleet is the inventory's (Export).         *)
CleanIsProven(topology, latest, blobs, request, graph) ==
  LET sources == [i \in DOMAIN topology |-> latest[topology[i].id]]
      Pinned(s, kind, id) == \E m \in ToSet(s.metadata) : LET k == [identity |-> s.identity, commit |-> s.commit, path |-> m.path]
                                                        IN  m.kind = kind /\ m.id = id /\ k \in DOMAIN blobs /\ blobs[k] = m.checksum
  IN  graph.ok /\ graph.diagnostics = {} =>
        /\ sources # <<>> /\ request.asked /\ request.scope = {s.identity : s \in {x \in ToSet(sources) : ~x.external}}
        /\ \A s \in ToSet(sources) :
             /\ \E t \in ToSet(topology) : t.id = s.id /\ t.snapshot = s.snapshot
             /\ s.covered /\ ~s.dirty /\ s.sameCommit /\ s.sameChecksum /\ s.head \in {"", s.commit}
             /\ Pinned(s, "service", s.service.id) /\ \A o \in ToSet(s.operations) : Pinned(s, "operation", o.id)
             /\ s.service.declared <= Len(s.operations)
             /\ \A o \in ToSet(s.discovered) : \E m \in ToSet(s.operations) : m.type = o.type /\ (m.key = o.key \/ \E e \in m.evidence : e.source = o.source)
        /\ \A e \in graph.edges : e.edge.to \in {r.id : r \in graph.references} /\ e.pins # {}

(* A published fleet graph rests on its lock alone: every edge ends at a   *)
(* reference or blocks, a product outside the fleet becomes a reference    *)
(* only through an interaction somebody authored with confidence and       *)
(* evidence, every reference is pinned, and no two edges share an id       *)
(* (FleetExport.Handle, ResolveFleetExternals).                            *)
FleetGraphIsLocked(fleet, request, export) ==
  LET graph == export.graph
      Interactions(s) == s.service.outbound \cup UNION {o.interactions : o \in ToSet(s.operations)}
  IN  export.ok =>
        /\ \A e \in graph.edges :
             /\ e.edge.from \in {r.id : r \in graph.references}
             /\ e.edge.to \in {r.id : r \in graph.references} \/ Blocked("EDGE_TARGET_UNRESOLVED", e.id) \in graph.diagnostics
             /\ e.edge.to # <<>> => Blocked("EDGE_TARGET_UNRESOLVED", e.id) \notin graph.diagnostics
             /\ \A f \in graph.edges : e.id = f.id => e = f
        /\ \A ref \in {r \in graph.references : r.kind = "external"} :
             \E s \in ToSet(export.sources) : \E i \in Interactions(s) : i.target = ref.id[2] /\ i.sure /\ i.proven /\ i.transport # "unknown"
        /\ \A r \in graph.references : r.pins # {} /\ r.pins \subseteq UNION {LockedPins(repo) : repo \in ToSet(fleet)}
        /\ request.asked => graph.inventory # {} \/ Blocked("FLEET_SCOPE_UNPROVEN", <<>>) \in graph.diagnostics
=============================================================================
