-------------------------- MODULE ArchitectureCatalog --------------------------
(***************************************************************************)
(* Architecture CURRENT: the catalog architecturecatalog.Builder projects  *)
(* from the validated manifests of all services, and the graph that Export *)
(* and FleetExport publish from it with immutable pins.                    *)
(*                                                                         *)
(* A source is a project with its captured snapshot, its service manifest  *)
(* (if covered), operation manifests and discovered operations.  A         *)
(* contract reference is a pair of transport and code; hashes and stable   *)
(* ids are the tuples they are computed from.                              *)
(***************************************************************************)
EXTENDS ArchitectureManifests

(* identity.go *)
StableReferenceID(identity, manifest) == IF identity = "" THEN <<>> ELSE <<identity, IF manifest = "" THEN "repository" ELSE manifest>>
StableEdgeID(edge) == IF edge.from = <<>> \/ (edge.to = <<>> /\ edge.external = "") THEN <<>>
                      ELSE <<edge.from, edge.type, edge.to, edge.external, edge.op, edge.transport, edge.contract, edge.direction>>

(* builder.go *)
validateCatalogSource(s) ==
  /\ s.id # "" /\ s.identity # "" /\ s.sameProject /\ s.sameCommit
  /\ IF s.covered THEN s.service.id # "" /\ \A o \in ToSet(s.operations) : o.id # "" /\ o.service = s.service.id /\ o.type \in DOMAIN transportOf
                  ELSE s.operations = <<>>
ManifestID(s) == IF s.covered THEN s.service.id ELSE ""
ReferenceOf(s) == StableReferenceID(s.identity, ManifestID(s))
UncheckedHead(s) == s.sameCommit /\ s.sameChecksum
sourceCurrent(s) == s.sameCommit /\ s.sameChecksum /\ (s.head # "" => s.head = s.commit)

(* A worker or a schedule whose name differs may be found by its source.   *)
uniqueCatalogSourceOperationManifest(o, manifests, matched) ==
  LET Alone(m) == \A x \in manifests : Signature(x) = Signature(m) => x = m
      unused == {Signature(m) : m \in {x \in manifests : o.type \in {"worker", "scheduled"} /\ x.type = o.type /\ Alone(x) /\ \E e \in x.evidence : e.source = o.source}} \ matched
  IN  IF Cardinality(unused) = 1 THEN unused ELSE {}
CountDiscovered(acc, o, declared) ==
  LET count == Cardinality({m \in declared : Signature(m) = Signature(o)})
      near  == uniqueCatalogSourceOperationManifest(o, declared, acc.matched)
  IN  IF ~Normal(o) THEN [acc EXCEPT !.blocked = @ + 1]
      ELSE IF count = 1 THEN [acc EXCEPT !.with = @ + 1, !.matched = @ \cup {Signature(o)}]
      ELSE IF count > 1 THEN [acc EXCEPT !.blocked = @ + 1, !.matched = @ \cup {Signature(o)}]
      ELSE IF near = {} THEN [acc EXCEPT !.missing = @ + 1]
      ELSE [acc EXCEPT !.with = @ + 1, !.matched = @ \cup near]
applyDiscoveredOperations(discovered, manifests) ==
  LET declared == {m \in manifests : Normal(m)}
      counted[n \in 0..Len(discovered)] ==
        IF n = 0 THEN [with |-> 0, missing |-> 0, blocked |-> 0, matched |-> {}] ELSE CountDiscovered(counted[n - 1], discovered[n], declared)
      all == counted[Len(discovered)]
  IN  [with |-> all.with, missing |-> all.missing, blocked |-> all.blocked,
       idle |-> Cardinality({m \in declared : Signature(m) \notin all.matched})]

(* No two operations of a service share an id; a group may name operations *)
(* that have no manifest.                                                  *)
buildCatalogService(s) ==
  LET ids == {o.id : o \in ToSet(s.operations)}
      counts == applyDiscoveredOperations(s.discovered, IF s.covered THEN ToSet(s.operations) ELSE {})
      named == IF s.covered THEN UNION {g.ops : g \in ToSet(s.service.groups)} ELSE {}
  IN  [id |-> s.id, name |-> s.name, reference |-> ReferenceOf(s), covered |-> s.covered, current |-> sourceCurrent(s), dirty |-> s.dirty, service |-> s.service,
       operations |-> ToSet(s.operations), groups |-> IF s.covered THEN [i \in DOMAIN s.service.groups |-> s.service.groups[i].ops \cap ids] ELSE <<>>,
       ungrouped |-> ids \ named, counts |-> counts,
       incomplete |-> \/ (s.covered /\ s.service.declared > Len(s.operations)) \/ named \ ids # {} \/ counts.missing > 0 \/ counts.blocked > 0]

(* Relations.  A target is a service only if exactly one answers to it; a  *)
(* reference is paired on its exact transport and code.                    *)
IsUnassertedInteraction(i) == i.target = "unknown" /\ i.transport = "unknown" /\ i.direction = "unknown" /\ ~i.sure
NamesOf(s) == {s.id, s.name, s.service.id, s.service.name} \ {""}
resolveProject(services, target) ==
  LET known == {s.id : s \in {x \in services : target \in NamesOf(x)}} IN IF Cardinality(known) = 1 THEN CHOOSE id \in known : TRUE ELSE ""
Subscribers(services, event) ==
  {[id |-> s.id, op |-> ""] : s \in {x \in services : event \in x.service.subscribed}} \cup
  {[id |-> p[1].id, op |-> p[2].id] :
     p \in {x \in UNION {{s} \X s.operations : s \in services} : x[2].type = "nats_event_subscriber" /\ event = <<"nats", x[2].key.path>>}}
Relation(type, source, target, external, op, transport, contract, direction) ==
  [type |-> type, source |-> source, target |-> target, external |-> external, op |-> op, transport |-> transport, contract |-> contract, direction |-> direction,
   sure |-> TRUE, proven |-> TRUE]
directManifestRelation(services, s, op, type, i) ==
  [Relation(type, s.id, resolveProject(services, i.target), i.target, op, i.transport, i.contract, i.direction) EXCEPT !.sure = i.sure, !.proven = i.proven]
addConsumerRelations(s, ref, type, providers, explicit) ==
  IF providers # {} THEN {Relation(type, s.id, p, "", "", ref[1], ref[2], "inbound") : p \in providers}
  ELSE IF explicit THEN {} ELSE {Relation(type, s.id, "", "unknown provider", "", ref[1], ref[2], "inbound")}
addProducerUnknownRelation(s, ref, type, op, explicit) == IF explicit THEN {} ELSE {Relation(type, s.id, "", "unknown consumer", op, ref[1], ref[2], "outbound")}
addEventProducerRelations(services, s, op, event, explicit) ==
  LET subscribers == Subscribers(services, event)
  IN  IF subscribers = {} THEN addProducerUnknownRelation(s, event, "event", op, explicit)
      ELSE {Relation("event", x.id, s.id, "", x.op, event[1], event[2], "inbound") : x \in subscribers}

SameEdge(a, b) == [a EXCEPT !.sure = b.sure, !.proven = b.proven] = b
Merged(relations) ==
  {[r EXCEPT !.sure = \E q \in relations : SameEdge(q, r) /\ q.sure, !.proven = \E q \in relations : SameEdge(q, r) /\ q.proven] : r \in relations}
ProvidersOf(services, ref) == {s.id : s \in {x \in services : ref \in x.service.produced}}
PublishersOf(services, ref) == {s.id : s \in {x \in services : ref \in x.service.published}}
buildCatalogRelations(all, explicit) ==
  LET services == {s \in all : s.covered}
      Consumed(ref) == \E x \in services : ref \in x.service.consumed
      Of(s) ==
        {directManifestRelation(services, s, "", "outbound_dependency", i) : i \in s.service.outbound} \cup
        (UNION {{directManifestRelation(services, s, o.id, "operation_interaction", i) : i \in {x \in o.interactions : ~(explicit /\ IsUnassertedInteraction(x))}} \cup
               UNION {addEventProducerRelations(services, s, o.id, e, explicit) : e \in o.emitted} : o \in s.operations}) \cup
        (UNION {addConsumerRelations(s, ref, "contract", ProvidersOf(services, ref), explicit) : ref \in s.service.consumed}) \cup
        (UNION {addProducerUnknownRelation(s, ref, "contract", "", explicit) : ref \in {r \in s.service.produced : ~Consumed(r)}}) \cup
        (UNION {addConsumerRelations(s, ref, "event", PublishersOf(services, ref), explicit) : ref \in s.service.subscribed}) \cup
        UNION {addProducerUnknownRelation(s, ref, "event", "", explicit) : ref \in {r \in s.service.published : Subscribers(services, r) = {}}}
  IN  Merged(UNION {Of(s) : s \in services})

EdgeOf(services, r) ==
  LET Ref(id) == IF id = "" THEN <<>> ELSE (CHOOSE s \in services : s.id = id).reference
  IN  [from |-> Ref(r.source), to |-> Ref(r.target), type |-> r.type, external |-> r.external, op |-> r.op,
       transport |-> r.transport, contract |-> r.contract, direction |-> r.direction]
ValidateStableGraphIDs(services, relations) ==
  /\ \A s \in services : s.reference # <<>>
  /\ \A s, t \in services : s.reference = t.reference => s = t
  /\ \A r \in relations : StableEdgeID(EdgeOf(services, r)) # <<>>
CatalogOf(services, explicit) ==
  LET relations == buildCatalogRelations(services, explicit)
  IN  IF ~ValidateStableGraphIDs(services, relations) THEN [ok |-> FALSE]
      ELSE [ok |-> TRUE, services |-> services, relations |-> relations]
BuildCatalog(sources) ==
  IF ~(/\ \A i \in DOMAIN sources : validateCatalogSource(sources[i]) /\ Cardinality({o.id : o \in ToSet(sources[i].operations)}) = Len(sources[i].operations)
       /\ \A i, j \in DOMAIN sources : sources[i].id = sources[j].id => i = j)
  THEN [ok |-> FALSE]
  ELSE CatalogOf({buildCatalogService(sources[i]) : i \in DOMAIN sources}, sources # <<>> /\ \A i \in DOMAIN sources : sources[i].pinned)

(* usecase/architecturecatalog/current.go: CURRENT is what the topology    *)
(* selected, or nothing.                                                   *)
Sources(topology, latest) ==
  IF \/ \E i, j \in DOMAIN topology : i # j /\ topology[i].id = topology[j].id
     \/ \E i \in DOMAIN topology : topology[i].id \notin DOMAIN latest
  THEN [ok |-> FALSE]
  ELSE [ok |-> \A i \in DOMAIN topology : latest[topology[i].id].snapshot = topology[i].snapshot /\ latest[topology[i].id].sameCommit,
        sources |-> [i \in DOMAIN topology |-> latest[topology[i].id]]]
=============================================================================
