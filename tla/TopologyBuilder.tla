---------------------------- MODULE TopologyBuilder ----------------------------
(***************************************************************************)
(* The topology of the platform as topology.Builder derives it from the    *)
(* facts discovery found in every project: services, capabilities and      *)
(* ownership, contracts, relations between services and contract drifts.   *)
(*                                                                         *)
(* Names, paths and subjects are sequences of words.  The rank of a source *)
(* stands for its place in the order of names, the numbers `source' and    *)
(* `text' of a fact for the path it was found at and what it says there.   *)
(***************************************************************************)
EXTENDS Integers, SequencesExt, FiniteSetsExt, TLC

Versions == {"v1", "v2"}
versionOf(words) == LET at == {i \in DOMAIN words : words[i] \in Versions} IN IF at = {} THEN "unversioned" ELSE words[Min(at)]
Canonical(words) == [i \in DOMAIN words |-> IF words[i] \in Versions THEN "{version}" ELSE words[i]]
httpContractCode(fact) == <<"http", fact.method>> \o Canonical(fact.words)
eventContractCode(fact) == <<"event">> \o Canonical(fact.words)
stableCode(fact) == <<fact.kind>> \o fact.words

(* What kinds of facts declare, and from which side.                       *)
Shapes ==
  [http_route |-> <<"http", "provides">>, http_produce |-> <<"http", "provides">>, frontend_consumes |-> <<"http", "consumes">>,
   http_consume |-> <<"http", "consumes">>, event_publish |-> <<"event", "publishes">>, event_subscribe |-> <<"event", "subscribes">>,
   database_table |-> <<"database", "owns">>, http_definition |-> <<"http", "provides">>, grpc_definition |-> <<"grpc", "provides">>]
isProducer(direction) == direction \in {"provides", "publishes", "owns"}
isConsumer(direction) == direction \in {"consumes", "subscribes"}
Referenced == {"http_route", "http_produce", "frontend_consumes", "http_consume"}
Evented == {"event_publish", "event_subscribe"}
CodeOf(fact) == IF fact.kind \in Referenced THEN httpContractCode(fact) ELSE IF fact.kind \in Evented THEN eventContractCode(fact) ELSE stableCode(fact)
Declares(fact) == fact.kind \in DOMAIN Shapes /\ (fact.kind \in Referenced \cup Evented => fact.valid)

buildContracts(source) ==
  LET facts == SelectSeq(source.facts, Declares)
  IN  [i \in DOMAIN facts |->
         [project |-> source.id, code |-> CodeOf(facts[i]), type |-> Shapes[facts[i].kind][1], direction |-> Shapes[facts[i].kind][2],
          version |-> IF facts[i].kind = "database_table" THEN "unversioned" ELSE versionOf(facts[i].words), source |-> facts[i].source, text |-> facts[i].text]]

(* Of values with one key the better one stays, whatever their order.      *)
Deduplicated(values, Key(_), Better(_, _)) ==
  LET Step(best, v) == IF Key(v) \notin DOMAIN best \/ Better(v, best[Key(v)]) THEN (Key(v) :> v) @@ best ELSE best
      kept == FoldLeft(Step, << >>, values)
  IN  {kept[k] : k \in DOMAIN kept}
contractChoice(a, b) == a.source < b.source \/ (a.source = b.source /\ a.text < b.text)
deduplicateContracts(values) ==
  Deduplicated(values, LAMBDA c : <<c.project, c.code, c.type, c.version, c.direction>>, contractChoice)
SurerChoice(a, b) == a.confidence > b.confidence \/ (a.confidence = b.confidence /\ a.text < b.text)
deduplicateCapabilities(values) == Deduplicated(values, LAMBDA c : <<c.project, c.code, c.source>>, SurerChoice)

buildCapabilities(source, kinds) ==
  LET facts == SelectSeq(source.facts, LAMBDA f : f.kind \in kinds)
  IN  [i \in DOMAIN facts |-> [project |-> source.id, code |-> stableCode(facts[i]), source |-> facts[i].source, confidence |-> facts[i].confidence, text |-> facts[i].text]]

(* A project answers to its name, without ms- or ms-go- and without        *)
(* -service; of two that answer to one name the first does.                *)
TrimPrefix(name, prefix) == IF IsPrefix(prefix, name) THEN SubSeq(name, Len(prefix) + 1, Len(name)) ELSE name
Aliases(name) == {name, TrimPrefix(name, <<"ms", "go">>), TrimPrefix(name, <<"ms">>), IF Last(name) = "service" THEN Front(name) ELSE name} \ {<<>>}
projectAliases(sources, alias) ==
  LET known == {i \in DOMAIN sources : alias \in Aliases(sources[i].name)} IN IF known = {} THEN "" ELSE sources[Min(known)].id

Directs == [gateway_routes_to |-> "routes_to", depends_on |-> "depends_on", authenticates_through |-> "authenticates_through",
            stores_in |-> "stores_in", deploys |-> "deploys"]
Consuming == {"frontend_consumes", "http_consume", "event_subscribe"}
RelationsOf(sources, contracts, source, fact) ==
  LET To(target, type, code) == [source |-> source.id, target |-> target, type |-> type, code |-> code, at |-> fact.source, confidence |-> fact.confidence]
      direct == projectAliases(sources, fact.words)
      producers == {c \in contracts : isProducer(c.direction) /\ c.code = CodeOf(fact) /\ c.project # source.id}
  IN  IF fact.kind \in DOMAIN Directs THEN IF direct \in {"", source.id} THEN {} ELSE {To(direct, Directs[fact.kind], <<>>)}
      ELSE IF fact.kind \in Consuming /\ fact.valid THEN {To(c.project, IF fact.kind = "event_subscribe" THEN "subscribes" ELSE "consumes", CodeOf(fact)) : c \in producers}
      ELSE {}
deduplicateRelations(relations) ==
  {r \in relations : \A s \in relations : [s EXCEPT !.confidence = r.confidence] = r => s.confidence <= r.confidence}
buildRelations(sources, contracts) ==
  deduplicateRelations(UNION {RelationsOf(sources, contracts, s, f) : <<s, f>> \in UNION {{s} \X ToSet(s.facts) : s \in ToSet(sources)}})

severityRank == [critical |-> 4, error |-> 3, warning |-> 2, info |-> 1]
DriftsOf(contracts, consumer) ==
  LET producers == {c \in contracts : isProducer(c.direction) /\ c.code = consumer.code}
      Drift(producer, version, severity) ==
        [producer |-> producer, consumer |-> consumer.project, code |-> consumer.code, versions |-> <<version, consumer.version>>, severity |-> severity]
      SeverityOf(p) == IF p.version # consumer.version THEN "error" ELSE IF Cardinality(producers) > 1 THEN "warning" ELSE "info"
  IN  IF producers = {} THEN {Drift("", "", "critical")}
      ELSE {d \in {Drift(p.project, p.version, SeverityOf(p)) : p \in {x \in producers : x.project # consumer.project}} : d.severity # "info"}
WorseDrift(a, b) == severityRank[a.severity] > severityRank[b.severity]
buildDrifts(contracts) ==
  LET all == UNION {DriftsOf(contracts, c) : c \in {x \in contracts : isConsumer(x.direction)}}
      Same(d) == {e \in all : <<e.producer, e.consumer, e.code>> = <<d.producer, d.consumer, d.code>>}
      Worst(d) == {e \in Same(d) : \A f \in Same(d) : ~WorseDrift(f, e)}
  IN  {CHOOSE e \in Worst(d) : TRUE : d \in all}

validSource(source) == source.id # "" /\ source.snapshot # "" /\ source.snapshotOf = source.id /\ source.reportOf = source.id /\ source.sameCommit
isTopologyProject(source) == source.role \notin {"content", "policy", "documentation", "archive"}
ByName(sources) == SortSeq(sources, LAMBDA a, b : a.rank < b.rank)
BuildTopology(sources) ==
  LET runtime == SelectSeq(ByName(sources), isTopologyProject)
      All(Of(_)) == FlattenSeq([i \in DOMAIN runtime |-> Of(runtime[i])])
      contracts == deduplicateContracts(All(buildContracts))
  IN  IF \E s \in ToSet(sources) : ~validSource(s) THEN [ok |-> FALSE]
      ELSE [ok |-> TRUE, services |-> [i \in DOMAIN runtime |-> runtime[i].id],
            capabilities |-> deduplicateCapabilities(All(LAMBDA s : buildCapabilities(s, {"http_route", "business_rule", "business_process", "entity"}))),
            ownership |-> deduplicateCapabilities(All(LAMBDA s : buildCapabilities(s, {"database_table"}))),
            contracts |-> contracts, relations |-> buildRelations(runtime, contracts), drifts |-> buildDrifts(contracts)]

(***************************************************************************)
(* What a topology promises the planner and the owner.                     *)
(***************************************************************************)
(* The topology depends on what was found, not on the order in which       *)
(* projects and facts were read, so an unchanged platform keeps its        *)
(* fingerprint (Builder.Build, deduplicateContracts, projectAliases).      *)
IsStable(sources) ==
  \A s \in {Reverse(sources)} \cup {[sources EXCEPT ![i].facts = Reverse(@)] : i \in DOMAIN sources} : BuildTopology(s) = BuildTopology(sources)

(* No consumer is silent: what a service consumes is related to every      *)
(* other service that produces it, in whatever version, and a difference   *)
(* of versions is an error; or its producer is missing and that is         *)
(* critical (buildRelations against buildDrifts).                          *)
ConsumerIsSeen(sources) ==
  LET topology == BuildTopology(sources)
      Of(s) == {f \in ToSet(s.facts) : Declares(f)}
      Live == {s \in ToSet(sources) : isTopologyProject(s)}
      Produced(s, f) == {g \in Of(s) : isProducer(Shapes[g.kind][2]) /\ g.kind \in Referenced \cup Evented /\ Shapes[g.kind][1] = Shapes[f.kind][1]
                                       /\ g.method = f.method /\ Canonical(g.words) = Canonical(f.words)}
  IN  topology.ok => \A s \in Live : \A f \in {x \in Of(s) : x.kind \in Consuming} :
        /\ \A t \in Live \ {s} : Produced(t, f) # {} =>
             /\ \E r \in topology.relations : r.source = s.id /\ r.target = t.id /\ r.at = f.source /\ r.confidence >= f.confidence
             /\ (\E g \in Produced(t, f) : g.words # f.words) => \E d \in topology.drifts : <<d.producer, d.consumer>> = <<t.id, s.id>> /\ d.severity = "error"
        /\ (\A t \in Live : Produced(t, f) = {}) <=> \E d \in topology.drifts : d.consumer = s.id /\ d.severity = "critical" /\ d.code = CodeOf(f)
=============================================================================
