------------------------ MODULE ArchitectureManifests ------------------------
(***************************************************************************)
(* The architecture manifests a service keeps under .ai/architecture, and  *)
(* the tools of package architecturemanifest that scaffold, reconcile,     *)
(* draw and audit them, with the verification of CURRENT on top.           *)
(*                                                                         *)
(* A checkout is a function from the paths that exist to their contents: a *)
(* service manifest, an operation manifest, a diagram of some content, or  *)
(* something that is no regular file.  A tool first computes the changes   *)
(* it wants from the checkout as it read it; how the changes are published *)
(* one by one is in ManifestPublication.                                   *)
(***************************************************************************)
EXTENDS Integers, SequencesExt, FiniteSetsExt, TLC

Service == <<"service.yaml">>
OtherService == <<"service.yml">>
Diagram(path) == <<"mmd">> \o path
Directories == {"endpoints", "operations"}

(* validator.go *)
validateEvidence(evidence) == \A e \in evidence : e.source # "" /\ (e.last > 0 => e.first > 0 /\ e.last >= e.first)
validateStatement(s) == s.value # "" /\ s.confidence \in 0..100 /\ s.evidence # {} /\ validateEvidence(s.evidence)
safeOperationPath(path) == Len(path) = 2 /\ path[1] \in Directories /\ path[2] # ""
validHTTPMethod(method) == method \in {"GET", "POST", "TRACE"}

transportOf == [http |-> "http", nats_request_reply |-> "nats", nats_event_subscriber |-> "nats", worker |-> "worker", scheduled |-> "scheduled"]
validateOperationIdentity(op) ==
  /\ op.type \in DOMAIN transportOf /\ op.transport = transportOf[op.type] /\ op.parts = {op.transport}
  /\ op.key.path # ""
  /\ op.type = "http" => validHTTPMethod(op.key.method)
  /\ op.type = "scheduled" => op.key.method # ""
  /\ op.transport = "nats" => op.role = IF op.type = "nats_request_reply" THEN "request_handler" ELSE "event_subscriber"

ValidateOperation(op) ==
  /\ op.id # "" /\ op.service # "" /\ validateOperationIdentity(op)
  /\ \A s \in op.statements : validateStatement(s)
  /\ validateEvidence(op.evidence) /\ op.confidence \in 0..100
  /\ IsInjective(op.steps) /\ \A code \in op.codes : code \in 100..599

ValidateService(s) ==
  /\ s.id # "" /\ s.name # "" /\ \A x \in s.statements : validateStatement(x)
  /\ \A path \in s.manifests : safeOperationPath(path)
  /\ \A g \in ToSet(s.groups) : g.id # "" /\ g.ops # {}

(* A file that is no clean YAML document of its kind does not parse.       *)
ParsedService(tree, path) == path \in DOMAIN tree /\ tree[path].kind = "service" /\ ValidateService(tree[path])
ParsedOperation(tree, path) == path \in DOMAIN tree /\ tree[path].kind = "operation" /\ ValidateOperation(tree[path])

(* scaffold.go.  The id of a generated manifest is a hash of its identity. *)
scaffoldOperationID(key) == key.method \o " " \o key.path
scaffoldUnknown(evidence) == [value |-> "unknown", confidence |-> 0, evidence |-> evidence]
scaffoldHTTPManifest(service, id, key, evidence) ==
  [kind |-> "operation", id |-> id, service |-> service, type |-> "http", transport |-> "http", parts |-> {"http"}, role |-> "", key |-> key,
   statements |-> {scaffoldUnknown(evidence)}, evidence |-> evidence, confidence |-> 0, steps |-> <<"unknown">>, codes |-> {}]
scaffoldHTTPService(id, paths, ids, evidence) ==
  [kind |-> "service", id |-> id, name |-> id, statements |-> {scaffoldUnknown(evidence)}, manifests |-> paths, groups |-> <<[id |-> "http", ops |-> ids]>>]

HTTPOf(report) == {o \in ToSet(report.operations) : o.type = "http"}
EvidenceOf(report, key) == {[source |-> o.source, first |-> 0, last |-> 0] : o \in {x \in HTTPOf(report) : x.key = key}}
scaffoldDiscoveredHTTP(report) ==
  [ok |-> \A o \in HTTPOf(report) : validHTTPMethod(o.key.method) /\ o.key.path # "" /\ validateEvidence(EvidenceOf(report, o.key)),
   keys |-> {o.key : o \in HTTPOf(report)}]

Endpoints(tree) == {p \in DOMAIN tree : Len(p) = 2 /\ p[1] = "endpoints"}
ForeignEndpoints(tree, service, keys) ==
  LET http == {p \in Endpoints(tree) : ParsedOperation(tree, p) /\ tree[p].type = "http"}
  IN  [ok |-> \A p \in http : tree[p].key \in keys, paths |-> http]
scaffoldExistingEndpoints(tree, service, keys) ==
  LET http == {p \in Endpoints(tree) : ParsedOperation(tree, p) /\ tree[p].type = "http"}
  IN  [ok |-> /\ \A p \in Endpoints(tree) : ParsedOperation(tree, p)
              /\ \A p \in http : tree[p].service = service /\ tree[p].key \in keys
              /\ \A p, q \in http : tree[p].key = tree[q].key => p = q,
       paths |-> http]

Change(path, before, after) == [path |-> path, before |-> before, after |-> after]
Created(path, content) == Change(path, {}, {content})
Refused == [ok |-> FALSE, files |-> <<>>]
Planned(ok, files) == IF ok THEN [ok |-> TRUE, files |-> files] ELSE Refused

ScaffoldHTTPManifests(tree, report) ==
  LET found == scaffoldDiscoveredHTTP(report)
      known == {p \in {Service, OtherService} : p \in DOMAIN tree}
      path == IF known = {} THEN Service ELSE CHOOSE p \in known : TRUE
      id == IF known = {} THEN report.project ELSE tree[path].id
      existing == scaffoldExistingEndpoints(tree, id, found.keys)
      new == found.keys \ {tree[p].key : p \in existing.paths}
      Target(key) == <<"endpoints", scaffoldOperationID(key)>>
      Manifest(key) == scaffoldHTTPManifest(id, scaffoldOperationID(key), key, EvidenceOf(report, key))
      paths == existing.paths \cup {Target(key) : key \in new}
      ids == {tree[p].id : p \in existing.paths} \cup {scaffoldOperationID(key) : key \in new}
      service == scaffoldHTTPService(id, paths, ids, UNION {EvidenceOf(report, key) : key \in found.keys})
      Grouped == UNION {g.ops : g \in ToSet(tree[path].groups)}
  IN  IF found.ok /\ found.keys = {} THEN Planned(TRUE, <<>>)
      ELSE IF ~found.ok \/ Cardinality(known) = 2 \/ (known # {} /\ ~ParsedService(tree, path)) THEN Refused
      ELSE Planned(/\ existing.ok /\ \A key \in new : Target(key) \notin DOMAIN tree
                   /\ known # {} => paths \subseteq tree[path].manifests /\ ids \subseteq Grouped,
                   SetToSeq({Created(Target(key), Manifest(key)) : key \in new}) \o IF known = {} THEN <<Created(Service, service)>> ELSE <<>>)

(* reconcile.go *)
isReconcileScaffold(op) == op.id = scaffoldOperationID(op.key) /\ op = scaffoldHTTPManifest(op.service, op.id, op.key, op.evidence)

(* The groups that held HTTP operations only make room for the new one.    *)
RegroupedWithout(groups, old, ids) ==
  LET Kept(g) == g.ops \ old
      emptied == SelectSeq(groups, LAMBDA g : Kept(g) = {})
      others == SelectSeq(groups, LAMBDA g : Kept(g) # {})
      http == IF emptied = <<>> THEN "http-reconciled" ELSE emptied[1].id
  IN  [ok |-> \A g \in ToSet(others) : g.id # http,
       groups |-> [i \in DOMAIN others |-> [others[i] EXCEPT !.ops = @ \ old]] \o <<[id |-> http, ops |-> ids]>>]

ReconcileHTTPManifests(tree, report) ==
  LET found == scaffoldDiscoveredHTTP(report)
      service == tree[Service]
      ops == {tree[p] : p \in service.manifests}
      http == {p \in service.manifests : tree[p].type = "http"}
      kept == {p \in http : tree[p].key \in found.keys}
      stale == http \ kept
      new == found.keys \ {tree[p].key : p \in kept}
      Target(key) == <<"endpoints", scaffoldOperationID(key)>>
      Manifest(key) == scaffoldHTTPManifest(service.id, scaffoldOperationID(key), key, EvidenceOf(report, key))
      Drawn(p) == Diagram(p) \in DOMAIN tree
      removed == UNION {{Change(p, {tree[p]}, {})} \cup (IF Drawn(p) THEN {Change(Diagram(p), {tree[Diagram(p)]}, {})} ELSE {}) : p \in stale}
      regrouped == RegroupedWithout(service.groups, {tree[p].id : p \in http}, {tree[p].id : p \in kept} \cup {scaffoldOperationID(key) : key \in new})
      next == [service EXCEPT !.manifests = (service.manifests \ stale) \cup {Target(key) : key \in new}, !.groups = regrouped.groups]
  IN  IF ~(report.fresh /\ ~report.warnings /\ found.ok /\ found.keys # {} /\ OtherService \notin DOMAIN tree /\ ParsedService(tree, Service)) THEN Refused
      ELSE IF \E p \in service.manifests : ~ParsedOperation(tree, p) THEN Refused
      ELSE Planned(/\ report.project \in {service.id, service.name}
                   /\ \A p \in service.manifests : tree[p].service = service.id
                   /\ \A p, q \in service.manifests : tree[p].id = tree[q].id => p = q
                   /\ \A p \in http : p[1] = "endpoints"
                   /\ \A p, q \in kept : tree[p].key = tree[q].key => p = q
                   /\ \A p \in stale : /\ p = <<"endpoints", tree[p].id>> /\ isReconcileScaffold(tree[p])
                                       /\ Drawn(p) => tree[Diagram(p)] = [kind |-> "diagram", of |-> {tree[p]}]
                   /\ \A p \in DOMAIN tree : safeOperationPath(p) => p \in service.manifests
                   /\ UNION {g.ops : g \in ToSet(service.groups)} \subseteq {op.id : op \in ops}
                   /\ \A key \in new : scaffoldOperationID(key) \notin {op.id : op \in ops} /\ {Target(key), Diagram(Target(key))} \cap DOMAIN tree = {}
                   /\ regrouped.ok,
                   SetToSeq(removed \cup {Created(Target(key), Manifest(key)) : key \in new})
                     \o IF next = service THEN <<>> ELSE <<Change(Service, {service}, {next})>>)

(* files.go: the diagrams are rendered from a checkout that parses whole.  *)
GenerateFiles(tree) ==
  LET service == tree[Service]
      Draw(path, of) == Change(Diagram(path), IF Diagram(path) \in DOMAIN tree THEN {tree[Diagram(path)]} ELSE {}, {[kind |-> "diagram", of |-> of]})
  IN  IF ~ParsedService(tree, Service) THEN Refused
      ELSE IF \E p \in service.manifests : ~ParsedOperation(tree, p) THEN Refused
      ELSE LET drawn == {Draw(Service, {service} \cup {tree[p] : p \in service.manifests})} \cup {Draw(p, {tree[p]}) : p \in service.manifests}
           IN  Planned(/\ \A p \in service.manifests : tree[p].service = service.id
                       /\ \A p, q \in service.manifests : tree[p].id = tree[q].id => p = q
                       /\ \A c \in drawn : \A old \in c.before : old.kind # "unsafe",
                       SetToSeq(drawn))

(* A checkout after one change, or after all of them.                      *)
With(f, key, value) == [k \in DOMAIN f \cup {key} |-> IF k = key THEN value ELSE f[k]]
Applied(tree, c) == IF c.after = {} THEN [p \in DOMAIN tree \ {c.path} |-> tree[p]] ELSE With(tree, c.path, CHOOSE x \in c.after : TRUE)
AllApplied(tree, files) == FoldLeft(Applied, tree, files)

(* audit.go *)
contractrefHTTP(key) == key.method \in {"GET", "POST"}
Signature(o) == [type |-> o.type, key |-> o.key]
Normal(o) == (o.type = "http" => contractrefHTTP(o.key)) /\ o.key.path # "" /\ (o.type = "scheduled" => o.key.method # "")

(* A worker or a schedule may match by its source, if one manifest is left.*)
uniqueSourceOperationManifest(o, manifests, matched) ==
  LET near == {m \in manifests : o.type \in {"worker", "scheduled"} /\ m.type = o.type /\ \E e \in m.evidence : e.source = o.source}
      left == {Signature(m) : m \in {x \in near : Cardinality({y \in manifests : Signature(y) = Signature(x)}) = 1}} \ matched
  IN  IF Cardinality(left) = 1 THEN left ELSE {}

MatchedAll(operations, manifests) ==
  LET Count(o) == Cardinality({m \in manifests : Signature(m) = Signature(o)})
      Step(acc, o) ==
        LET near == uniqueSourceOperationManifest(o, manifests, acc.matched)
        IN  IF ~Normal(o) \/ Count(o) > 1 THEN [acc EXCEPT !.blocked = @ + 1]
            ELSE IF Count(o) = 1 THEN [acc EXCEPT !.with = @ + 1, !.matched = @ \cup {Signature(o)}]
            ELSE IF near # {} THEN [acc EXCEPT !.with = @ + 1, !.matched = @ \cup near]
            ELSE [acc EXCEPT !.missing = @ + 1]
  IN  FoldLeft(Step, [with |-> 0, missing |-> 0, blocked |-> 0, matched |-> {}], operations)

unlistedOperationManifests(tree) == {p \in DOMAIN tree : safeOperationPath(p)} \ tree[Service].manifests
Usable(tree, path) == path \in DOMAIN tree /\ tree[path].kind = "diagram"
auditService(safe, tree, report) ==
  LET service == tree[Service]
      loaded == {p \in service.manifests : ParsedOperation(tree, p) /\ tree[p].service = service.id}
      undrawn == {p \in loaded \cup {Service} : ~Usable(tree, Diagram(p))}
      manifests == {[path |-> p, type |-> tree[p].type, key |-> tree[p].key, evidence |-> tree[p].evidence] : p \in {x \in loaded : Normal(tree[x])}}
      repeated == \E m, n \in manifests : m # n /\ Signature(m) = Signature(n)
      got == MatchedAll(report.operations, manifests)
      Nothing == [has |-> FALSE, blocked |-> TRUE, with |-> 0, missing |-> 0, opsBlocked |-> 0, errors |-> TRUE, unmatched |-> {}]
  IN  IF ~safe THEN Nothing
      ELSE IF Service \notin DOMAIN tree \/ tree[Service].kind = "unsafe" THEN [Nothing EXCEPT !.blocked = FALSE, !.missing = Len(report.operations)]
      ELSE IF ~ParsedService(tree, Service) THEN [Nothing EXCEPT !.missing = Len(report.operations)]
      ELSE [has |-> TRUE, blocked |-> service.manifests # loaded \/ undrawn # {} \/ repeated, with |-> got.with, missing |-> got.missing,
            opsBlocked |-> got.blocked + Cardinality({p \in loaded : ~Normal(tree[p])}),
            errors |-> service.manifests # loaded \/ undrawn # {} \/ unlistedOperationManifests(tree) # {} \/ got.blocked > 0 \/ \E p \in loaded : ~Normal(tree[p]),
            unmatched |-> {Signature(m) : m \in manifests} \ got.matched]
Complete(audit) == audit.has /\ ~audit.blocked /\ ~audit.errors /\ audit.missing = 0 /\ audit.opsBlocked = 0

(* currentverification/verify.go.  A root is looked at, scanned, looked at *)
(* again and, when every root was scanned, audited.                        *)
isArchitectureRolloutPath(path) == IsPrefix(<<".ai", "architecture">>, path)
classify(findings) == IF "failed" \in findings THEN "failed" ELSE IF "stale" \in findings THEN "stale" ELSE "verified"
CodeDirty(root) == {path \in root.changes : ~isArchitectureRolloutPath(path)}

Verify(roots) ==
  LET Repeats(i) == \E j \in 1..(i - 1) : roots[j].canonical = roots[i].canonical
      Scanned(i) == roots[i].canonical # "" /\ ~Repeats(i) /\ roots[i].git /\ roots[i].worktree /\ roots[i].scans
      Looks(i) ==
        IF ~Scanned(i) \/ ~roots[i].gitAfter THEN {"failed"}
        ELSE {"verified"} \cup IF roots[i].before # roots[i].after \/ roots[i].truncated \/ roots[i].report.warnings THEN {"stale"} ELSE {}
      Audited(i) == {j \in DOMAIN roots : roots[i].canonical # "" /\ Scanned(j) /\ roots[j].canonical = roots[i].canonical}
      Audit(i) == LET j == CHOOSE x \in Audited(i) : TRUE IN auditService(roots[j].safe, roots[j].tree, roots[j].report)
      Findings(i) == Looks(i) \cup IF Audited(i) # {} /\ ~Complete(Audit(i)) THEN {"failed"} ELSE {}
  IN  [services |-> [i \in DOMAIN roots |-> IF Audited(i) = {} THEN "failed" ELSE classify(Findings(i))],
       dirty |-> {i \in DOMAIN roots : Scanned(i) /\ roots[i].gitAfter /\ CodeDirty(roots[i]) # {}},
       status |-> classify(UNION {Findings(i) : i \in DOMAIN roots})]

(***************************************************************************)
(* What the tools promise one another.                                     *)
(***************************************************************************)
(* A report the auditor can follow: every identity has a normal form.      *)
Auditable(report) == \A o \in ToSet(report.operations) : o.type = "http" /\ Normal(o)

(* No tool adopts an operation of another kind that its service forgot.    *)
Forgotten(tree) ==
  {p \in DOMAIN tree : Len(p) = 2 /\ p[1] = "operations"} \ (IF Service \in DOMAIN tree THEN tree[Service].manifests ELSE {})

(* What a tool leaves, drawn, satisfies the auditor, and the tool itself   *)
(* has nothing more to do (Audit after ScaffoldHTTPManifests or            *)
(* ReconcileHTTPManifests and GenerateFiles).                              *)
ToolsAgree(tree, report) ==
  \A plan \in {ScaffoldHTTPManifests(tree, report), ReconcileHTTPManifests(tree, report)} :
    plan.ok /\ plan.files # <<>> /\ Auditable(report) /\ Forgotten(tree) = {} =>
      LET left == AllApplied(tree, plan.files)
          drawn == GenerateFiles(left)
      IN  drawn.ok /\ Complete(auditService(TRUE, AllApplied(left, drawn.files), report))

(* Reconciling touches no file it does not own: what was authored stays    *)
(* and every other operation keeps its place in the service.               *)
AuthoredStays(tree, report) ==
  LET plan == ReconcileHTTPManifests(tree, report)
      left == AllApplied(tree, plan.files)
      again == ReconcileHTTPManifests(left, report)
  IN  plan.ok =>
        /\ \A p \in DOMAIN tree : (tree[p].kind = "operation" /\ (tree[p].type # "http" \/ tree[p].statements # {scaffoldUnknown(tree[p].evidence)})) =>
             /\ p \in DOMAIN left /\ left[p] = tree[p] /\ p \in left[Service].manifests
             /\ \A g \in ToSet(tree[Service].groups) : tree[p].id \in g.ops => \E h \in ToSet(left[Service].groups) : tree[p].id \in h.ops
        /\ again.ok /\ again.files = <<>>
        /\ {left[p].key : p \in {x \in left[Service].manifests : left[x].type = "http"}} = scaffoldDiscoveredHTTP(report).keys

(* CURRENT is verified only if every root was looked at whole, did not     *)
(* move between the looks and has a complete architecture; a bad root      *)
(* hides nothing of the others.                                            *)
VerifiedIsProven(roots) ==
  LET out == Verify(roots)
  IN  /\ out.status = "verified" <=> \A i \in DOMAIN roots : out.services[i] = "verified"
      /\ \A i \in DOMAIN roots : out.services[i] = "verified" =>
           /\ roots[i].before = roots[i].after /\ ~roots[i].truncated /\ ~roots[i].report.warnings
           /\ Complete(auditService(TRUE, roots[i].tree, roots[i].report))
      /\ \A i \in DOMAIN roots : (\A j \in 1..(i - 1) : roots[j].canonical # roots[i].canonical) => out.services[i] = Verify(<<roots[i]>>).services[1]
=============================================================================
