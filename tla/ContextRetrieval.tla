--------------------------- MODULE ContextRetrieval ---------------------------
(***************************************************************************)
(* Context packs for an agent: a bounded, read-only retrieval over the     *)
(* sources a caller admits (Prepare), and its extension by one facet       *)
(* (Expand).  The sources may change at any time; every load of them is    *)
(* one tree, so Prepare has two trees and Expand a sequence of them.       *)
(*                                                                         *)
(* A tree is the sequence of its files in the order of the scan, source by *)
(* source.  The text of a file is a sequence of lines and stands for its   *)
(* hash as well; a line costs one byte.  A scope is a set of paths.        *)
(***************************************************************************)
EXTENDS Integers, FiniteSetsExt, SequencesExt

(* What a tool is asked, one question at a time; its topic is about.       *)
VARIABLE question

About(topic) == question.about = topic

(* The elements of a finite set by increasing rank, no two of one rank;    *)
(* the elements of a sequence at some of its positions.                    *)
InOrder(set, rank) ==
  [k \in 1..Cardinality(set) |-> CHOOSE x \in set : Cardinality({y \in set : rank[y] < rank[x]}) = k - 1]
ItemsAt(s, positions) == LET order == InOrder(positions, [i \in positions |-> i]) IN [k \in DOMAIN order |-> s[order[k]]]

Note(code, status, facet, path) == [code |-> code, status |-> status, facet |-> facet, path |-> path]

(* Admission.                                                              *)
SecretPathComponent(path) == path \in {".env", "auth.json"}
PathAdmitted(source, path) == ~SecretPathComponent(path) /\ path \notin source.exclude /\ path \in source.read
Source(request, id) == CHOOSE s \in ToSet(request.sources) : s.id = id
Known(request, id) == \E s \in ToSet(request.sources) : s.id = id
FacetAdmitted(request, f) == Known(request, f.source) /\ (f.path = "" \/ PathAdmitted(Source(request, f.source), f.path))

(* A policy applies to a task that asks for something of its subtree.      *)
PolicyApplies(facets, policy) ==
  policy.everywhere \/ \E f \in ToSet(facets) :
    f.source = policy.source /\ f.path \notin {"", policy.path} /\ f.kind # "policy" /\ f.path \in policy.scope

PolicyFacet(policy) ==
  [id |-> policy.id, source |-> policy.source, path |-> policy.path, symbol |-> "", query |-> "exact", kind |-> "policy",
   hash |-> policy.text, claim |-> [type |-> "rule", key |-> "", value |-> ""], required |-> TRUE]

(* One plan per request: facets keep their identity, applicable policies   *)
(* become required facets.                                                 *)
BuildPlan(request) ==
  LET ids == {f.id : f \in ToSet(request.facets)}
      facets == SetToSeq(ToSet(request.facets))
      applicable == {p \in request.policies : PolicyApplies(facets, p)}
  IN  [ok |-> /\ request.sources # <<>> /\ Cardinality({s.id : s \in ToSet(request.sources)}) = Len(request.sources)
              /\ Cardinality(ids) = Len(facets)
              /\ \A p \in request.policies : Known(request, p.source) /\ PathAdmitted(Source(request, p.source), p.path)
              /\ \A p \in applicable : p.id \notin ids
              /\ request.budget.reserve < request.budget.tokens,
       facets |-> facets \o SetToSeq({PolicyFacet(p) : p \in applicable}),
       history |-> <<>>,
       unresolved |-> {Note("NOT_ADMITTED", "BLOCKED", f.id, f.path) : f \in {g \in ToSet(facets) : ~FacetAdmitted(request, g)}}
                      \cup IF facets = <<>> THEN {Note("NO_EVIDENCE_REQUIREMENTS", "PARTIAL", "", "")} ELSE {}]
Required(plan) == {f \in ToSet(plan.facets) : f.required}

(* One bounded scan; the byte limit is shared by the sources.              *)
Document(file, s) ==
  [source |-> s.id, path |-> file.path, text |-> file.text, kind |-> file.kind, parses |-> file.parses, symbols |-> file.symbols,
   cites |-> file.cites, external |-> s.external, dirty |-> s.dirty]
Visit(request, out, file) ==
  LET s == Source(request, file.source)
      Skip(code, whole) ==
        [out EXCEPT !.skipped = @ \cup {[source |-> s.id, path |-> file.path, code |-> code]},
                    !.notes = @ \cup {Note(code, IF whole THEN "COMPLETE" ELSE "PARTIAL", "", file.path)}, !.partial = @ \cup IF whole THEN {} ELSE {s.id}]
  IN  IF ~Known(request, file.source) THEN out
      ELSE IF ~PathAdmitted(s, file.path) THEN Skip("EXCLUDED_BY_POLICY", TRUE)
      ELSE IF ~file.regular THEN Skip("FILE_TYPE_EXCLUDED", TRUE)
      ELSE IF ~file.readable THEN Skip("UNREADABLE_SOURCE", FALSE)
      ELSE IF Len(file.text) > request.limits.fileBytes THEN Skip("SOURCE_TOO_LARGE", FALSE)
      ELSE IF Len(file.text) > out.left THEN Skip("BYTE_LIMIT", FALSE)
      ELSE IF file.secret THEN Skip("SECRET_CONTENT_EXCLUDED", TRUE)
      ELSE [out EXCEPT !.docs = Append(@, Document(file, s)), !.left = @ - Len(file.text)]
Unvisited(request) ==
  [docs |-> <<>>, skipped |-> {}, notes |-> {}, left |-> request.limits.totalBytes, partial |-> {}]
loadFilesystem(request, tree) ==
  LET visited[n \in 0..Len(tree)] == IF n = 0 THEN Unvisited(request) ELSE Visit(request, visited[n - 1], tree[n])
  IN  visited[Len(tree)]

Doc(snapshot, source, path) == {d \in ToSet(snapshot.docs) : d.source = source /\ d.path = path}

(* Nothing is absent that was not looked for completely.                   *)
CoverageForFacet(snapshot, f, found) ==
  LET codes == {n.code : n \in {x \in snapshot.skipped : x.source = f.source /\ f.path # "" /\ x.path = f.path}}
      whole == f.source \notin snapshot.partial
  IN  [facet |-> f.id, complete |-> whole /\ (found \/ codes = {}),
       state |-> IF found THEN "FOUND"
                 ELSE IF codes \cap {"SOURCE_TOO_LARGE", "BYTE_LIMIT"} # {} THEN "OMITTED_BY_LIMIT"
                 ELSE IF "UNREADABLE_SOURCE" \in codes THEN "UNREADABLE"
                 ELSE IF codes # {} THEN "EXCLUDED_BY_POLICY"
                 ELSE IF whole THEN "NOT_FOUND" ELSE "NOT_VERIFIED"]

(* Evidence is an exact excerpt of a document, whole unless a symbol is    *)
(* asked of a source file.                                                 *)
CandidateFromDocument(d, f, kind, provenance, span) ==
  [source |-> d.source, path |-> d.path, text |-> d.text, span |-> span, content |-> SubSeq(d.text, span[1], span[2]),
   symbol |-> f.symbol, kind |-> kind, query |-> f.query, claim |-> f.claim, hash |-> f.hash, facets |-> {f.id}, required |-> f.required,
   provenance |-> IF d.external THEN "external" ELSE provenance, fresh |-> IF d.dirty THEN "DIRTY" ELSE "CURRENT", pins |-> {}]
WholeSpan(d) == <<1, Len(d.text)>>
documentProvenance(d) == IF d.kind = "diagram" THEN "generated" ELSE IF d.kind \in {"test", "doc"} THEN d.kind ELSE "source"

Selected(snapshot, f) ==
  LET docs == snapshot.docs IN ItemsAt(docs, {i \in DOMAIN docs : docs[i].source = f.source /\ (f.path = "" \/ docs[i].path = f.path)})

capResult(result, limit) ==
  IF Len(result.found) <= limit THEN result
  ELSE [found |-> SubSeq(result.found, 1, limit), coverage |-> [result.coverage EXCEPT !.complete = FALSE],
        notes |-> result.notes \cup {Note("RESULT_LIMIT", "PARTIAL", result.coverage.facet, "")}]
WithNotes(snapshot, f, found, notes) ==
  LET coverage == CoverageForFacet(snapshot, f, found # <<>>)
  IN  [found |-> found, notes |-> notes,
       coverage |-> IF notes = {} THEN coverage
                    ELSE [coverage EXCEPT !.complete = FALSE, !.state = IF found = <<>> THEN "NOT_VERIFIED" ELSE @]]

ExactResolve(snapshot, f) ==
  LET docs == Selected(snapshot, f)
  IN  WithNotes(snapshot, f, [i \in DOMAIN docs |-> CandidateFromDocument(docs[i], f, f.kind, documentProvenance(docs[i]), WholeSpan(docs[i]))], {})

(* A manifest that does not parse is no evidence; citations it makes that  *)
(* are unpinned, absent or stale are reported.                             *)
CitationNotes(snapshot, f, d) ==
  {Note("METADATA_CITATION", "PARTIAL", f.id, c.path) : c \in {x \in d.cites : x.text \notin {e.text : e \in Doc(snapshot, d.source, x.path)}}}
MetadataResolve(snapshot, f) ==
  LET docs == Selected(snapshot, f)
      Is(d) == f.path # "" \/ d.kind = "manifest"
      parsed == ItemsAt(docs, {i \in DOMAIN docs : Is(docs[i]) /\ docs[i].parses})
      notes == {Note("ARCHITECTURE_METADATA_INVALID", "INVALID", f.id, d.path) : d \in {x \in ToSet(docs) : Is(x) /\ ~x.parses}}
               \cup UNION {CitationNotes(snapshot, f, d) : d \in ToSet(parsed)}
      One(d) == [CandidateFromDocument(d, f, "metadata", IF d.kind = "manifest" THEN "metadata" ELSE documentProvenance(d), WholeSpan(d)) EXCEPT !.pins = d.cites]
  IN  WithNotes(snapshot, f, [i \in DOMAIN parsed |-> One(parsed[i])], notes)

(* A contract is a Go declaration or a parsed manifest.                    *)
ContractResolve(snapshot, f) ==
  LET docs == Selected(snapshot, f)
      Has(d) == (d.kind = "manifest" => d.parses) /\ (f.symbol = "" \/ f.symbol \in DOMAIN d.symbols)
      having == ItemsAt(docs, {i \in DOMAIN docs : Has(docs[i])})
      notes == {Note("ARCHITECTURE_METADATA_INVALID", "INVALID", f.id, d.path) : d \in {x \in ToSet(docs) : x.kind = "manifest" /\ ~x.parses}}
      One(d) == CandidateFromDocument(d, f, "contract", IF d.kind = "manifest" THEN "metadata" ELSE "source",
                                      IF f.symbol # "" /\ d.kind = "source" THEN d.symbols[f.symbol] ELSE WholeSpan(d))
  IN  IF f.path = "" /\ f.symbol = ""
      THEN [found |-> <<>>, notes |-> {Note("CONTRACT_SELECTOR_REQUIRED", "PARTIAL", f.id, "")}, coverage |-> [facet |-> f.id, complete |-> FALSE, state |-> "NOT_VERIFIED"]]
      ELSE WithNotes(snapshot, f, [i \in DOMAIN having |-> One(having[i])], notes)

(* A captured graph is generated evidence with pins; that its pins match   *)
(* does not verify the revision they were captured at.                     *)
GraphResolve(snapshot, f) ==
  LET docs == Selected(snapshot, f)
      d == docs[1]
      Cited(p) == {e.text : e \in Doc(snapshot, f.source, p.path)}
      stale == \E p \in d.cites : Cited(p) # {} /\ p.text \notin Cited(p)
      notes == {Note(IF Cited(p) = {} THEN "GRAPH_DECLARATION_NOT_VERIFIED"
                     ELSE IF p.text \notin Cited(p) THEN "GRAPH_DECLARATION_CONTENT_STALE"
                     ELSE "CAPTURED_GIT_REVISION_UNVERIFIED", "PARTIAL", f.id, p.path) : p \in d.cites}
      fresh == IF stale THEN "STALE" ELSE IF d.cites = {} \/ \E p \in d.cites : Cited(p) = {} THEN "UNVERIFIED" ELSE IF d.dirty THEN "DIRTY" ELSE "CURRENT"
  IN  IF f.path = "" \/ docs = <<>> THEN WithNotes(snapshot, f, <<>>, IF f.path = "" THEN {Note("ARCHITECTURE_GRAPH_NOT_PROVIDED", "PARTIAL", f.id, "")} ELSE {})
      ELSE IF ~d.parses THEN WithNotes(snapshot, f, <<>>, {Note("ARCHITECTURE_GRAPH_INVALID", "INVALID", f.id, f.path)})
      ELSE WithNotes(snapshot, f, <<[CandidateFromDocument(d, f, "architecture", "generated", WholeSpan(d)) EXCEPT !.pins = d.cites, !.fresh = fresh]>>,
                     IF d.cites = {} THEN {Note("GRAPH_DECLARATIONS_UNAVAILABLE", "PARTIAL", f.id, "")} ELSE notes)

Resolve(request, snapshot, f) ==
  IF f.query = "exact" THEN capResult(ExactResolve(snapshot, f), request.limits.results)
  ELSE IF f.query = "metadata" THEN capResult(MetadataResolve(snapshot, f), request.limits.results)
  ELSE IF f.query = "contract" THEN capResult(ContractResolve(snapshot, f), request.limits.results)
  ELSE IF f.query = "architecture" THEN GraphResolve(snapshot, f)
  ELSE [found |-> <<>>, notes |-> {Note("UNSUPPORTED_QUERY", "UNSUPPORTED", f.id, "")},
        coverage |-> [facet |-> f.id, complete |-> FALSE, state |-> "UNSUPPORTED"]]

(* All facets share one limit on results; what it cuts off is reported.    *)
BoundedResults(out, f, part, results) ==
  LET room == results - Len(out.found)
      cut == Len(part.found) > room
  IN  [found |-> out.found \o SubSeq(part.found, 1, IF cut THEN room ELSE Len(part.found)),
       coverage |-> out.coverage \cup {part.coverage} \cup (IF cut THEN {[facet |-> f.id, complete |-> FALSE, state |-> "OMITTED_BY_LIMIT"]} ELSE {}),
       notes |-> out.notes \cup part.notes \cup (IF cut THEN {Note("RESULT_LIMIT", "PARTIAL", f.id, "")} ELSE {})]
Retrieved(request, snapshot, out, f) ==
  IF ~FacetAdmitted(request, f)
  THEN [out EXCEPT !.coverage = @ \cup {[facet |-> f.id, complete |-> FALSE, state |-> "EXCLUDED_BY_POLICY"]}]
  ELSE BoundedResults(out, f, Resolve(request, snapshot, f), request.limits.results)
retrieve(request, snapshot, facets) ==
  LET after[n \in 0..Len(facets)] ==
        IF n = 0 THEN [found |-> <<>>, coverage |-> {}, notes |-> {}] ELSE Retrieved(request, snapshot, after[n - 1], facets[n])
  IN  after[Len(facets)]

(* Evidence is what the snapshot says, whatever a resolver or a caller     *)
(* claims of it; only registered bytes are a policy.                       *)
Registered(plan, policies, c) ==
  \E p \in policies : p.source = c.source /\ p.path = c.path /\ p.text = c.text /\ PolicyApplies(plan.facets, p)
SpanVerified(snapshot, c) ==
  \E d \in Doc(snapshot, c.source, c.path) :
    d.text = c.text /\ c.span \in (1..(Len(d.text) + 1)) \X (0..Len(d.text)) /\ c.span[1] <= c.span[2] + 1 /\ SubSeq(d.text, c.span[1], c.span[2]) = c.content
verifyCandidates(plan, policies, snapshot, found) ==
  LET valid == ItemsAt(found, {i \in DOMAIN found : SpanVerified(snapshot, found[i])})
      Cited(c) == {p \in c.pins : p.text \notin {d.text : d \in Doc(snapshot, c.source, p.path)}}
  IN  [found |-> [i \in DOMAIN valid |-> IF Registered(plan, policies, valid[i]) THEN [valid[i] EXCEPT !.provenance = "policy"] ELSE valid[i]],
       notes |-> {Note("SOURCE_SPAN_UNVERIFIED", "PARTIAL", "", c.path) : c \in ToSet(found) \ ToSet(valid)}
                 \cup UNION {{Note("CITATION_NOT_VERIFIED", "PARTIAL", "", p.path) : p \in Cited(c)} : c \in {x \in ToSet(valid) : x.kind = "metadata"}}]

(* Authority depends on the kind of the claim, never on who asks.          *)
ClaimAuthority(c) ==
  LET contract == c.kind = "contract" \/ c.query = "contract"
      Is(kinds) == c.provenance \in kinds
      primary == CASE c.claim.type = "ownership" -> Is({"metadata", "policy"}) \/ contract
                   [] c.claim.type = "api"       -> contract /\ Is({"source", "metadata", "policy"})
                   [] c.claim.type = "behavior"  -> Is({"source"})
                   [] OTHER                      -> Is({"policy"})
      supporting == CASE c.claim.type = "ownership" -> Is({"source"})
                      [] c.claim.type = "api"       -> Is({"source", "test"})
                      [] c.claim.type = "behavior"  -> Is({"test"})
                      [] OTHER                      -> Is({"metadata", "source"}) \/ contract
  IN  IF Is({"generated", "external"}) THEN "CONTEXT" ELSE IF primary THEN "PRIMARY" ELSE IF supporting THEN "SUPPORTING" ELSE "CONTEXT"

(* Two excerpts of a document merge when they overlap and agree.           *)
qualityMergeSpans(a, b) ==
  LET first == Min({a.span[1], b.span[1]})
      last == Max({a.span[2], b.span[2]})
      In(c, line) == line \in c.span[1]..c.span[2]
      Line(c, line) == c.content[line - c.span[1] + 1]
  IN  IF \/ a.span[1] > b.span[2] \/ b.span[1] > a.span[2]
         \/ \E line \in first..last : In(a, line) /\ In(b, line) /\ Line(a, line) # Line(b, line)
      THEN [ok |-> FALSE, merged |-> a]
      ELSE [ok |-> TRUE,
            merged |-> [a EXCEPT !.span = <<first, last>>,
                                 !.content = [n \in 1..(last - first + 1) |-> IF In(a, first + n - 1) THEN Line(a, first + n - 1) ELSE Line(b, first + n - 1)]]]

DedupKey(c) == [c EXCEPT !.span = <<>>, !.content = <<>>, !.facets = {}, !.required = FALSE, !.query = "", !.hash = "", !.pins = {}]
EvidenceID(c) == <<c.source, c.path, c.text, c.symbol, c.kind, c.span, c.claim>>
Together(a, c) ==
  [qualityMergeSpans(a, c).merged EXCEPT !.facets = @ \cup c.facets, !.required = @ \/ c.required, !.pins = @ \cup c.pins]
Joined(out, c) ==
  LET hits == {i \in DOMAIN out : DedupKey(out[i]) = DedupKey(c) /\ qualityMergeSpans(out[i], c).ok}
  IN  IF hits = {} THEN Append(out, c)
      ELSE [out EXCEPT ![Min(hits)] = Together(@, c)]
qualityDeduplicate(found) ==
  LET joined[n \in 0..Len(found)] == IF n = 0 THEN <<>> ELSE Joined(joined[n - 1], found[n])
  IN  joined[Len(found)]

(* Intended API and actual behaviour are one question.                     *)
ClaimGroup(c) == <<IF c.claim.type \in {"api", "behavior"} THEN "behavior" ELSE c.claim.type, c.claim.key>>
qualityConflicts(claims) ==
  LET stated == {c \in claims : c.claim.key # "" /\ c.claim.value # ""}
      Group(c) == {d \in stated : ClaimGroup(d) = ClaimGroup(c)}
  IN  {[group |-> ClaimGroup(c), ids |-> {EvidenceID(d) : d \in Group(c)}] :
         c \in {x \in stated : Cardinality({d.claim.value : d \in Group(x)}) > 1}}

(* Noncurrent evidence is withheld and reported, but its claim still       *)
(* counts as a participant of a conflict.                                  *)
Freshness(plan, snapshot, c) ==
  LET generated == c.provenance = "generated"
      Pinned(p) == p.text \in {d.text : d \in Doc(snapshot, c.source, p.path)}
      Moved(p) == Doc(snapshot, c.source, p.path) # {} /\ ~Pinned(p)
  IN  IF generated /\ (\E p \in c.pins : Moved(p)) THEN "STALE"
      ELSE IF generated /\ (c.pins = {} \/ \E p \in c.pins : ~Pinned(p)) THEN "UNVERIFIED"
      ELSE IF c.hash # <<>> /\ c.hash # c.text THEN "STALE"
      ELSE c.fresh
analyzeQuality(plan, policies, snapshot, found) ==
  LET Judged(c) == [c EXCEPT !.fresh = Freshness(plan, snapshot, c),
                             !.required = c.required \/ \E f \in Required(plan) : f.id \in c.facets,
                             !.provenance = IF Registered(plan, policies, c) THEN "policy" ELSE IF c.provenance = "policy" THEN "doc" ELSE @]
      claims == [i \in DOMAIN found |-> Judged(found[i])]
      current == ItemsAt(claims, {i \in DOMAIN claims : claims[i].fresh \in {"CURRENT", "DIRTY"}})
      withheld == ToSet(claims) \ ToSet(current)
  IN  [found |-> qualityDeduplicate(current), conflicts |-> qualityConflicts(ToSet(claims)),
       notes |-> {Note("EVIDENCE_FRESHNESS", "PARTIAL", "", c.path) : c \in withheld},
       omissions |-> {[id |-> EvidenceID(c), reason |-> "FRESHNESS", required |-> c.required] : c \in withheld}]

(* Whole units are packed while they fit: first what is mandatory, then by *)
(* rank.  What does not fit is an omission, and a mandatory one blocks.    *)
Bytes(evidence, at) == Cardinality(UNION {{i} \X DOMAIN evidence[i].content : i \in at})
Tokens(evidence, at) == Bytes(evidence, at) + Cardinality(at)
measurePack(pack, previous) ==
  LET all == DOMAIN pack.evidence
      bytes == Bytes(pack.evidence, all)
      tokens == Tokens(pack.evidence, all) + Cardinality(pack.questions) + Cardinality(pack.omissions)
      More(cumulative, last, now) == (IF cumulative = 0 THEN last ELSE cumulative) + Max({0, now - last})
  IN  [pack EXCEPT !.used = [bytes |-> bytes, tokens |-> tokens, count |-> previous.count,
                             allBytes |-> More(previous.allBytes, previous.bytes, bytes),
                             allTokens |-> More(previous.allTokens, previous.tokens, tokens)]]

packBudgetViolation(pack, budget) ==
  \/ pack.used.allBytes > budget.bytes
  \/ Max({pack.used.tokens, pack.used.allTokens}) + budget.reserve > budget.tokens
  \/ budget.perSource > 0 /\ \E id \in {c.source : c \in ToSet(pack.evidence)} :
       Bytes(pack.evidence, {i \in DOMAIN pack.evidence : pack.evidence[i].source = id}) > budget.perSource
  \/ budget.perFacet > 0 /\ \E id \in UNION {c.facets : c \in ToSet(pack.evidence)} :
       Tokens(pack.evidence, {i \in DOMAIN pack.evidence : id \in pack.evidence[i].facets}) > budget.perFacet

Rank(c, mandatory) ==
  (IF c \in mandatory THEN 0 ELSE 6) + (IF c.required THEN 0 ELSE 3) +
  (IF ClaimAuthority(c) = "PRIMARY" THEN 0 ELSE IF ClaimAuthority(c) = "SUPPORTING" THEN 1 ELSE 2)
Ranked(found, mandatory) ==
  LET order == InOrder(DOMAIN found, [i \in DOMAIN found |-> Rank(found[i], mandatory) * (Len(found) + 1) + i])
  IN  [k \in DOMAIN order |-> found[order[k]]]

(* The worst of what was met decides the status of the pack.               *)
StatusOf(request, pack) ==
  LET levels == {n.status : n \in pack.questions}
  IN  IF request.ownerReview \/ levels \cap {"BLOCKED", "INVALID"} # {} THEN "BLOCKED"
      ELSE IF (\E c \in pack.coverage : ~c.complete) \/ pack.conflicts # {} \/ levels \ {"COMPLETE"} # {} \/ ~request.routed THEN "PARTIAL"
      ELSE "COMPLETE"

MissingFacets(plan, pack) == {f \in Required(plan) : \A c \in ToSet(pack.evidence) : f.id \notin c.facets}
MissingPolicies(request, plan, pack) ==
  {p \in request.policies : PolicyApplies(plan.facets, p) /\
     ~\E c \in ToSet(pack.evidence) : c.provenance = "policy" /\ c.source = p.source /\ c.path = p.path /\ c.text = p.text}

(* What is still missing is asked for, and the questions are paid for too. *)
Questioned(request, plan, pack) ==
  [pack EXCEPT !.questions = @ \cup {Note("REQUIRED_EVIDENCE", "PARTIAL", f.id, f.path) : f \in MissingFacets(plan, pack)}
                               \cup {Note("TRUSTED_POLICY_INVALIDATED", "BLOCKED", "", p.path) : p \in MissingPolicies(request, plan, pack)}]
Bounded(request, pack, previous) ==
  IF ~packBudgetViolation(pack, request.budget) THEN pack
  ELSE measurePack([pack EXCEPT !.questions = @ \cup {Note("BUDGET_UNSATISFIED", "BLOCKED", "", "")}], previous)
Finished(request, pack) == [pack EXCEPT !.status = StatusOf(request, pack)]
PutWhole(request, pack, trial, c, mandatory) ==
  IF ~packBudgetViolation(trial, request.budget) THEN trial
  ELSE [pack EXCEPT !.omissions = @ \cup {[id |-> EvidenceID(c), reason |-> "BUDGET", required |-> c \in mandatory]},
                    !.questions = @ \cup IF c \in mandatory THEN {Note("BUDGET_UNSATISFIED", "BLOCKED", "", c.path)} ELSE {}]

Put(request, pack, c, mandatory, previous) ==
  PutWhole(request, pack, measurePack([pack EXCEPT !.evidence = Append(@, c)], previous), c, mandatory)
BuildPack(request, plan, sources, quality, coverage, notes, previous) ==
  LET participants == UNION {x.ids : x \in quality.conflicts}
      mandatory == {c \in ToSet(quality.found) : c.required \/ c.provenance = "policy" \/ EvidenceID(c) \in participants}
      ranked == Ranked(quality.found, mandatory)
      empty == [plan |-> plan, status |-> "", evidence |-> <<>>, sources |-> sources, coverage |-> coverage, questions |-> plan.unresolved \cup notes \cup quality.notes,
                conflicts |-> quality.conflicts, omissions |-> quality.omissions, used |-> previous]
      packed[n \in 0..Len(ranked)] == IF n = 0 THEN empty ELSE Put(request, packed[n - 1], ranked[n], mandatory, previous)
  IN  Finished(request, Bounded(request, measurePack(Questioned(request, plan, packed[Len(ranked)]), previous), previous))

Nothing == [bytes |-> 0, tokens |-> 0, count |-> 0, allBytes |-> 0, allTokens |-> 0]
NoPack == [ok |-> FALSE]
FirstLoadOnly(a, b) == TRUE
sameSnapshots(a, b) == a = b

(* Prepare: what the second load finds changed is an error, not evidence.  *)
PackOf(request, plan, snapshot, got) ==
  LET checked == verifyCandidates(plan, request.policies, snapshot, got.found)
      quality == analyzeQuality(plan, request.policies, snapshot, checked.found)
  IN  BuildPack(request, plan, snapshot, quality, got.coverage \cup {[facet |-> "", complete |-> s.id \notin snapshot.partial, state |-> ""] : s \in ToSet(request.sources)},
                snapshot.notes \cup got.notes \cup checked.notes, Nothing)
Prepare(request, before, after) ==
  LET plan == BuildPlan(request)
      snapshot == loadFilesystem(request, before)
  IN  IF ~plan.ok \/ ~sameSnapshots(snapshot, loadFilesystem(request, after)) THEN NoPack
      ELSE [ok |-> TRUE, pack |-> PackOf(request, plan, snapshot, retrieve(request, snapshot, plan.facets))]

(* What an expansion may still cost, and what it did cost.                 *)
checkRemainingBudget(budget, used, remaining) ==
  /\ used.allBytes <= budget.bytes /\ used.allTokens + budget.reserve <= budget.tokens
  /\ remaining.bytes <= budget.bytes - used.allBytes
  /\ remaining.tokens <= budget.tokens - used.allTokens - budget.reserve
additionalBudgetExceeded(budget, base, pack, ask) ==
  LET old == {EvidenceID(c) : c \in ToSet(base.evidence)}
      all == DOMAIN pack.evidence
      added == {i \in all : EvidenceID(pack.evidence[i]) \notin old}
      left == ask.remaining
  IN  \/ left.bytes > 0 /\ pack.used.allBytes - base.used.allBytes > left.bytes
      \/ left.tokens > 0 /\ pack.used.allTokens - base.used.allTokens > left.tokens
      \/ left.perFacet > 0 /\ Tokens(pack.evidence, {i \in all : ask.facet.id \in pack.evidence[i].facets}) > left.perFacet
      \/ left.perSource > 0 /\ \E s \in {pack.evidence[i].source : i \in added} :
           Bytes(pack.evidence, {i \in added : pack.evidence[i].source = s}) > left.perSource
failedDelta(base) == [ok |-> TRUE, grown |-> FALSE, pack |-> base]

VerifyDigest(pack) ==
  /\ pack.used.bytes = Bytes(pack.evidence, DOMAIN pack.evidence)
  /\ pack.used.allBytes >= pack.used.bytes /\ pack.used.allTokens >= pack.used.tokens /\ pack.used.count >= 0

(* The pack of the base and of what the new facet finds.                   *)
GrownPack(request, next, base, snapshot, prior, got) ==
  LET kept == [i \in DOMAIN prior.found |-> [prior.found[i] EXCEPT !.required = TRUE]]
      checked == verifyCandidates(next, request.policies, snapshot, got.found)
      quality == analyzeQuality(next, request.policies, snapshot, kept \o checked.found)
  IN  BuildPack(request, next, snapshot, quality, base.coverage \cup got.coverage, base.questions \cup prior.notes \cup checked.notes \cup got.notes,
                [base.used EXCEPT !.count = @ + 1])
Affordable(request, base, ask, pack) ==
  IF (\E n \in pack.questions : n.code = "BUDGET_UNSATISFIED") \/ additionalBudgetExceeded(request.budget, base, pack, ask) THEN failedDelta(base)
  ELSE [ok |-> TRUE, grown |-> TRUE, pack |-> pack]

(* One expansion of a base that was taken from the same sources.           *)
Grown(plan, base, ask) ==
  LET initial == {g.id : g \in ToSet(plan.facets)} \cup {ask.facet.id}
      old == base.plan.facets
  IN  [plan EXCEPT !.facets = Append(@, ask.facet) \o (IF base.plan.history = <<>> THEN <<>> ELSE ItemsAt(old, {i \in DOMAIN old : old[i].id \notin initial})),
                   !.history = Append(base.plan.history, ask)]
ExpandOnce(request, base, ask, before, after) ==
  LET plan == BuildPlan(request)
      snapshot == loadFilesystem(request, before)
      f == ask.facet
      prior == verifyCandidates(plan, request.policies, snapshot, base.evidence)
  IN  IF ~VerifyDigest(base) \/ ~plan.ok \/ ~FacetAdmitted(request, f) \/ snapshot # base.sources THEN NoPack
      ELSE IF base.used.count >= request.limits.depth THEN failedDelta(base)
      ELSE IF ~checkRemainingBudget(request.budget, base.used, ask.remaining) THEN failedDelta(base)
      ELSE IF (\E g \in ToSet(base.plan.facets) : g.id = f.id /\ g # f) \/ Len(prior.found) # Len(base.evidence) THEN NoPack
      ELSE IF ~sameSnapshots(snapshot, loadFilesystem(request, after)) THEN NoPack
      ELSE Affordable(request, base, ask, GrownPack(request, Grown(plan, base, ask), base, snapshot, prior, retrieve(request, snapshot, <<f>>)))

(* The base is only a cache: it counts if preparing the request and        *)
(* replaying its history gives it again.                                   *)
Replayed(request, before, after, history) ==
  LET replay[n \in 0..Len(history)] ==
        IF n = 0 THEN Prepare(request, before, after)
        ELSE IF ~replay[n - 1].ok THEN NoPack ELSE ExpandOnce(request, replay[n - 1].pack, history[n], after, after)
  IN  replay[Len(history)]
IsBase(base, end) == end.ok /\ end.pack = base
ReplayGives(request, base, before, after) ==
  Len(base.plan.history) <= request.limits.depth /\ IsBase(base, Replayed(request, before, after, base.plan.history))

Expand(request, base, ask, trees) ==
  IF ~ReplayGives(request, base, trees[2], trees[3]) THEN NoPack ELSE ExpandOnce(request, base, ask, trees[1], trees[4])

(***************************************************************************)
(* What a pack promises.  A question q has the request and the trees the   *)
(* loads meet, an expansion also the base it is given and what it asks.    *)
(***************************************************************************)
(* Whatever moves while a pack is made, its evidence is what the last load *)
(* reads, inside the admission.                                            *)
Excerpt(tree, c) ==
  \E file \in ToSet(tree) : /\ file.source = c.source /\ file.path = c.path /\ file.text = c.text /\ ~file.secret
                            /\ SubSeq(file.text, c.span[1], c.span[2]) = c.content
EvidenceIsCurrent(request, pack, tree) ==
  \A c \in ToSet(pack.evidence) : Excerpt(tree, c) /\ Known(request, c.source) /\ PathAdmitted(Source(request, c.source), c.path)

(* A complete pack answers every required facet of the request with        *)
(* current evidence it is admitted to read, under all applicable policies, *)
(* with no conflict open and no source partly read; and no facet that is   *)
(* required is silently missing from any pack.                             *)
CompleteIsWhole(request, pack, tree) ==
  LET facets == {f \in ToSet(request.facets) : f.required}
      evidence == ToSet(pack.evidence)
      Answered(f) == \E c \in evidence : f.id \in c.facets
      Gap(s) == \E file \in ToSet(tree) : file.source = s.id /\ PathAdmitted(s, file.path) /\ file.regular /\ ~file.readable
  IN  /\ \A f \in facets : Answered(f) \/ \E n \in pack.questions : n.facet = f.id /\ n.status # "COMPLETE"
      /\ pack.status = "COMPLETE" =>
           /\ \A f \in facets : Answered(f)
           /\ \A s \in ToSet(request.sources) : ~Gap(s)
           /\ \A p \in request.policies : p.everywhere => \E c \in evidence : c.path = p.path /\ c.text = p.text
           /\ \A c, d \in evidence : ClaimGroup(c) = ClaimGroup(d) /\ c.claim.key # "" /\ "" \notin {c.claim.value, d.claim.value} => c.claim.value = d.claim.value
           /\ pack.used.allTokens + request.budget.reserve <= request.budget.tokens

TruePack(request, got, tree) == got.ok => EvidenceIsCurrent(request, got.pack, tree) /\ CompleteIsWhole(request, got.pack, tree)
PackIsTrue(q) == TruePack(q.request, Prepare(q.request, q.trees[1], q.trees[2]), q.trees[2])

(* An expansion keeps what the base had, refunds no cost, and stays within *)
(* depth and budget.                                                       *)
Keeps(base, pack) ==
  \A c \in ToSet(base.evidence) : \E d \in ToSet(pack.evidence) :
    d.path = c.path /\ d.source = c.source /\ d.span[1] <= c.span[1] /\ d.span[2] >= c.span[2]
CostsAdd(request, base, ask, got) ==
  LET used == got.pack.used
  IN  /\ used.allBytes >= base.used.allBytes /\ used.allTokens >= base.used.allTokens
      /\ used.allBytes <= request.budget.bytes /\ used.count <= request.limits.depth
      /\ got.grown => ask.remaining.bytes = 0 \/ used.allBytes <= base.used.allBytes + ask.remaining.bytes

(* An expansion is as true as its base, and takes no base but the one that *)
(* an undisturbed preparation of the sources would give.                   *)
TrueExpansion(q, got) ==
  got.ok =>
    /\ EvidenceIsCurrent(q.request, got.pack, IF got.grown THEN q.trees[4] ELSE q.trees[3])
    /\ Keeps(q.base, got.pack) /\ CostsAdd(q.request, q.base, q.ask, got)
    /\ IsBase(q.base, Replayed(q.request, q.trees[1], q.trees[1], q.base.plan.history))
ExpansionIsTrue(q) == TrueExpansion(q, Expand(q.request, q.base, q.ask, q.trees))

(* Merging two excerpts of one file gives an excerpt of that file.         *)
MergeIsExcerpt(text, a, b) ==
  LET Cut(s) == [span |-> s, content |-> SubSeq(text, s[1], s[2])]
      out == qualityMergeSpans(Cut(a), Cut(b))
  IN  out.ok => out.merged.content = SubSeq(text, out.merged.span[1], out.merged.span[2]) /\ a[1]..a[2] \cup b[1]..b[2] = out.merged.span[1]..out.merged.span[2]

(* A context pack shows what is there now, all of it or saying what is not,*)
(* also after an expansion; excerpts that merge stay excerpts (Prepare,    *)
(* Expand, qualityMergeSpans).                                             *)
PacksAreTrue ==
  LET q == question.q
  IN  /\ About("pack") => PackIsTrue(q)
      /\ About("expand") => ExpansionIsTrue(q)
      /\ About("merge") => MergeIsExcerpt(q.text, q.a, q.b)
=============================================================================
