--------------------------- MODULE ContractBaseline ---------------------------
(***************************************************************************)
(* The freeze of shared contracts in one repository: which files and       *)
(* symbols a contract plan names, the placeholders written for them, the   *)
(* gate over the diff of the contract agent, and the gate over the commit  *)
(* that a baseline records.                                                *)
(*                                                                         *)
(* A tree maps paths to files or to Absent.  A file carries what its text  *)
(* parses to: package, imports and the sequence of its declarations        *)
(* [sort, name, body]; a hash of a file is the file itself.                *)
(***************************************************************************)
EXTENDS Integers, SequencesExt

Absent == [kind |-> "absent"]

ContractPathOwnedByRoute(profile, route, path) ==
  IF profile.language = "typescript" THEN path \in profile.directory
  ELSE route \in DOMAIN profile.surface /\ path \in profile.surface[route] \cup profile.candidates[route]
UnderSurface(profile, route, path) == route \in DOMAIN profile.surface /\ path \in profile.surface[route]
contractLocationPath(profile, path) ==
  IF profile.language = "typescript" THEN path \in profile.directory
  ELSE \E r \in profile.routes : ContractPathOwnedByRoute(profile, r, path)

(* The files and symbols a contract plan names.                            *)
FileOf(profile, b) ==
  IF b.existing THEN b.shown.path
  ELSE IF profile.language = "go" THEN profile.fileOf[b.owner][b.kind] ELSE profile.fileOf[b.kind]
SymbolOf(b) == IF b.existing /\ b.shown.symbol # "" THEN b.shown.symbol ELSE b.kind
Reference(profile, b) == [kind |-> b.kind, path |-> FileOf(profile, b), symbol |-> SymbolOf(b), route |-> b.owner]

Announced(profile, b) ==
  /\ b.local
  /\ IF b.existing
       THEN b.shown.local /\ b.shown.kind \in {"source", "contract"} /\ ContractPathOwnedByRoute(profile, b.owner, b.shown.path)
       ELSE profile.language = "go" => profile.surface[b.owner] # {}
  /\ b.target \in {"", FileOf(profile, b)}

PlannedContractReferences(profile, boundaries) ==
  IF \A i \in DOMAIN boundaries : Announced(profile, boundaries[i])
    THEN [ok |-> TRUE, refs |-> {Reference(profile, boundaries[i]) : i \in DOMAIN boundaries}] ELSE [ok |-> FALSE, refs |-> {}]

(* Import policy: own module along the allowed dependencies of the routes, *)
(* other modules when the profile or go.mod names them.                    *)
routeForGoPackage(matches) ==
  LET longest == {m \in matches : \A n \in matches : n.length <= m.length}
  IN  IF Cardinality({m.route : m \in longest}) = 1 THEN (CHOOSE m \in longest : TRUE).route ELSE ""

classifyGoImport(profile, owner, import) ==
  CASE import.kind = "std"      -> profile.standard
    [] import.kind = "module"   -> LET target == routeForGoPackage(import.matches)
                                   IN  target # "" /\ target \in {owner} \cup profile.mayUse[owner]
    [] import.kind = "external" -> import.declared
    [] OTHER                    -> import.allowed \/ (profile.thirdParty /\ import.declared)

goImportsAllowed(profile, owner, file) == \A i \in file.imports : classifyGoImport(profile, owner, i)

(* Declarations by their key; of several with one key the last one counts. *)
Key(d) == [sort |-> d.sort, name |-> d.name]
goContractDeclarations(file) ==
  [k \in {Key(d) : d \in ToSet(file.decls)} |->
     file.decls[Max({i \in DOMAIN file.decls : Key(file.decls[i]) = k})].body]
TypesOf(file) == {d.name : d \in {e \in ToSet(file.decls) : e.sort = "type"}}
declaresGoSymbol(file, symbol) == \E d \in ToSet(file.decls) : d.name = symbol

(* A port is callable when its type, or one it embeds, has a method.       *)
Embedded(file, names) ==
  LET types == {d \in ToSet(file.decls) : d.sort = "type"}
      within[n \in 0..Len(file.decls)] ==
        IF n = 0 THEN names ELSE within[n - 1] \cup UNION {d.body.embeds : d \in {e \in types : e.name \in within[n - 1]}}
  IN  within[Len(file.decls)]
callableGoPort(file, symbol) ==
  \E d \in ToSet(file.decls) : d.sort = "type" /\ d.name \in Embedded(file, {symbol}) /\ d.body.methods

isErrorSentinel(file, name) == \E d \in ToSet(file.decls) : d.sort = "var" /\ d.name = name /\ d.body = "errors.New"
contractValueAllowed(profile, owner, name) == profile.surface[owner] # {} /\ name \in profile.values[owner]

contractPackageName(profile, owner, path, base) ==
  IF base # Absent THEN (IF base.parses THEN base.package ELSE "")
  ELSE IF UnderSurface(profile, owner, path) THEN profile.package[owner] ELSE ""

verifyGoContractFile(profile, path, file, base, refs) ==
  LET owner == (CHOOSE r \in refs : TRUE).route
      now == goContractDeclarations(file)
      before == IF base = Absent THEN << >> ELSE goContractDeclarations(base)
      Kept(k) == k \in DOMAIN before /\ before[k] = now[k]
      Sentinel(k) == k.sort = "var" /\ contractValueAllowed(profile, owner, k.name) /\ isErrorSentinel(file, k.name)
  IN  /\ file.ext /\ file.parses /\ refs # {}
      /\ \A r \in refs : r.route = owner /\ ContractPathOwnedByRoute(profile, r.route, path)
      /\ file.package = contractPackageName(profile, owner, path, base)
      /\ goImportsAllowed(profile, owner, file) /\ ~file.directive
      /\ \A k \in DOMAIN now : Kept(k) \/ k.sort = "type" \/ Sentinel(k)
      /\ DOMAIN before \subseteq DOMAIN now
      /\ \A r \in refs : [sort |-> "type", name |-> r.symbol] \in DOMAIN now
      /\ \A r \in refs : r.kind = "repository-port" => callableGoPort(file, r.symbol)

(* TypeScript: declarations of types only, all approved or there before.   *)
OnlyTypes(file) == \A d \in ToSet(file.decls) : d.sort = "type"
verifyTypeScriptContractFile(path, file, base, symbols) ==
  /\ file.ext /\ symbols # {} /\ ~file.secret /\ OnlyTypes(file)
  /\ \A i \in file.imports : i.allowed
  /\ symbols \subseteq TypesOf(file)
  /\ TypesOf(file) \subseteq symbols \cup (IF base = Absent THEN {} ELSE TypesOf(base))

VerifyFile(profile, path, file, base, refs) ==
  IF profile.language = "go" THEN verifyGoContractFile(profile, path, file, base, refs)
  ELSE verifyTypeScriptContractFile(path, file, base, {r.symbol : r \in refs})
ContentWithoutBase(profile, path, file, base, refs) ==
  contractLocationPath(profile, path) /\ ~file.secret /\ VerifyFile(profile, path, file, Absent, refs)
validateContractContent(profile, path, file, base, refs) ==
  contractLocationPath(profile, path) /\ ~file.secret /\ VerifyFile(profile, path, file, base, refs)

RefsFor(refs, path) == {r \in refs : r.path = path}
Changed(base, tree) == {p \in DOMAIN tree : tree[p] # base[p]}

(* Gate over the working tree of the contract agent.                       *)
VerifyContractDiff(profile, base, tree, paths, refs) ==
  LET changed == Changed(base, tree)
      targets == {r.path : r \in refs}
      Verified(p) == tree[p] # Absent /\ VerifyFile(profile, p, tree[p], base[p], RefsFor(refs, p))
  IN  [passed |-> /\ changed # {} /\ \A p \in paths : contractLocationPath(profile, p)
                  /\ \A r \in refs : r.path \in paths /\ ContractPathOwnedByRoute(profile, r.route, r.path) /\ r.symbol # ""
                  /\ paths = targets
                  /\ \A p \in changed : p \in paths /\ tree[p] # Absent /\ tree[p].small /\ ~tree[p].secret /\ Verified(p)
                  /\ \A p \in targets \ changed : Verified(p),
       files |-> {[path |-> p, hash |-> tree[p]] : p \in {x \in targets \cup (changed \cap paths) : tree[x] # Absent}}]

(* Gate over the commit: a deletion cannot be inspected at all.            *)
commitChangedPaths(base, tree) ==
  IF \E p \in Changed(base, tree) : tree[p] = Absent THEN [ok |-> FALSE, paths |-> {}]
  ELSE [ok |-> TRUE, paths |-> Changed(base, tree)]

VerifyCommittedBaseline(profile, base, commit, files, refs) ==
  LET changed == commitChangedPaths(base, commit.tree)
      paths == {f.path : f \in files}
  IN  /\ commit.sha /\ commit.parents = 1 /\ commit.childOfBase
      /\ changed.ok /\ changed.paths # {} /\ changed.paths \subseteq paths
      /\ Cardinality(paths) = Cardinality(files) /\ \A p \in paths : contractLocationPath(profile, p)
      /\ \A r \in refs : r.symbol # "" /\ r.path \in paths /\ ContractPathOwnedByRoute(profile, r.route, r.path)
      /\ \A f \in files :
           /\ RefsFor(refs, f.path) # {} /\ commit.tree[f.path] # Absent
           /\ commit.tree[f.path] = f.hash
           /\ validateContractContent(profile, f.path, commit.tree[f.path], base[f.path], RefsFor(refs, f.path))

(* A baseline stays valid while nothing it was approved for has moved and  *)
(* all its evidence is there.                                              *)
VerifyBaseline(profile, base, commit, baseline, now) ==
  /\ baseline.approvedPlan = now.approvedPlan /\ now.approvedPlan # 0
  /\ baseline.plan = now.plan /\ baseline.profile = now.profile /\ baseline.revision = now.revision
  /\ baseline.aggregate = baseline.files
  /\ {"agent", "mechanical", "verification", "review"} \subseteq baseline.evidence
  /\ VerifyCommittedBaseline(profile, base, commit, baseline.files, baseline.refs)

(* Placeholders for the boundaries that do not exist yet.                  *)
renderSkeleton(profile, b) ==
  [kind |-> "file", ext |-> TRUE, parses |-> TRUE, small |-> TRUE, secret |-> FALSE, directive |-> FALSE, regular |-> TRUE,
   package |-> IF profile.language = "go" THEN profile.package[b.owner] ELSE "",
   imports |-> {}, decls |-> <<[sort |-> "type", name |-> b.kind, body |-> [methods |-> FALSE, embeds |-> {}]]>>]

isBehaviorFreeGoSkeleton(file) ==
  file.imports = {} /\ Len(file.decls) = 1 /\ file.decls[1].sort = "type" /\ ~file.decls[1].body.methods /\ file.decls[1].body.embeds = {}

validateGeneratedGoDeclarations(profile, owner, file) ==
  \A d \in ToSet(file.decls) :
    d.sort = "type" \/ (d.sort = "var" /\ contractValueAllowed(profile, owner, d.name) /\ isErrorSentinel(file, d.name))

validateFileByProfile(profile, owner, package, file, generated) ==
  /\ file.ext
  /\ IF profile.language = "go"
       THEN /\ file.parses /\ file.package = package /\ package # "" /\ goImportsAllowed(profile, owner, file)
            /\ generated => validateGeneratedGoDeclarations(profile, owner, file)
       ELSE (\A i \in file.imports : i.allowed) /\ OnlyTypes(file)

validateExistingArtifact(profile, owner, file, symbol) ==
  IF profile.language = "go" THEN file.ext /\ file.parses /\ goImportsAllowed(profile, owner, file) /\ declaresGoSymbol(file, symbol)
  ELSE validateFileByProfile(profile, owner, "", file, FALSE) /\ symbol \in TypesOf(file)

(* A contract is read from a regular file inside the repository.           *)
readContainedFile(tree, path) == tree[path] # Absent /\ tree[path].regular

(* Validation of the materialized files as they are on disk.               *)
ValidateFiles(profile, tree, files, refs) ==
  \A f \in files :
    LET own == RefsFor(refs, f.path)
        owner == (CHOOSE r \in own : TRUE).route
        package == IF f.generated /\ UnderSurface(profile, owner, f.path) THEN profile.package[owner] ELSE tree[f.path].package
    IN  /\ readContainedFile(tree, f.path) /\ tree[f.path] = f.hash /\ own # {}
        /\ \A r \in own : r.route = owner /\ ContractPathOwnedByRoute(profile, r.route, f.path)
        /\ validateFileByProfile(profile, owner, package, tree[f.path], f.generated)

(* A placeholder may replace nothing but the same placeholder.             *)
Writable(tree, path, skeleton) == tree[path] \in {Absent, skeleton}

(* One boundary after the other; a failure keeps what was written before.  *)
Ready(profile, tree, b) ==
  LET path == FileOf(profile, b)
      skeleton == renderSkeleton(profile, b)
  IN  /\ b.local /\ b.target \in {"", path}
      /\ IF b.existing
           THEN /\ b.shown.local /\ b.shown.kind \in {"source", "contract"} /\ readContainedFile(tree, path)
                /\ profile.language = "go" => ContractPathOwnedByRoute(profile, b.owner, path)
                /\ validateExistingArtifact(profile, b.owner, tree[path], SymbolOf(b))
           ELSE /\ profile.language = "go" => profile.surface[b.owner] # {} /\ isBehaviorFreeGoSkeleton(skeleton)
                /\ validateFileByProfile(profile, b.owner, skeleton.package, skeleton, TRUE)
                /\ Writable(tree, path, skeleton)

MaterializeNext(profile, out, b) ==
  IF ~out.ok \/ ~Ready(profile, out.tree, b) THEN [out EXCEPT !.ok = FALSE]
  ELSE LET path == FileOf(profile, b)
           tree == IF b.existing THEN out.tree ELSE [out.tree EXCEPT ![path] = renderSkeleton(profile, b)]
       IN  [ok |-> TRUE, tree |-> tree, refs |-> out.refs \cup {Reference(profile, b)},
            files |-> out.files \cup {[path |-> path, hash |-> tree[path], generated |-> ~b.existing]}]

Materialize(profile, start, boundaries) ==
  LET done[n \in 0..Len(boundaries)] ==
        IF n = 0 THEN [ok |-> TRUE, tree |-> start, refs |-> {}, files |-> {}]
        ELSE MaterializeNext(profile, done[n - 1], boundaries[n])
      out == done[Len(boundaries)]
  IN  [out EXCEPT !.ok = out.ok /\ ValidateFiles(profile, out.tree, out.files, out.refs)]

(***************************************************************************)
(* What a freeze promises.  A question q has the profile, the boundaries,  *)
(* the tree of the source revision and the tree the contract agent leaves. *)
(***************************************************************************)
(* Writing the placeholders touches no file that exists, may be repeated   *)
(* after a failure half-way, and stays on the owners' surfaces.            *)
MaterializingConverges(q) ==
  LET first == Materialize(q.profile, q.base, q.boundaries)
      second == Materialize(q.profile, first.tree, q.boundaries)
  IN  /\ \A p \in DOMAIN q.base : q.base[p] = Absent \/ first.tree[p] = q.base[p]
      /\ \A p \in Changed(q.base, first.tree) : \E i \in DOMAIN q.boundaries : UnderSurface(q.profile, q.boundaries[i].owner, p) \/ q.profile.language = "typescript"
      /\ second.tree = first.tree /\ second.ok = first.ok

(* What is materialized is what the plan announced to its consumers.       *)
PlansAreMaterialized(q) ==
  LET out == Materialize(q.profile, q.base, q.boundaries)
      planned == PlannedContractReferences(q.profile, q.boundaries)
  IN  out.ok => planned.ok /\ planned.refs = out.refs

(* The diff gate and the commit gate agree, but for two checks each of     *)
(* them makes alone: the size of a changed file, and secret-like content   *)
(* in an approved file that was not changed.                               *)
GatesAgree(q) ==
  LET refs == PlannedContractReferences(q.profile, q.boundaries).refs
      diff == VerifyContractDiff(q.profile, q.base, q.tree, {r.path : r \in refs}, refs)
      commit == [sha |-> TRUE, parents |-> 1, childOfBase |-> TRUE, tree |-> q.tree]
      small == \A p \in Changed(q.base, q.tree) : q.tree[p] = Absent \/ q.tree[p].small
      clean == \A r \in refs : q.tree[r.path] = Absent \/ r.path \in Changed(q.base, q.tree) \/ ~q.tree[r.path].secret
  IN  small /\ clean => diff.passed = VerifyCommittedBaseline(q.profile, q.base, commit, diff.files, refs)

NamesIn(file) == IF file = Absent THEN {} ELSE {Key(d) : d \in ToSet(file.decls)}
FunctionsIn(file) == {[key |-> k, body |-> goContractDeclarations(file)[k]] : k \in {n \in NamesIn(file) : n.sort = "func"}}

(* A frozen commit changes contracts only: no function of the source base  *)
(* changes, appears or disappears, nothing is removed, imports keep to the *)
(* owner's dependencies, and a placeholder port is not yet a contract.  (Of *)
(* several declarations with one name, such as init, the last is compared.) *)
FrozenIsContractOnly(q) ==
  LET refs == PlannedContractReferences(q.profile, q.boundaries).refs
      diff == VerifyContractDiff(q.profile, q.base, q.tree, {r.path : r \in refs}, refs)
  IN  q.profile.language = "go" /\ VerifyBaseline(q.profile, q.base, q.commit, [q.baseline EXCEPT !.files = diff.files, !.aggregate = diff.files, !.refs = refs], q.now)
        => /\ \A p \in DOMAIN q.base :
                /\ FunctionsIn(q.commit.tree[p]) = FunctionsIn(q.base[p]) /\ NamesIn(q.base[p]) \subseteq NamesIn(q.commit.tree[p])
           /\ \A r \in refs : LET file == q.commit.tree[r.path] IN
                /\ ~(r.kind = "repository-port" /\ isBehaviorFreeGoSkeleton(file))
                /\ \A i \in file.imports : i.kind = "module" => {m.route : m \in i.matches} \cap ({r.route} \cup q.profile.mayUse[r.route]) # {}

(* Freezing contracts: placeholders, both gates and the recorded baseline  *)
(* agree on what was approved.                                             *)
FreezeIsSound(q) ==
  MaterializingConverges(q) /\ PlansAreMaterialized(q) /\ GatesAgree(q) /\ FrozenIsContractOnly(q)
=============================================================================
