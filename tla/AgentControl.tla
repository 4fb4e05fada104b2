----------------------------- MODULE AgentControl -----------------------------
(***************************************************************************)
(* The agent control plane: the catalog of canonical agent assets and the  *)
(* architecture profiles in it, and the distribution of the assets to a    *)
(* repository, which an owner approves by the fingerprint of a proposal.   *)
(*                                                                         *)
(* A path is a sequence of names.  The files of an asset are a function    *)
(* from names to texts; as the checksum prefixes every length, it is the   *)
(* function itself.                                                        *)
(***************************************************************************)
EXTENDS Integers, SequencesExt, FiniteSetsExt

Unique(seq) == IsInjective(seq)
validateRelativePath(path) == path # <<>> /\ ".." \notin ToSet(path)
validateTargetPattern(path) == validateRelativePath(path)
pathUnder(path, directory) == directory # <<>> /\ IsPrefix(directory, path)

(* A pattern owns the paths below its part before the first wildcard.      *)
Fixed(pattern) ==
  LET wild == {i \in DOMAIN pattern : pattern[i] = "*"} IN IF wild = {} THEN pattern ELSE SubSeq(pattern, 1, Min(wild) - 1)
surfaceMatchesRoute(directory, targets) == \E t \in targets : Fixed(t) = directory \/ (Fixed(t) # <<>> /\ pathUnder(directory, Fixed(t)))
patternContainsPath(pattern, path) == pattern = path \/ (Fixed(pattern) # pattern /\ pathUnder(path, Fixed(pattern)))

Route(profile, id) == CHOOSE r \in ToSet(profile.routes) : r.id = id
ContractSurfaceForRoute(profile, id) == {r.surface : r \in {x \in ToSet(profile.routes) : x.id = id /\ x.surface # <<>>}}

requiredProfileRoutes ==
  [id \in {"go.canonical", "nextjs.common"} |->
     IF id = "go.canonical" THEN {"domain", "usecase", "store", "composition"} ELSE {"route", "ui", "bff"}]

ValidateRoute(profile, r) ==
  /\ r.id # "" /\ r.targets # {} /\ r.evidence /\ r.verification # {}
  /\ r.verification \subseteq {"domain-unit", "usecase-unit", "integration-test", "build", "owner-review"}
  /\ \A t \in r.targets \cup r.candidates : validateTargetPattern(t)
  /\ r.surface # <<>> => /\ profile.language = "go" /\ validateTargetPattern(r.surface) /\ r.package # "" /\ Unique(r.values)
                         /\ surfaceMatchesRoute(r.surface, r.targets)
  /\ r.mayUse # <<>> => profile.language = "go"

ValidateOwnership(profile, ids) ==
  /\ Unique([i \in DOMAIN profile.ownership |-> profile.ownership[i].kind])
  /\ \A rule \in ToSet(profile.ownership) :
       /\ rule.owners # <<>> /\ Unique(rule.owners) /\ Unique(rule.implementers)
       /\ ToSet(rule.owners) \cup ToSet(rule.implementers) \subseteq ids
       /\ profile.language = "go" => \A id \in ToSet(rule.owners) : ContractSurfaceForRoute(profile, id) # {}

ValidateLocation(profile) ==
  CASE profile.language = "go"         -> profile.stack = "go" /\ profile.directory = <<>>
    [] profile.language = "typescript" -> profile.stack = "nextjs" /\ profile.directory # <<>> /\ validateTargetPattern(profile.directory)
    [] OTHER -> FALSE

ValidateProfile(profile) ==
  LET ids == {r.id : r \in ToSet(profile.routes)}
  IN  /\ profile.schema = 1 /\ profile.shape # {} /\ \A p \in profile.shape \cup profile.composition : validateTargetPattern(p)
      /\ ValidateLocation(profile)
      /\ profile.id \in DOMAIN requiredProfileRoutes /\ requiredProfileRoutes[profile.id] \subseteq ids
      /\ Cardinality(ids) = Len(profile.routes) /\ \A r \in ToSet(profile.routes) : ValidateRoute(profile, r)
      /\ \A r \in ToSet(profile.routes) : Unique(r.mayUse) /\ ToSet(r.mayUse) \subseteq ids \ {r.id}
      /\ ValidateOwnership(profile, ids)
      /\ Cardinality({v.id : v \in profile.variants}) = Cardinality(profile.variants) /\ \A v \in profile.variants : v.hints \subseteq ids
      /\ profile.id = "nextjs.common" => {"student", "admin"} \subseteq {v.id : v \in profile.variants}

(* Which consumer may use a contract of which owner, and what is a         *)
(* contract of an owner.                                                   *)
ContractDependencyAllowed(profile, consumer, owner) ==
  consumer = owner \/ profile.language # "go" \/ owner \in ToSet(Route(profile, consumer).mayUse)
ContractPathOwned(profile, id, path) ==
  /\ validateRelativePath(path)
  /\ IF profile.language = "typescript" THEN pathUnder(path, profile.directory)
     ELSE \E r \in ToSet(profile.routes) : r.id = id /\ (pathUnder(path, r.surface) \/ \E c \in r.candidates : patternContainsPath(c, path))

(* The canonical catalog.                                                  *)
RepositoryAssets(catalog) == {a \in catalog.assets : a.kind # "global_policy"}
ValidateAsset(a) ==
  /\ a.id # "" /\ a.version # "" /\ a.ownership = "MANAGED" /\ a.files # << >>
  /\ validateRelativePath(a.source) /\ Head(a.source) = "agent-system" /\ ~IsPrefix(<<"agent-system", ".ai">>, a.source)
  /\ a.kind = "global_policy" => a.id = "global-policy" /\ a.target = <<"~", ".codex", "AGENTS.md">> /\ "AGENTS.md" \in DOMAIN a.files
  /\ a.kind # "global_policy" => validateRelativePath(a.target) /\ IsStrictPrefix(<<".agents">>, a.target)
  /\ a.kind = "skill" => "SKILL.md" \in DOMAIN a.files /\ Last(a.target) = a.name
  /\ a.kind = "profile" => IsStrictPrefix(<<".agents", "profiles">>, a.target) /\ Last(a.source) = Last(a.target)
  /\ a.kind \in {"global_policy", "skill", "profile"}

ValidateCatalog(catalog) ==
  LET assets == RepositoryAssets(catalog)
      known == {p.id : p \in catalog.profiles}
  IN  /\ \A p \in catalog.profiles : ValidateProfile(p)
      /\ \A a \in catalog.assets : ValidateAsset(a) /\ a.profiles \subseteq known \cup {"*"}
      /\ \A a, b \in catalog.assets : a.id = b.id => a = b
      /\ \A a, b \in assets : a.target = b.target => a = b
      /\ \A a \in assets, b \in assets : a.kind = "skill" /\ a # b => ~IsPrefix(a.target, b.target)
      /\ {"global-policy", "skill/task-route", "skill/contract-plan", "profile/go.canonical", "profile/nextjs.common"} \subseteq {a.id : a \in catalog.assets}
      /\ {"go.canonical", "nextjs.common"} \subseteq known

(* Loading refuses a declared checksum that is not the computed one, and a *)
(* profile asset that is not exactly the profile of its id.                *)
LoadCatalog(manifest) ==
  LET profiles == {a \in manifest.assets : a.kind = "profile"}
      catalog == [assets |-> manifest.assets, profiles |-> {a.profile : a \in profiles}]
  IN  [ok |-> /\ manifest.schema = 1
              /\ \A a \in manifest.assets : a.regular /\ a.small /\ a.declared \in {"computed", "right"}
              /\ \A a \in profiles : Cardinality(DOMAIN a.files) = 1 /\ a.profile.id = a.name
              /\ Cardinality({a.profile.id : a \in profiles}) = Cardinality(profiles)
              /\ ValidateCatalog(catalog),
       catalog |-> catalog]

(* Distribution.  Provenance records what was distributed last.            *)
ValidateDistributionManifest(p) ==
  p.exists =>
    /\ p.schema = 1 /\ p.ownership = "GENERATED"
    /\ \A e \in p.entries : /\ e.id # "" /\ e.version # "" /\ e.ownership \in {"MANAGED", "LOCAL"} /\ e.files # << >>
                            /\ validateRelativePath(e.target) /\ IsStrictPrefix(<<".agents">>, e.target)
    /\ \A d, e \in p.entries : d.id = e.id => d = e

matchesProvenance(files, prior) == files = prior.files

StateOf(asset, actual, prior) ==
  LET had == prior # {}
      last == CHOOSE e \in prior : TRUE
  IN  IF actual.unsafe \/ (had /\ (last.ownership # "MANAGED" \/ last.target # asset.target \/ last.source # asset.source)) THEN "conflicting"
      ELSE IF ~actual.exists THEN "missing"
      ELSE IF actual.files = asset.files THEN "current"
      ELSE IF ~had THEN "conflicting"
      ELSE IF matchesProvenance(actual.files, last) THEN "stale" ELSE "locally_modified"

EntryOf(a) == [id |-> a.id, ownership |-> "MANAGED", target |-> a.target, source |-> a.source, version |-> a.version, files |-> a.files]
nextProvenance(catalog, previous) ==
  LET written == {EntryOf(a) : a \in RepositoryAssets(catalog)}
  IN  [exists |-> TRUE, schema |-> 1, ownership |-> "GENERATED",
       entries |-> written \cup {e \in previous.entries : e.id \notin {w.id : w \in written}}]

BuildDistributionProposal(catalog, repo) ==
  LET Prior(a) == {e \in repo.provenance.entries : e.id = a.id}
      Change(a) == [id |-> a.id, target |-> a.target, desired |-> a.files, current |-> IF repo.assets[a.id].exists /\ ~repo.assets[a.id].unsafe THEN repo.assets[a.id].files ELSE << >>,
                    state |-> StateOf(a, repo.assets[a.id], Prior(a))]
      changes == {Change(a) : a \in RepositoryAssets(catalog)}
      kept == {c.id : c \in {x \in changes : x.state \in {"conflicting", "locally_modified"}}}
  IN  [ok |-> repo.revision # 0 /\ ValidateDistributionManifest(repo.provenance),
       revision |-> repo.revision, catalog |-> catalog.assets, changes |-> changes,
       retained |-> kept \cup ({e.id : e \in repo.provenance.entries} \ {c.id : c \in changes}),
       next |-> nextProvenance(catalog, repo.provenance), manifestDiff |-> repo.provenance]

(* A fingerprint binds everything of the proposal but the text of the diff.*)
proposalFingerprint(proposal) == proposal
Conflicts(proposal) == \E c \in proposal.changes : c.state \in {"conflicting", "locally_modified"}

(* Apply inspects the repository twice and hands the second look to the    *)
(* adapter, which has to write that and nothing else.                      *)
Apply(catalog, approved, first, second) ==
  LET one == BuildDistributionProposal(catalog, first)
      two == BuildDistributionProposal(catalog, second)
  IN  [ok |-> /\ one.ok /\ two.ok /\ ~Conflicts(one)
              /\ proposalFingerprint(one) = approved /\ proposalFingerprint(two) = approved,
       proposal |-> two]
Written(repo, proposal) ==
  LET Update(id) == {c \in proposal.changes : c.id = id /\ c.state \in {"missing", "stale"}}
  IN  [revision |-> repo.revision, provenance |-> proposal.next,
       assets |-> [id \in DOMAIN repo.assets |->
                     IF Update(id) = {} THEN repo.assets[id]
                     ELSE [exists |-> TRUE, unsafe |-> FALSE, files |-> (CHOOSE c \in Update(id) : TRUE).desired]]]

(* Which model checks a task, or plans a set of tasks.                     *)
Critical(task) == task.risk \in {"high", "critical"} \/ task.migration \/ task.contracts
Reviewer(task) ==
  IF Critical(task) THEN [model |-> "deep", reasoning |-> "deep"]
  ELSE [model |-> "review", reasoning |-> IF task.risk = "medium" THEN "review" ELSE "low"]
Planner(tasks) ==
  IF (\E t \in ToSet(tasks) : Critical(t)) \/ Len(tasks) > 3 THEN [model |-> "deep", reasoning |-> "deep"]
  ELSE IF Len(tasks) = 1 /\ tasks[1].risk = "low" THEN [model |-> "fast", reasoning |-> "fast"]
  ELSE [model |-> "standard", reasoning |-> "standard"]

(***************************************************************************)
(* What the control plane promises.                                        *)
(***************************************************************************)
(* A distribution writes what was approved over what was seen: no file an  *)
(* owner made or changed is overwritten, assets the catalog does not have  *)
(* stay, the written manifest is a valid one, and a second distribution of *)
(* the catalog finds everything current.                                   *)
DistributionKeepsLocalWork(q) ==
  LET approved == proposalFingerprint(BuildDistributionProposal(q.catalog, q.seen))
      out == Apply(q.catalog, approved, q.first, q.second)
      repo == Written(q.second, out.proposal)
      again == BuildDistributionProposal(q.catalog, repo)
      Distributed(id) == {e.files : e \in {x \in q.seen.provenance.entries : x.id = id}}
  IN  out.ok =>
        /\ ValidateDistributionManifest(repo.provenance)
        /\ again.ok /\ \A c \in again.changes : c.state = "current"
        /\ \A id \in DOMAIN q.second.assets :
             repo.assets[id] # q.second.assets[id] =>
               /\ q.second.assets[id] = q.seen.assets[id]
               /\ q.seen.assets[id].exists => q.seen.assets[id].files \in Distributed(id)
               /\ \E a \in RepositoryAssets(q.catalog) : a.id = id

(* A profile is one file, at its target itself (diffFiles).                *)
FilePath(asset, file) == IF asset.kind = "profile" THEN asset.target ELSE Append(asset.target, file)

(* A catalog that loads can plan every boundary its profiles declare: each *)
(* owner has a surface, a file there is the owner's contract, it lies in a *)
(* place the owner may touch, and an update of one asset reaches no other. *)
LoadedCatalogsPlan(manifest) ==
  LET got == LoadCatalog(manifest)
  IN  got.ok =>
        /\ \A p \in got.catalog.profiles : p.language = "go" =>
             \A rule \in ToSet(p.ownership) : \A id \in ToSet(rule.owners) :
               \E s \in ContractSurfaceForRoute(p, id) :
                 /\ ContractPathOwned(p, id, Append(s, "port.go")) /\ (\E t \in Route(p, id).targets : IsPrefix(Fixed(t), s))
                 /\ \A r \in ToSet(p.routes) : id \in ToSet(r.mayUse) => ContractDependencyAllowed(p, r.id, id)
        /\ \A a, b \in RepositoryAssets(got.catalog) : a # b /\ a.kind = "skill" =>
             \A file \in DOMAIN b.files : ~IsPrefix(a.target, FilePath(b, file))

(* Planning never thinks less of work than its review does, and a wider    *)
(* scope never gets a weaker planner (agentpolicy Planner and Reviewer).   *)
Strength(decision) == IF decision.model = "fast" THEN 0 ELSE IF decision.model = "deep" THEN 2 ELSE 1
PlannersMatchReviews(tasks) ==
  /\ (\E t \in ToSet(tasks) : Reviewer(t).model = "deep") => Planner(tasks).model = "deep"
  /\ Len(tasks) > 1 => Strength(Planner(tasks)) >= Strength(Planner(Front(tasks)))
=============================================================================
