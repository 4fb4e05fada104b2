----------------------------- MODULE KnowledgeProofs -----------------------------
(***************************************************************************)
(* What is proved of the modules KnowledgeMC asks its questions of.        *)
(*                                                                         *)
(* Publication of manifest files: no command loses what an editor left,    *)
(* and a reconciliation that failed leaves what it found, for every        *)
(* checkout, report, number of edits, failed writes and kills.  What the   *)
(* commands plan is used only for this: a plan of scaffold creates files,  *)
(* and a plan of reconcile names for each file what it read there.  The    *)
(* rest is the order of check, write and rollback.                         *)
(*                                                                         *)
(* Frozen contracts: writing placeholders converges and writes what was    *)
(* announced, the two gates agree, and what passes them changes contracts  *)
(* only, for every profile, plan and pair of trees.                        *)
(*                                                                         *)
(* Deliveries: what is completed was verified, committed and called done,  *)
(* and repeating a delivery ends with the same commit, for every task,     *)
(* worktree, answer of a coder and outcome of the commands.                *)
(*                                                                         *)
(* CURRENT: what is called verified was read whole and held still; in the  *)
(* catalog declarations meet in edges or are debt, a graph without a       *)
(* diagnostic was proven whole, and the graph of a fleet rests on its lock.*)
(*                                                                         *)
(* The agent control plane: distributions keep local edits, catalogs that  *)
(* load can plan, and planners are no weaker than reviewers.               *)
(***************************************************************************)
EXTENDS Knowledge, TLAPS, FiniteSetTheorems, WellFoundedInduction

(* Checkouts and reports are finite, an editor leaves a content or nothing.*)
AtMostOne(s) == s = {} \/ \E x : s = {x}
IsTree(t)    == t = [p \in DOMAIN t |-> t[p]] /\ IsFiniteSet(DOMAIN t)
ChecksOut ==
  /\ \A t \in Trees : IsTree(t)
  /\ IsFiniteSet(DOMAIN Report.operations)
  /\ Tools \subseteq {"scaffold", "reconcile", "generate"}
  /\ \A text \in Texts : AtMostOne(text)

-----------------------------------------------------------------------------
(* Images of finite sets are finite, and a finite set has a sequence.      *)
LEMMA ImageIsFinite ==
  ASSUME NEW f, IsFiniteSet(DOMAIN f), NEW S, S = {f[x] : x \in DOMAIN f}
  PROVE  IsFiniteSet(S)
<1> DEFINE g == [x \in DOMAIN f |-> f[x]]
<1>1. g \in Surjection(DOMAIN f, S)
  BY DEF Surjection
<1>. QED BY <1>1, FS_Surjection

LEMMA SetToSeqIsSeq ==
  ASSUME NEW S, IsFiniteSet(S)
  PROVE  SetToSeq(S) \in Seq(S)
<1>1. Cardinality(S) \in Nat /\ ExistsBijection(1..Cardinality(S), S)
  BY FS_CardinalityType
<1>2. \E f \in [1..Cardinality(S) -> S] : IsInjective(f)
  BY <1>1 DEF ExistsBijection, Bijection, Injection, IsInjective
<1>3. SetToSeq(S) \in [1..Cardinality(S) -> S]
  BY <1>2 DEF SetToSeq
<1>. QED BY <1>1, <1>3

(* What a list of changes is made of.                                      *)
IsList(files) == files \in Seq(ToSet(files))

LEMMA ListOfSet ==
  ASSUME NEW S, IsFiniteSet(S), NEW last
  PROVE  /\ IsList(<<>>) /\ ToSet(<<>>) = {}
         /\ IsList(SetToSeq(S)) /\ ToSet(SetToSeq(S)) \subseteq S
         /\ IsList(SetToSeq(S) \o <<>>) /\ ToSet(SetToSeq(S) \o <<>>) \subseteq S
         /\ IsList(SetToSeq(S) \o <<last>>) /\ ToSet(SetToSeq(S) \o <<last>>) \subseteq S \cup {last}
<1>1. ASSUME NEW U, NEW s \in Seq(U) PROVE IsList(s) /\ ToSet(s) \subseteq U
  BY <1>1 DEF IsList, ToSet
<1>2. SetToSeq(S) \in Seq(S)
  BY SetToSeqIsSeq
<1>3. SetToSeq(S) \o <<>> \in Seq(S) /\ SetToSeq(S) \o <<last>> \in Seq(S \cup {last})
  BY <1>2
<1>4. IsList(<<>>) /\ ToSet(<<>>) = {}
  <2>1. DOMAIN <<>> = {}
    OBVIOUS
  <2>2. ToSet(<<>>) = {}
    BY <2>1 DEF ToSet
  <2>3. <<>> \in Seq({})
    OBVIOUS
  <2>. QED BY <2>2, <2>3 DEF IsList
<1>5. IsList(SetToSeq(S)) /\ ToSet(SetToSeq(S)) \subseteq S
  BY <1>1, <1>2
<1>6. IsList(SetToSeq(S) \o <<>>) /\ ToSet(SetToSeq(S) \o <<>>) \subseteq S
  BY <1>1, <1>3
<1>7. IsList(SetToSeq(S) \o <<last>>) /\ ToSet(SetToSeq(S) \o <<last>>) \subseteq S \cup {last}
  BY <1>1, <1>3
<1>. QED BY <1>4, <1>5, <1>6, <1>7

(* The routes of a finite report are finite.                               *)
LEMMA KeysAreFinite ==
  ASSUME IsFiniteSet(DOMAIN Report.operations)
  PROVE  IsFiniteSet(scaffoldDiscoveredHTTP(Report).keys)
<1>1. IsFiniteSet(ToSet(Report.operations))
  BY ImageIsFinite DEF ToSet
<1>2. IsFiniteSet(HTTPOf(Report))
  BY <1>1, FS_Subset DEF HTTPOf
<1> DEFINE f == [o \in HTTPOf(Report) |-> o.key]
<1>3. IsFiniteSet({f[o] : o \in DOMAIN f})
  BY <1>2, ImageIsFinite
<1>4. scaffoldDiscoveredHTTP(Report).keys = {f[o] : o \in DOMAIN f}
  BY DEF scaffoldDiscoveredHTTP
<1>. QED BY <1>3, <1>4

(* Scaffolding only creates files (ScaffoldHTTPManifests).                 *)
LEMMA ScaffoldCreates ==
  ASSUME IsFiniteSet(DOMAIN Report.operations), NEW files, files = ScaffoldHTTPManifests(tree, Report).files
  PROVE  IsList(files) /\ \A c \in ToSet(files) : c.before = {} /\ \E x : c.after = {x}
<1> DEFINE found == scaffoldDiscoveredHTTP(Report)
           known == {p \in {Service, OtherService} : p \in DOMAIN tree}
           path == IF known = {} THEN Service ELSE CHOOSE p \in known : TRUE
           id == IF known = {} THEN Report.project ELSE tree[path].id
           existing == scaffoldExistingEndpoints(tree, id, found.keys)
           new == found.keys \ {tree[p].key : p \in existing.paths}
           Target(key) == <<"endpoints", scaffoldOperationID(key)>>
           Manifest(key) == scaffoldHTTPManifest(id, scaffoldOperationID(key), key, EvidenceOf(Report, key))
           paths == existing.paths \cup {Target(key) : key \in new}
           ids == {tree[p].id : p \in existing.paths} \cup {scaffoldOperationID(key) : key \in new}
           service == scaffoldHTTPService(id, paths, ids, UNION {EvidenceOf(Report, key) : key \in found.keys})
           S == {Created(Target(key), Manifest(key)) : key \in new}
           last == Created(Service, service)
<1>1. IsFiniteSet(S)
  <2> DEFINE f == [key \in new |-> Created(Target(key), Manifest(key))]
  <2>1. IsFiniteSet(DOMAIN f)
    BY KeysAreFinite, FS_Subset
  <2>2. S = {f[key] : key \in DOMAIN f}
    OBVIOUS
  <2> HIDE DEF f, S
  <2>. QED BY <2>1, <2>2, ImageIsFinite
<1>2. \A c \in S \cup {last} : c.before = {} /\ \E x : c.after = {x}
  <2>1. ASSUME NEW p, NEW x PROVE Created(p, x).before = {} /\ Created(p, x).after = {x}
    BY DEF Created, Change
  <2> HIDE DEF Target, Manifest, new, service
  <2>. QED BY <2>1
<1>3. files \in {<<>>, SetToSeq(S) \o <<>>, SetToSeq(S) \o <<last>>}
  BY DEF ScaffoldHTTPManifests, Planned, Refused
<1> HIDE DEF S, last
<1>4. IsList(files) /\ ToSet(files) \subseteq S \cup {last}
  <2>1. CASE files = <<>>
    BY <1>1, <2>1, ListOfSet
  <2>2. CASE files = SetToSeq(S) \o <<>>
    BY <1>1, <2>2, ListOfSet
  <2>3. CASE files = SetToSeq(S) \o <<last>>
    BY <1>1, <2>3, ListOfSet
  <2>. QED BY <1>3, <2>1, <2>2, <2>3
<1>. QED BY <1>2, <1>4

LEMMA ChangeIs ==
  ASSUME NEW c, NEW path, NEW before, NEW after, c = Change(path, before, after)
  PROVE  c.path = path /\ c.before = before /\ c.after = after
BY DEF Change

(* Reconciliation changes a file from what it read (ReconcileHTTPManifests).*)
LEMMA ReconcileReads ==
  ASSUME IsFiniteSet(DOMAIN Report.operations), IsFiniteSet(DOMAIN tree),
         NEW files, files = ReconcileHTTPManifests(tree, Report).files
  PROVE  IsList(files) /\ \A c \in ToSet(files) : c.before = At(c.path) /\ AtMostOne(c.after)
<1> DEFINE found == scaffoldDiscoveredHTTP(Report)
           service == tree[Service]
           ops == {tree[p] : p \in service.manifests}
           http == {p \in service.manifests : tree[p].type = "http"}
           kept == {p \in http : tree[p].key \in found.keys}
           stale == http \ kept
           new == found.keys \ {tree[p].key : p \in kept}
           Target(key) == <<"endpoints", scaffoldOperationID(key)>>
           Manifest(key) == scaffoldHTTPManifest(service.id, scaffoldOperationID(key), key, EvidenceOf(Report, key))
           Drawn(p) == Diagram(p) \in DOMAIN tree
           removed == UNION {{Change(p, {tree[p]}, {})} \cup (IF Drawn(p) THEN {Change(Diagram(p), {tree[Diagram(p)]}, {})} ELSE {}) : p \in stale}
           regrouped == RegroupedWithout(service.groups, {tree[p].id : p \in http}, {tree[p].id : p \in kept} \cup {scaffoldOperationID(key) : key \in new})
           next == [service EXCEPT !.manifests = (service.manifests \ stale) \cup {Target(key) : key \in new}, !.groups = regrouped.groups]
           created == {Created(Target(key), Manifest(key)) : key \in new}
           S == removed \cup created
           last == Change(Service, {service}, {next})
<1>1. CASE files = <<>>
  BY <1>1, FS_EmptySet, ListOfSet
<1>2. CASE files # <<>>
  <2>1. /\ ParsedService(tree, Service)
        /\ \A p \in service.manifests : ParsedOperation(tree, p)
        /\ \A key \in new : {Target(key), Diagram(Target(key))} \cap DOMAIN tree = {}
        /\ files \in {SetToSeq(S) \o <<>>, SetToSeq(S) \o <<last>>}
    BY <1>2 DEF ReconcileHTTPManifests, Planned, Refused
  <2>2. Service \in DOMAIN tree /\ stale \subseteq DOMAIN tree
    BY <2>1 DEF ParsedService, ParsedOperation
  <2>3. IsFiniteSet(S)
    <3> DEFINE f == [p \in stale |-> Change(p, {tree[p]}, {})]
               g == [p \in stale |-> Change(Diagram(p), {tree[Diagram(p)]}, {})]
               h == [key \in new |-> Created(Target(key), Manifest(key))]
               F == {f[p] : p \in DOMAIN f}
               G == {g[p] : p \in DOMAIN g}
               H == {h[key] : key \in DOMAIN h}
    <3>1. IsFiniteSet(DOMAIN f) /\ IsFiniteSet(DOMAIN g)
      BY <2>2, FS_Subset
    <3>2. IsFiniteSet(DOMAIN h)
      BY KeysAreFinite, FS_Subset
    <3>3. removed \subseteq F \cup G /\ created = H
      OBVIOUS
    <3> HIDE DEF f, g, h
    <3>4. IsFiniteSet(F) /\ IsFiniteSet(G) /\ IsFiniteSet(H)
      BY <3>1, <3>2, ImageIsFinite
    <3> HIDE DEF F, G, H, removed, created
    <3>5. S \subseteq (F \cup G) \cup H
      BY <3>3
    <3>6. IsFiniteSet((F \cup G) \cup H)
      BY <3>4, FS_Union
    <3> HIDE DEF S
    <3>. QED BY <3>5, <3>6, FS_Subset
  <2>4. ASSUME NEW c \in S \cup {last} PROVE c.before = At(c.path) /\ AtMostOne(c.after)
    <3>1. CASE c = last
      <4> HIDE DEF next
      <4>1. c.path = Service /\ c.before = {tree[Service]} /\ c.after = {next}
        BY <3>1, ChangeIs
      <4> HIDE DEF last
      <4>. QED BY <2>2, <4>1 DEF At, AtMostOne
    <3>2. ASSUME NEW key \in new, c = Created(Target(key), Manifest(key))
          PROVE  c.before = At(c.path) /\ AtMostOne(c.after)
      <4>1. Target(key) \notin DOMAIN tree
        BY <2>1
      <4> HIDE DEF Target, Manifest, last, S, new
      <4>2. c.path = Target(key) /\ c.before = {} /\ c.after = {Manifest(key)}
        BY <3>2, ChangeIs DEF Created
      <4>. QED BY <4>1, <4>2 DEF At, AtMostOne
    <3>3. ASSUME NEW p \in stale, c = Change(p, {tree[p]}, {})
          PROVE  c.before = At(c.path) /\ AtMostOne(c.after)
      <4>1. p \in DOMAIN tree
        BY <2>2
      <4> HIDE DEF last, S, stale
      <4>2. c.path = p /\ c.before = {tree[p]} /\ c.after = {}
        BY <3>3, ChangeIs
      <4>. QED BY <4>1, <4>2 DEF At, AtMostOne
    <3>4. ASSUME NEW p \in stale, Drawn(p), c = Change(Diagram(p), {tree[Diagram(p)]}, {})
          PROVE  c.before = At(c.path) /\ AtMostOne(c.after)
      <4> HIDE DEF last, S, stale
      <4>2. c.path = Diagram(p) /\ c.before = {tree[Diagram(p)]} /\ c.after = {}
        BY <3>4, ChangeIs
      <4>. QED BY <3>4, <4>2 DEF At, AtMostOne
    <3>. QED BY <3>1, <3>2, <3>3, <3>4
  <2> HIDE DEF S, last
  <2>5. IsList(files) /\ ToSet(files) \subseteq S \cup {last}
    <3>1. CASE files = SetToSeq(S) \o <<>>
      BY <2>3, <3>1, ListOfSet
    <3>2. CASE files = SetToSeq(S) \o <<last>>
      BY <2>3, <3>2, ListOfSet
    <3>. QED BY <2>1, <3>1, <3>2
  <2>. QED BY <2>4, <2>5
<1>. QED BY <1>1, <1>2

(* Drawing replaces one content by another (GenerateFiles).                *)
LEMMA DrawingReplaces ==
  ASSUME IsFiniteSet(DOMAIN tree), NEW files, files = GenerateFiles(tree).files
  PROVE  IsList(files) /\ \A c \in ToSet(files) : c.before = At(c.path) /\ AtMostOne(c.after)
<1> DEFINE service == tree[Service]
           Draw(path, of) == Change(Diagram(path), IF Diagram(path) \in DOMAIN tree THEN {tree[Diagram(path)]} ELSE {}, {[kind |-> "diagram", of |-> of]})
           first == Draw(Service, {service} \cup {tree[p] : p \in service.manifests})
           rest == {Draw(p, {tree[p]}) : p \in service.manifests}
           drawn == {first} \cup rest
<1>1. CASE files = <<>>
  BY <1>1, FS_EmptySet, ListOfSet
<1>2. CASE files # <<>>
  <2>1. (\A p \in service.manifests : ParsedOperation(tree, p)) /\ files = SetToSeq(drawn)
    BY <1>2 DEF GenerateFiles, Planned, Refused
  <2>2. IsFiniteSet(drawn)
    <3> DEFINE f == [p \in service.manifests |-> Draw(p, {tree[p]})]
    <3>1. IsFiniteSet(DOMAIN f)
      BY <2>1, FS_Subset DEF ParsedOperation
    <3>2. rest = {f[p] : p \in DOMAIN f}
      OBVIOUS
    <3> HIDE DEF f, rest, first
    <3>3. IsFiniteSet(rest)
      BY <3>1, <3>2, ImageIsFinite
    <3>4. IsFiniteSet({first})
      BY FS_Singleton
    <3>. QED BY <3>3, <3>4, FS_Union
  <2>3. ASSUME NEW path, NEW of PROVE Draw(path, of).before = At(Draw(path, of).path) /\ AtMostOne(Draw(path, of).after)
    BY DEF Change, At, AtMostOne
  <2>4. \A c \in drawn : c.before = At(c.path) /\ AtMostOne(c.after)
    <3> HIDE DEF Draw
    <3>. QED BY <2>3
  <2> HIDE DEF drawn
  <2>. QED BY <2>1, <2>2, <2>4, ListOfSet
<1>. QED BY <1>1, <1>2

-----------------------------------------------------------------------------
(***************************************************************************)
(* The invariant.                                                          *)
(***************************************************************************)
Writing == {"publish", "checked", "rollback"}
Shape ==
  /\ IsTree(tree)
  /\ job = [tool |-> job.tool, phase |-> job.phase, files |-> job.files, next |-> job.next,
            runs |-> job.runs, kept |-> job.kept, clean |-> job.clean]
  /\ job.tool \in {"none", "scaffold", "reconcile", "generate"}
  /\ job.tool = "none" => job.phase = "idle"
  /\ IsList(job.files)
  /\ job.phase = "planned" => job.next = 1
  /\ job.phase \in Writing => job.next \in 1..Len(job.files)

(* What was planned: contents or nothing, files to create for scaffold,    *)
(* and for reconcile one original for each path.                           *)
FilesFit ==
  \A c \in ToSet(job.files) :
    /\ AtMostOne(c.before) /\ AtMostOne(c.after)
    /\ job.tool = "scaffold" => c.before = {}
    /\ job.tool = "reconcile" => \A d \in ToSet(job.files) : c.path = d.path => c.before = d.before

(* A file that was checked and is to be replaced is still what was read,   *)
(* and nobody edits a diagram that is being drawn.                         *)
CheckedIsSeen ==
  job.tool = "reconcile" /\ job.phase = "checked" /\ Current.before # {} => At(Current.path) = Current.before
DrawnAlone ==
  job.tool = "generate" => \A c \in ToSet(job.files) : c.path \notin DOMAIN touched

(* The files a reconciliation has written and not yet undone.              *)
Written == CASE job.phase \in {"publish", "checked"} -> 1..(job.next - 1)
             [] job.phase = "rollback"               -> 1..job.next
             [] OTHER                                -> {}
Undoable ==
  job.tool = "reconcile" /\ job.phase \in {"planned", "failed"} \cup Writing =>
    \A c \in ToSet(job.files) :
      \/ c.path \in DOMAIN touched \cup job.kept
      \/ At(c.path) = c.before
      \/ \E j \in Written : job.files[j].path = c.path /\ At(c.path) = job.files[j].after

PublicationInv == Shape /\ FilesFit /\ CheckedIsSeen /\ DrawnAlone /\ EditsSurvive /\ Undoable

-----------------------------------------------------------------------------
(* What one write, removal or edit does to the checkout.                   *)
LEMMA AppliedTo ==
  ASSUME IsTree(tree), NEW c, AtMostOne(c.after), tree' = Applied(tree, c)
  PROVE  IsTree(tree)' /\ \A p : At(p)' = IF p = c.path THEN c.after ELSE At(p)
<1>1. CASE c.after = {}
  <2>1. tree' = [p \in DOMAIN tree \ {c.path} |-> tree[p]]
    BY <1>1 DEF Applied
  <2>2. IsFiniteSet(DOMAIN tree \ {c.path})
    BY FS_Subset DEF IsTree
  <2>. QED BY <1>1, <2>1, <2>2 DEF IsTree, At
<1>2. CASE c.after # {}
  <2>1. PICK x : c.after = {x}
    BY <1>2 DEF AtMostOne
  <2>2. tree' = With(tree, c.path, x)
    <3>1. (CHOOSE y \in c.after : TRUE) = x
      BY <2>1
    <3>. QED BY <1>2, <3>1 DEF Applied
  <2>3. IsFiniteSet(DOMAIN tree \cup {c.path})
    <3>1. IsFiniteSet({c.path})
      BY FS_Singleton
    <3>. QED BY <3>1, FS_Union DEF IsTree
  <2>. QED BY <2>1, <2>2, <2>3 DEF IsTree, At, With
<1>. QED BY <1>1, <1>2

(* The file at hand is one of the planned.                                 *)
LEMMA CurrentIsPlanned ==
  ASSUME Shape, job.phase \in Writing
  PROVE  /\ Current \in ToSet(job.files) /\ DOMAIN job.files = 1..Len(job.files)
         /\ job.next \in DOMAIN job.files /\ job.next \in Nat /\ Len(job.files) \in Nat
BY DEF Shape, IsList, ToSet, Current

LEMMA InvStarts == ASSUME ChecksOut, Init PROVE PublicationInv
<1>1. job = Idle /\ touched = <<>> /\ tree \in Trees
  BY DEF Init
<1>2. IsList(<<>>) /\ ToSet(<<>>) = {}
  BY FS_EmptySet, ListOfSet
<1>3. DOMAIN touched = {}
  BY <1>1
<1>4. job.files = <<>> /\ job.tool = "none" /\ job.phase = "idle"
  BY <1>1 DEF Idle
<1>5. Shape
  BY <1>1, <1>2 DEF Shape, Idle, ChecksOut, Writing
<1>. QED BY <1>2, <1>3, <1>4, <1>5 DEF PublicationInv, FilesFit, CheckedIsSeen, DrawnAlone, EditsSurvive, Undoable

(* A step that moves only the command keeps what is said of the files.     *)
LEMMA FilesStay ==
  ASSUME FilesFit, DrawnAlone, EditsSurvive, job'.tool = job.tool, job'.files = job.files, UNCHANGED <<tree, touched>>
  PROVE  FilesFit' /\ DrawnAlone' /\ EditsSurvive'
<1>1. FilesFit'
  BY DEF FilesFit
<1>2. DrawnAlone'
  BY DEF DrawnAlone
<1>3. EditsSurvive'
  BY DEF EditsSurvive, At
<1>. QED BY <1>1, <1>2, <1>3

(* A failed check or write turns to what was written so far.               *)
LEMMA FailedStep ==
  ASSUME PublicationInv, job.phase \in {"publish", "checked"}, job' = Failed, UNCHANGED <<tree, touched>>
  PROVE  PublicationInv'
<1>. USE DEF PublicationInv
<1>1. job.next \in 1..Len(job.files) /\ Len(job.files) \in Nat
  BY CurrentIsPlanned DEF Writing
<1>2. /\ job'.tool = job.tool /\ job'.files = job.files /\ job'.kept = job.kept /\ job'.next = job.next - 1
      /\ job'.phase = IF job.tool = "reconcile" /\ job.next > 1 THEN "rollback" ELSE "failed"
      /\ job' = [tool |-> job'.tool, phase |-> job'.phase, files |-> job'.files, next |-> job'.next,
                 runs |-> job'.runs, kept |-> job'.kept, clean |-> job'.clean]
  BY DEF Shape, Failed
<1>3. Shape'
  BY <1>1, <1>2 DEF Shape, Writing, IsTree
<1>4. CheckedIsSeen'
  BY <1>2 DEF CheckedIsSeen
<1>5. Undoable'
  <2>1. job.tool = "reconcile" => Written' = Written
    <3>1. CASE job.next > 1
      BY <1>1, <1>2, <3>1 DEF Written
    <3>2. CASE ~(job.next > 1)
      <4>1. 1..(job.next - 1) = {}
        BY <1>1, <3>2
      <4>. QED BY <1>2, <3>2, <4>1 DEF Written
    <3>. QED BY <3>1, <3>2
  <2>2. Undoable' <=> (job'.tool = "reconcile" /\ job'.phase \in {"planned", "failed"} \cup Writing =>
                         \A c \in ToSet(job'.files) :
                           \/ c.path \in DOMAIN touched' \cup job'.kept
                           \/ At(c.path)' = c.before
                           \/ \E j \in Written' : job'.files[j].path = c.path /\ At(c.path)' = job'.files[j].after)
    BY DEF Undoable, Writing, At
  <2>3. \A path : At(path)' = At(path)
    BY DEF At
  <2>4. job.phase \in {"planned", "failed"} \cup Writing
    BY DEF Writing
  <2> HIDE DEF Undoable
  <2>5. job.tool = "reconcile" => \A c \in ToSet(job.files) :
                           \/ c.path \in DOMAIN touched \cup job.kept
                           \/ At(c.path) = c.before
                           \/ \E j \in Written : job.files[j].path = c.path /\ At(c.path) = job.files[j].after
    BY <2>4 DEF Undoable
  <2>. QED BY <1>2, <2>1, <2>2, <2>3, <2>5
<1>. QED BY <1>2, <1>3, <1>4, <1>5, FilesStay

-----------------------------------------------------------------------------
(* A plan starts from what the checkout holds.                             *)
LEMMA StartKeeps ==
  ASSUME ChecksOut, PublicationInv, NEW tool \in Tools, Start(tool)
  PROVE  PublicationInv'
<1> DEFINE plan == PlanOf(tool)
<1>1. /\ job' = [tool |-> tool, phase |-> IF plan.ok THEN "planned" ELSE "refused", files |-> plan.files, next |-> 1,
                 runs |-> job.runs + 1, kept |-> {}, clean |-> job.clean]
      /\ touched' = <<>> /\ tree' = tree
  BY DEF Start
<1>2. IsTree(tree) /\ IsFiniteSet(DOMAIN tree) /\ IsFiniteSet(DOMAIN Report.operations) /\ tool \in {"scaffold", "reconcile", "generate"}
  BY DEF PublicationInv, Shape, IsTree, ChecksOut
<1>3. /\ IsList(plan.files)
      /\ \A c \in ToSet(plan.files) : AtMostOne(c.before) /\ AtMostOne(c.after)
      /\ tool = "scaffold" => \A c \in ToSet(plan.files) : c.before = {}
      /\ tool = "reconcile" => \A c \in ToSet(plan.files) : c.before = At(c.path)
  <2>0. \A p : AtMostOne(At(p))
    BY DEF At, AtMostOne
  <2>1. CASE tool = "scaffold"
    <3>1. plan = ScaffoldHTTPManifests(tree, Report)
      BY <2>1 DEF PlanOf
    <3>. QED BY <1>2, <2>1, <3>1, ScaffoldCreates DEF AtMostOne
  <2>2. CASE tool = "reconcile"
    <3>1. plan = ReconcileHTTPManifests(tree, Report)
      BY <2>2 DEF PlanOf
    <3>. QED BY <1>2, <2>0, <2>2, <3>1, ReconcileReads
  <2>3. CASE tool = "generate"
    <3>1. plan = GenerateFiles(tree)
      BY <2>3 DEF PlanOf
    <3>. QED BY <1>2, <2>0, <2>3, <3>1, DrawingReplaces
  <2>. QED BY <1>2, <2>1, <2>2, <2>3
<1> HIDE DEF plan
<1>4. /\ job'.tool = tool /\ job'.files = plan.files /\ job'.next = 1 /\ job'.phase \in {"planned", "refused"}
      /\ DOMAIN touched' = {}
  BY <1>1
<1>5. Shape'
  BY <1>1, <1>2, <1>3 DEF Shape, Writing, IsTree
<1>6. FilesFit'
  BY <1>3, <1>4 DEF FilesFit
<1>7. CheckedIsSeen' /\ DrawnAlone' /\ EditsSurvive'
  BY <1>4 DEF CheckedIsSeen, DrawnAlone, EditsSurvive
<1>8. Undoable'
  BY <1>1, <1>3, <1>4 DEF Undoable, Writing, At
<1>. QED BY <1>5, <1>6, <1>7, <1>8 DEF PublicationInv

LEMMA PreflightKeeps == ASSUME PublicationInv, Preflight PROVE PublicationInv'
<1>. USE DEF PublicationInv
<1>1. /\ job'.tool = job.tool /\ job'.files = job.files /\ job'.next = 1 /\ job'.kept = job.kept /\ job.phase = "planned"
      /\ job'.phase \in {"failed", "done", "publish"} /\ (job'.phase = "publish" => job.files # <<>>)
      /\ job' = [tool |-> job'.tool, phase |-> job'.phase, files |-> job'.files, next |-> job'.next,
                 runs |-> job'.runs, kept |-> job'.kept, clean |-> job'.clean]
      /\ UNCHANGED <<tree, touched>>
  BY DEF Preflight, Shape
<1>2. Shape'
  <2>1. job.files # <<>> => 1 \in 1..Len(job.files)
    BY DEF Shape, IsList
  <2>. QED BY <1>1, <2>1 DEF Shape, Writing, IsTree
<1>3. CheckedIsSeen'
  BY <1>1 DEF CheckedIsSeen
<1>4. Undoable'
  <2>1. Written = {}
    BY <1>1 DEF Written
  <2>. QED BY <1>1, <2>1 DEF Undoable, At
<1>. QED BY <1>1, <1>2, <1>3, <1>4, FilesStay

LEMMA CheckFileKeeps == ASSUME PublicationInv, CheckFile PROVE PublicationInv'
<1>. USE DEF PublicationInv
<1> DEFINE fine == CASE job.tool = "reconcile" -> checkReconcileFile(Current) [] job.tool = "scaffold" -> At(Current.path) = {} [] OTHER -> TRUE
<1>0. job.phase = "publish" /\ UNCHANGED <<tree, touched>> /\ job' = IF fine THEN [job EXCEPT !.phase = "checked"] ELSE Failed
  BY DEF CheckFile
<1>1. CASE ~fine
  BY <1>0, <1>1, FailedStep
<1>2. CASE fine
  <2>1. job.tool = "reconcile" => At(Current.path) = Current.before
    BY <1>2 DEF checkReconcileFile
  <2> HIDE DEF fine
  <2>2. /\ job'.tool = job.tool /\ job'.files = job.files /\ job'.next = job.next /\ job'.kept = job.kept /\ job'.phase = "checked"
        /\ job' = [tool |-> job'.tool, phase |-> job'.phase, files |-> job'.files, next |-> job'.next,
                   runs |-> job'.runs, kept |-> job'.kept, clean |-> job'.clean]
    BY <1>0, <1>2 DEF Shape
  <2>3. Shape'
    BY <1>0, <2>2 DEF Shape, Writing, IsTree
  <2>4. CheckedIsSeen'
    BY <1>0, <2>1, <2>2 DEF CheckedIsSeen, Current, At
  <2>5. Undoable'
    <3>1. Written' = Written
      BY <1>0, <2>2 DEF Written
    <3>. QED BY <1>0, <2>2, <3>1 DEF Undoable, Writing, At
  <2>. QED BY <1>0, <2>2, <2>3, <2>4, <2>5, FilesStay
<1>. QED BY <1>1, <1>2

(* What is written over is what was read, so an edit that is lost was one  *)
(* to the content that was read.                                           *)
LEMMA WriteFileKeeps == ASSUME PublicationInv, WriteFile PROVE PublicationInv'
<1>. USE DEF PublicationInv
<1> DEFINE taken == (job.tool # "generate" /\ Current.before = {} /\ At(Current.path) # {}) \/ (Current.after = {} /\ At(Current.path) = {})
<1>0. job.phase = "checked" /\ touched' = touched
  BY DEF WriteFile
<1>1. CASE taken
  BY <1>0, <1>1, FailedStep DEF WriteFile
<1>2. CASE ~taken
  <2>0. job.phase \in Writing
    BY <1>0 DEF Writing
  <2>1. /\ Current \in ToSet(job.files) /\ DOMAIN job.files = 1..Len(job.files)
        /\ job.next \in DOMAIN job.files /\ job.next \in Nat /\ Len(job.files) \in Nat
    BY <2>0, CurrentIsPlanned
  <2>2. /\ tree' = Applied(tree, Current)
        /\ job'.tool = job.tool /\ job'.files = job.files /\ job'.next = job.next + 1 /\ job'.kept = job.kept
        /\ job'.phase = IF job.next = Len(job.files) THEN "done" ELSE "publish"
        /\ job' = [tool |-> job'.tool, phase |-> job'.phase, files |-> job'.files, next |-> job'.next,
                   runs |-> job'.runs, kept |-> job'.kept, clean |-> job'.clean]
    BY <1>2 DEF WriteFile, Shape
  <2>3. PICK c : c = Current
    OBVIOUS
  <2>4. IsTree(tree)' /\ \A p : At(p)' = IF p = c.path THEN c.after ELSE At(p)
    BY <2>1, <2>2, <2>3, AppliedTo DEF Shape, FilesFit
  <2>5. job.tool # "generate" => At(c.path) = c.before
    <3>1. CASE job.tool = "scaffold"
      BY <1>2, <2>1, <2>3, <3>1 DEF FilesFit
    <3>2. CASE job.tool = "reconcile"
      BY <1>0, <1>2, <2>3, <3>2 DEF CheckedIsSeen
    <3>. QED BY <1>0, <3>1, <3>2 DEF Shape
  <2>6. Shape'
    BY <1>0, <2>1, <2>2, <2>4 DEF Shape, Writing
  <2>7. FilesFit' /\ CheckedIsSeen' /\ DrawnAlone'
    BY <1>0, <2>2 DEF FilesFit, CheckedIsSeen, DrawnAlone
  <2>8. EditsSurvive'
    <3> SUFFICES ASSUME NEW path \in DOMAIN touched
                 PROVE  At(path)' = touched[path] \/ \E d \in ToSet(job.files) : d.path = path /\ touched[path] \in {d.before, d.after}
      BY <1>0, <2>2 DEF EditsSurvive
    <3>1. CASE path # c.path
      BY <2>4, <3>1 DEF EditsSurvive
    <3>2. CASE path = c.path
      <4>1. job.tool # "generate"
        BY <2>1, <2>3, <3>2 DEF DrawnAlone
      <4>. QED BY <2>1, <2>3, <2>5, <3>2, <4>1 DEF EditsSurvive
    <3>. QED BY <3>1, <3>2
  <2>9. Undoable'
    <3> SUFFICES ASSUME job.tool = "reconcile", job'.phase = "publish", NEW d \in ToSet(job.files)
                 PROVE  \/ d.path \in DOMAIN touched \cup job.kept
                        \/ At(d.path)' = d.before
                        \/ \E j \in 1..job.next : job.files[j].path = d.path /\ At(d.path)' = job.files[j].after
      BY <1>0, <2>1, <2>2 DEF Undoable, Writing, Written
    <3>1. CASE d.path = c.path
      BY <2>1, <2>3, <2>4, <3>1 DEF Current
    <3>2. CASE d.path # c.path
      <4>1. At(d.path)' = At(d.path)
        BY <2>4, <3>2
      <4>2. Written = 1..(job.next - 1) /\ 1..(job.next - 1) \subseteq 1..job.next
        BY <1>0, <2>1 DEF Written
      <4>. QED BY <1>0, <4>1, <4>2 DEF Undoable, Writing
    <3>. QED BY <3>1, <3>2
  <2>. QED BY <2>6, <2>7, <2>8, <2>9
<1>. QED BY <1>1, <1>2

LEMMA WriteFailsKeeps == ASSUME PublicationInv, WriteFails PROVE PublicationInv'
BY FailedStep DEF WriteFails

(* What is undone is what was written: a file somebody touched since then  *)
(* is left.                                                                *)
LEMMA RollbackFileKeeps == ASSUME PublicationInv, RollbackFile PROVE PublicationInv'
<1>. USE DEF PublicationInv
<1>0. job.phase = "rollback" /\ touched' = touched
  BY DEF RollbackFile
<1>1. /\ Current \in ToSet(job.files) /\ DOMAIN job.files = 1..Len(job.files)
      /\ job.next \in DOMAIN job.files /\ job.next \in Nat /\ Len(job.files) \in Nat
  BY <1>0, CurrentIsPlanned DEF Writing
<1>2. /\ job'.tool = job.tool /\ job'.files = job.files /\ job'.next = job.next - 1 /\ job'.kept = job.kept
      /\ job'.phase = IF job.next = 1 THEN "failed" ELSE "rollback"
      /\ job' = [tool |-> job'.tool, phase |-> job'.phase, files |-> job'.files, next |-> job'.next,
                 runs |-> job'.runs, kept |-> job'.kept, clean |-> job'.clean]
  BY DEF RollbackFile, Shape
<1>3. PICK c : c = Current
  OBVIOUS
<1>4. AtMostOne(c.before)
  BY <1>1, <1>3 DEF FilesFit
<1>5. IsTree(tree)' /\ \A p : At(p)' = IF p = c.path /\ At(p) = c.after THEN c.before ELSE At(p)
  <2>1. CASE At(c.path) = c.after
    <3>1. PICK u : u = Undo(c)
      OBVIOUS
    <3>2. u.path = c.path /\ u.before = c.after /\ u.after = c.before
      BY <3>1, ChangeIs DEF Undo
    <3>3. tree' = Applied(tree, u)
      BY <1>3, <2>1, <3>1, <3>2 DEF RollbackFile, checkReconcileFile
    <3>. QED BY <1>4, <2>1, <3>2, <3>3, AppliedTo DEF Shape
  <2>2. CASE At(c.path) # c.after
    <3>1. PICK u : u = Undo(c)
      OBVIOUS
    <3>2. u.path = c.path /\ u.before = c.after
      BY <3>1, ChangeIs DEF Undo
    <3>3. tree' = tree
      BY <1>3, <2>2, <3>1, <3>2 DEF RollbackFile, checkReconcileFile
    <3>. QED BY <2>2, <3>3 DEF Shape, IsTree, At
  <2>. QED BY <2>1, <2>2
<1>6. Shape'
  BY <1>0, <1>1, <1>2, <1>5 DEF Shape, Writing
<1>7. FilesFit' /\ CheckedIsSeen' /\ DrawnAlone'
  BY <1>0, <1>2 DEF FilesFit, CheckedIsSeen, DrawnAlone
<1>8. EditsSurvive'
  <2> SUFFICES ASSUME NEW path \in DOMAIN touched
               PROVE  At(path)' = touched[path] \/ \E d \in ToSet(job.files) : d.path = path /\ touched[path] \in {d.before, d.after}
    BY <1>0, <1>2 DEF EditsSurvive
  <2>. QED BY <1>1, <1>3, <1>5 DEF EditsSurvive
<1>9. Undoable'
  <2> SUFFICES ASSUME job.tool = "reconcile", NEW d \in ToSet(job.files)
               PROVE  \/ d.path \in DOMAIN touched \cup job.kept
                      \/ At(d.path)' = d.before
                      \/ \E j \in 1..(job.next - 1) : job.files[j].path = d.path /\ At(d.path)' = job.files[j].after
    <3>1. Written' = 1..(job.next - 1)
      <4>1. CASE job.next = 1
        <5>1. 1..(job.next - 1) = {}
          BY <4>1
        <5>. QED BY <1>2, <4>1, <5>1 DEF Written
      <4>2. CASE job.next # 1
        BY <1>2, <4>2 DEF Written
      <4>. QED BY <4>1, <4>2
    <3>. QED BY <1>0, <1>2, <3>1 DEF Undoable
  <2>1. \/ d.path \in DOMAIN touched \cup job.kept
        \/ At(d.path) = d.before
        \/ \E j \in 1..job.next : job.files[j].path = d.path /\ At(d.path) = job.files[j].after
    BY <1>0 DEF Undoable, Writing, Written
  <2>2. CASE d.path = c.path
    <3>1. c.before = d.before
      BY <1>1, <1>3, <2>2 DEF FilesFit
    <3>2. CASE At(d.path) = c.after
      BY <1>5, <2>2, <3>1, <3>2
    <3>3. CASE At(d.path) # c.after
      <4>1. At(d.path)' = At(d.path)
        BY <1>5, <2>2, <3>3
      <4>2. \A j \in 1..job.next : At(d.path) = job.files[j].after => j \in 1..(job.next - 1)
        BY <1>1, <1>3, <3>3 DEF Current
      <4>. QED BY <2>1, <4>1, <4>2
    <3>. QED BY <3>2, <3>3
  <2>3. CASE d.path # c.path
    <3>1. At(d.path)' = At(d.path)
      BY <1>5, <2>3
    <3>2. \A j \in 1..job.next : job.files[j].path = d.path => j \in 1..(job.next - 1)
      BY <1>1, <1>3, <2>3 DEF Current
    <3>. QED BY <2>1, <3>1, <3>2
  <2>. QED BY <2>2, <2>3
<1>. QED BY <1>6, <1>7, <1>8, <1>9

LEMMA RollbackFailsKeeps == ASSUME PublicationInv, RollbackFails PROVE PublicationInv'
<1>. USE DEF PublicationInv
<1>0. job.phase = "rollback" /\ UNCHANGED <<tree, touched>>
  BY DEF RollbackFails
<1>1. /\ Current \in ToSet(job.files) /\ DOMAIN job.files = 1..Len(job.files)
      /\ job.next \in DOMAIN job.files /\ job.next \in Nat /\ Len(job.files) \in Nat
  BY <1>0, CurrentIsPlanned DEF Writing
<1>2. /\ job'.tool = job.tool /\ job'.files = job.files /\ job'.next = job.next - 1 /\ job'.kept = job.kept \cup {Current.path}
      /\ job'.phase = IF job.next = 1 THEN "failed" ELSE "rollback"
      /\ job' = [tool |-> job'.tool, phase |-> job'.phase, files |-> job'.files, next |-> job'.next,
                 runs |-> job'.runs, kept |-> job'.kept, clean |-> job'.clean]
  BY DEF RollbackFails, Shape
<1>3. Shape'
  BY <1>0, <1>1, <1>2 DEF Shape, Writing, IsTree
<1>4. CheckedIsSeen'
  BY <1>2 DEF CheckedIsSeen
<1>5. Undoable'
  <2> SUFFICES ASSUME job.tool = "reconcile", NEW d \in ToSet(job.files)
               PROVE  \/ d.path \in DOMAIN touched \cup job.kept \cup {Current.path}
                      \/ At(d.path) = d.before
                      \/ \E j \in 1..(job.next - 1) : job.files[j].path = d.path /\ At(d.path) = job.files[j].after
    <3>1. Written' = 1..(job.next - 1)
      <4>1. CASE job.next = 1
        <5>1. 1..(job.next - 1) = {}
          BY <4>1
        <5>. QED BY <1>2, <4>1, <5>1 DEF Written
      <4>2. CASE job.next # 1
        BY <1>2, <4>2 DEF Written
      <4>. QED BY <4>1, <4>2
    <3>2. \A p : At(p)' = At(p)
      BY <1>0 DEF At
    <3>. QED BY <1>0, <1>2, <3>1, <3>2 DEF Undoable
  <2>1. \/ d.path \in DOMAIN touched \cup job.kept
        \/ At(d.path) = d.before
        \/ \E j \in 1..job.next : job.files[j].path = d.path /\ At(d.path) = job.files[j].after
    BY <1>0 DEF Undoable, Writing, Written
  <2>2. CASE d.path # Current.path
    <3>1. \A j \in 1..job.next : job.files[j].path = d.path => j \in 1..(job.next - 1)
      BY <1>1, <2>2 DEF Current
    <3>. QED BY <2>1, <3>1
  <2>. QED BY <2>2
<1>. QED BY <1>0, <1>2, <1>3, <1>4, <1>5, FilesStay

(* An edit outside the window of a write is of a file that is not checked. *)
LEMMA EditKeeps ==
  ASSUME ChecksOut, PublicationInv, NEW path, NEW text \in Texts, Edit(path, text)
  PROVE  PublicationInv'
<1>. USE DEF PublicationInv
<1>1. /\ job'.tool = job.tool /\ job'.files = job.files /\ job'.next = job.next /\ job'.kept = job.kept /\ job'.phase = job.phase
      /\ job' = [tool |-> job'.tool, phase |-> job'.phase, files |-> job'.files, next |-> job'.next,
                 runs |-> job'.runs, kept |-> job'.kept, clean |-> job'.clean]
  BY DEF Edit, Shape
<1>2. touched' = With(touched, path, text) /\ ~InWindow(path)
  BY DEF Edit
<1>3. DOMAIN touched' = DOMAIN touched \cup {path} /\ touched'[path] = text /\ \A p \in DOMAIN touched \ {path} : touched'[p] = touched[p]
  BY <1>2 DEF With
<1>4. IsTree(tree)' /\ \A p : At(p)' = IF p = path THEN text ELSE At(p)
  <2>1. PICK c : c = Change(path, At(path), text)
    OBVIOUS
  <2>2. c.path = path /\ c.after = text
    BY <2>1, ChangeIs
  <2>3. tree' = Applied(tree, c) /\ AtMostOne(c.after)
    BY <2>1, <2>2 DEF Edit, ChecksOut
  <2>. QED BY <2>2, <2>3, AppliedTo DEF Shape
<1>5. Shape'
  BY <1>1, <1>4 DEF Shape
<1>6. FilesFit'
  BY <1>1 DEF FilesFit
<1>7. CheckedIsSeen'
  <2>1. Current' = Current
    BY <1>1 DEF Current
  <2>. QED BY <1>1, <1>2, <1>4, <2>1 DEF CheckedIsSeen, InWindow
<1>8. DrawnAlone'
  BY <1>1, <1>2, <1>3 DEF DrawnAlone, InWindow
<1>9. EditsSurvive'
  BY <1>1, <1>3, <1>4 DEF EditsSurvive
<1>10. Undoable'
  <2>1. Written' = Written
    BY <1>1 DEF Written
  <2>. QED BY <1>1, <1>3, <1>4, <2>1 DEF Undoable
<1>. QED BY <1>5, <1>6, <1>7, <1>8, <1>9, <1>10

LEMMA KillKeeps == ASSUME PublicationInv, Kill PROVE PublicationInv'
<1>. USE DEF PublicationInv
<1>1. /\ job'.tool = job.tool /\ job'.files = job.files /\ job'.phase = "killed" /\ job.phase # "idle"
      /\ job' = [tool |-> job'.tool, phase |-> job'.phase, files |-> job'.files, next |-> job'.next,
                 runs |-> job'.runs, kept |-> job'.kept, clean |-> job'.clean]
      /\ UNCHANGED <<tree, touched>>
  BY DEF Kill, Shape
<1>2. Shape' /\ CheckedIsSeen' /\ Undoable'
  BY <1>1 DEF Shape, Writing, IsTree, CheckedIsSeen, Undoable
<1>. QED BY <1>1, <1>2, FilesStay

LEMMA InvStays == ASSUME ChecksOut, PublicationInv, [Next]_vars PROVE PublicationInv'
<1>1. ASSUME NEW tool \in Tools, Start(tool) PROVE PublicationInv'
  BY <1>1, StartKeeps
<1>2. CASE Preflight
  BY <1>2, PreflightKeeps
<1>3. CASE CheckFile
  BY <1>3, CheckFileKeeps
<1>4. CASE WriteFile
  BY <1>4, WriteFileKeeps
<1>5. CASE WriteFails
  BY <1>5, WriteFailsKeeps
<1>6. CASE RollbackFile
  BY <1>6, RollbackFileKeeps
<1>7. CASE RollbackFails
  BY <1>7, RollbackFailsKeeps
<1>8. CASE Kill
  BY <1>8, KillKeeps
<1>9. ASSUME NEW path \in Paths, NEW text \in Texts, Edit(path, text) PROVE PublicationInv'
  BY <1>9, EditKeeps
<1>10. CASE UNCHANGED vars
  <2>1. tree' = tree /\ job' = job /\ touched' = touched
    BY <1>10 DEF vars
  <2>2. Shape' /\ CheckedIsSeen' /\ Undoable'
    <3>1. Current' = Current /\ Written' = Written
      BY <2>1 DEF Current, Written
    <3>. QED BY <2>1, <3>1 DEF PublicationInv, Shape, IsTree, CheckedIsSeen, Undoable, At
  <2>. QED BY <2>1, <2>2, FilesStay DEF PublicationInv
<1>. QED BY <1>1, <1>2, <1>3, <1>4, <1>5, <1>6, <1>7, <1>8, <1>9, <1>10 DEF Next

-----------------------------------------------------------------------------
(* What an editor left since the command read the checkout is never lost:  *)
(* checkReconcileFile before each replacement and each restoration, and a  *)
(* create that never replaces.                                             *)
THEOREM EditsAlwaysSurvive == ASSUME ChecksOut PROVE Spec => []EditsSurvive
<1>1. Init => PublicationInv
  BY InvStarts
<1>2. PublicationInv /\ [Next]_vars => PublicationInv'
  BY InvStays
<1>3. PublicationInv => EditsSurvive
  BY DEF PublicationInv
<1>. QED BY <1>1, <1>2, <1>3, PTL DEF Spec

(* A reconciliation that failed leaves every file it planned to change as  *)
(* it was, or to its editor, or reports it (applyReconciliation).          *)
THEOREM FailuresAlwaysUndo == ASSUME ChecksOut PROVE Spec => []FailuresUndo
<1>1. Init => PublicationInv
  BY InvStarts
<1>2. PublicationInv /\ [Next]_vars => PublicationInv'
  BY InvStays
<1>3. PublicationInv => FailuresUndo
  <2> SUFFICES ASSUME PublicationInv, job.tool = "reconcile", job.phase = "failed", NEW c \in ToSet(job.files)
               PROVE  At(c.path) = c.before \/ c.path \in DOMAIN touched \cup job.kept
    BY DEF FailuresUndo
  <2>1. Written = {}
    BY DEF Written
  <2>. QED BY <2>1 DEF PublicationInv, Undoable
<1>. QED BY <1>1, <1>2, <1>3, PTL DEF Spec

-----------------------------------------------------------------------------
(***************************************************************************)
(* Frozen contracts.                                                       *)
(***************************************************************************)
(* A plan over finitely many boundaries has finitely many references.      *)
LEMMA ReferencesAreFinite ==
  ASSUME NEW profile, NEW boundaries, IsFiniteSet(DOMAIN boundaries)
  PROVE  IsFiniteSet(PlannedContractReferences(profile, boundaries).refs)
<1> DEFINE f == [i \in DOMAIN boundaries |-> Reference(profile, boundaries[i])]
<1>1. PlannedContractReferences(profile, boundaries).refs \in {{}, {f[i] : i \in DOMAIN f}}
  BY DEF PlannedContractReferences
<1>2. IsFiniteSet(DOMAIN f)
  OBVIOUS
<1> HIDE DEF f
<1>3. IsFiniteSet({f[i] : i \in DOMAIN f})
  BY <1>2, ImageIsFinite
<1>. QED BY <1>1, <1>3, FS_EmptySet

(* Files told apart by their paths are as many as their paths.             *)
LEMMA FilesArePaths ==
  ASSUME NEW files, IsFiniteSet(files), \A f, g \in files : f.path = g.path => f = g
  PROVE  Cardinality({f.path : f \in files}) = Cardinality(files)
<1> DEFINE h == [f \in files |-> f.path]
           paths == {f.path : f \in files}
<1>1. h \in Bijection(files, paths)
  BY DEF Bijection, Injection, Surjection, IsInjective
<1>2. ExistsBijection(files, paths)
  BY <1>1 DEF ExistsBijection
<1>. QED BY <1>2, FS_Bijection

(* The gate over the working tree and the gate over the commit give one    *)
(* verdict, but for the two checks each of them makes alone (verifier.go:37*)
(* and verifier.go:173).                                                   *)
THEOREM GatesAlwaysAgree ==
  ASSUME NEW q, IsFiniteSet(DOMAIN q.boundaries)
  PROVE  GatesAgree(q)
<1> DEFINE refs == PlannedContractReferences(q.profile, q.boundaries).refs
           targets == {r.path : r \in refs}
           changed == Changed(q.base, q.tree)
           present == {x \in targets \cup (changed \cap targets) : q.tree[x] # Absent}
           diff == VerifyContractDiff(q.profile, q.base, q.tree, targets, refs)
           commit == [sha |-> TRUE, parents |-> 1, childOfBase |-> TRUE, tree |-> q.tree]
           files == diff.files
           paths == {f.path : f \in files}
           Checked(p) == VerifyFile(q.profile, p, q.tree[p], q.base[p], RefsFor(refs, p))
           Owned(r) == ContractPathOwnedByRoute(q.profile, r.route, r.path)
           Located(p) == contractLocationPath(q.profile, p)
           small == \A p \in changed : q.tree[p] = Absent \/ q.tree[p].small
           clean == \A r \in refs : q.tree[r.path] = Absent \/ r.path \in changed \/ ~q.tree[r.path].secret
           committed == VerifyCommittedBaseline(q.profile, q.base, commit, files, refs)
<1>1. files = {[path |-> p, hash |-> q.tree[p]] : p \in present}
  BY DEF VerifyContractDiff
<1>2. IsFiniteSet(present)
  <2> DEFINE f == [r \in refs |-> r.path]
  <2>1. IsFiniteSet(DOMAIN f) /\ targets = {f[r] : r \in DOMAIN f}
    BY ReferencesAreFinite
  <2> HIDE DEF f, targets, changed
  <2>2. IsFiniteSet(targets)
    BY <2>1, ImageIsFinite
  <2>. QED BY <2>2, FS_Subset
<1>3. diff.passed =
        (/\ changed # {} /\ \A p \in targets : Located(p)
         /\ \A r \in refs : r.path \in targets /\ Owned(r) /\ r.symbol # ""
         /\ \A p \in changed : p \in targets /\ q.tree[p] # Absent /\ q.tree[p].small /\ ~q.tree[p].secret /\ Checked(p)
         /\ \A p \in targets \ changed : q.tree[p] # Absent /\ Checked(p))
  BY DEF VerifyContractDiff
<1>4. committed =
        (/\ commitChangedPaths(q.base, q.tree).ok /\ commitChangedPaths(q.base, q.tree).paths # {}
         /\ commitChangedPaths(q.base, q.tree).paths \subseteq paths
         /\ Cardinality(paths) = Cardinality(files) /\ \A p \in paths : Located(p)
         /\ \A r \in refs : r.symbol # "" /\ r.path \in paths /\ Owned(r)
         /\ \A f \in files :
              /\ RefsFor(refs, f.path) # {} /\ q.tree[f.path] # Absent
              /\ q.tree[f.path] = f.hash
              /\ Located(f.path) /\ ~q.tree[f.path].secret /\ Checked(f.path))
  BY DEF VerifyCommittedBaseline, validateContractContent
<1>5. /\ commitChangedPaths(q.base, q.tree).ok <=> \A p \in changed : q.tree[p] # Absent
      /\ commitChangedPaths(q.base, q.tree).ok => commitChangedPaths(q.base, q.tree).paths = changed
  <2>1. CASE \E p \in changed : q.tree[p] = Absent
    BY <2>1 DEF commitChangedPaths
  <2>2. CASE ~\E p \in changed : q.tree[p] = Absent
    BY <2>2 DEF commitChangedPaths
  <2>. QED BY <2>1, <2>2
<1>6. /\ paths = present /\ Cardinality(paths) = Cardinality(files)
      /\ \A f \in files : f.path \in present /\ f.hash = q.tree[f.path]
  <2> DEFINE g == [p \in present |-> [path |-> p, hash |-> q.tree[p]]]
  <2>1. files = {g[p] : p \in DOMAIN g} /\ IsFiniteSet(DOMAIN g) /\ DOMAIN g = present
    BY <1>1, <1>2
  <2>2. \A p \in present : g[p].path = p /\ g[p].hash = q.tree[p]
    OBVIOUS
  <2> HIDE DEF g, present, files
  <2>3. IsFiniteSet(files)
    BY <2>1, ImageIsFinite
  <2>4. Cardinality(paths) = Cardinality(files)
    BY <2>1, <2>2, <2>3, FilesArePaths
  <2>. QED BY <2>1, <2>2, <2>4
<1>7. GatesAgree(q) <=> (small /\ clean => diff.passed = committed)
  BY DEF GatesAgree
<1>8. ASSUME small, clean PROVE diff.passed <=> committed
  <2>1. \A r \in refs : r.path \in targets
    OBVIOUS
  <2>2. \A p \in targets : \E r \in refs : r.path = p
    OBVIOUS
  <2>3. \A p \in targets : RefsFor(refs, p) # {}
    BY <2>2 DEF RefsFor
  <2>4. \A p : p \in present <=> p \in targets /\ q.tree[p] # Absent
    OBVIOUS
  <2>5. \A p \in paths : \E f \in files : f.path = p
    OBVIOUS
  <2>6. \A f \in files : f.path \in paths
    OBVIOUS
  <2> DEFINE passed == diff.passed
  <2>7. passed <=>
        (/\ changed # {} /\ \A p \in targets : Located(p)
         /\ \A r \in refs : r.path \in targets /\ Owned(r) /\ r.symbol # ""
         /\ \A p \in changed : p \in targets /\ q.tree[p] # Absent /\ q.tree[p].small /\ ~q.tree[p].secret /\ Checked(p)
         /\ \A p \in targets \ changed : q.tree[p] # Absent /\ Checked(p))
    BY <1>3
  <2> HIDE DEF refs, targets, changed, present, files, paths, Checked, Owned, Located, committed, passed, diff
  <2>8. ASSUME passed PROVE committed
    <3>1. paths = targets
      BY <1>6, <2>4, <2>7, <2>8
    <3>2. \A p \in targets : Located(p) /\ q.tree[p] # Absent /\ Checked(p)
      BY <2>7, <2>8
    <3>3. \A p \in targets : ~q.tree[p].secret
      BY <1>8, <2>2, <2>7, <2>8, <3>2
    <3>4. /\ commitChangedPaths(q.base, q.tree).ok /\ commitChangedPaths(q.base, q.tree).paths = changed
          /\ changed # {} /\ changed \subseteq targets
      BY <1>5, <2>7, <2>8
    <3>5. \A f \in files : f.path \in targets /\ q.tree[f.path] = f.hash
      BY <1>6, <2>6, <3>1
    <3>6. \A r \in refs : r.symbol # "" /\ r.path \in paths /\ Owned(r)
      BY <2>7, <2>8, <3>1
    <3>. QED BY <1>4, <1>6, <2>3, <3>1, <3>2, <3>3, <3>4, <3>5, <3>6
  <2>9. ASSUME committed PROVE passed
    <3>1. paths = targets
      BY <1>4, <1>6, <2>2, <2>4, <2>9
    <3>2. \A p \in targets : Located(p) /\ q.tree[p] # Absent /\ ~q.tree[p].secret /\ Checked(p)
      <4>1. \A f \in files : /\ q.tree[f.path] # Absent /\ Located(f.path)
                              /\ ~q.tree[f.path].secret /\ Checked(f.path)
        BY <1>4, <2>9
      <4>2. \A p \in targets : \E f \in files : f.path = p
        BY <2>5, <3>1
      <4>. QED BY <4>1, <4>2
    <3>3. changed # {} /\ changed \subseteq targets /\ \A p \in changed : q.tree[p].small
      BY <1>4, <1>5, <1>8, <2>9, <3>1, <3>2
    <3>4. \A r \in refs : Owned(r) /\ r.symbol # ""
      BY <1>4, <2>9
    <3>. QED BY <2>1, <2>7, <3>2, <3>3, <3>4
  <2>. QED BY <2>8, <2>9 DEF passed
<1>. QED BY <1>3, <1>4, <1>7, <1>8

(* What the Go gate lets through: no function changes, appears or goes,    *)
(* nothing that was declared is missing, own imports follow the routes,    *)
(* and a port can be called.                                               *)
LEMMA GoFileIsContractOnly ==
  ASSUME NEW profile, NEW path, NEW file, NEW base, NEW refs, verifyGoContractFile(profile, path, file, base, refs),
         file # Absent
  PROVE  FunctionsIn(file) = FunctionsIn(base) /\ NamesIn(base) \subseteq NamesIn(file)
<1> DEFINE owner == (CHOOSE r \in refs : TRUE).route
           now == goContractDeclarations(file)
           before == IF base = Absent THEN << >> ELSE goContractDeclarations(base)
           Kept(k) == k \in DOMAIN before /\ before[k] = now[k]
           Sentinel(k) == k.sort = "var" /\ contractValueAllowed(profile, owner, k.name) /\ isErrorSentinel(file, k.name)
<1>1. (\A k \in DOMAIN now : Kept(k) \/ k.sort = "type" \/ Sentinel(k)) /\ DOMAIN before \subseteq DOMAIN now
  BY DEF verifyGoContractFile
<1>2. DOMAIN now = NamesIn(file)
  BY DEF goContractDeclarations, NamesIn
<1>3. DOMAIN before = NamesIn(base)
  <2>1. CASE base = Absent
    BY <2>1 DEF NamesIn
  <2>2. CASE base # Absent
    BY <2>2 DEF goContractDeclarations, NamesIn
  <2>. QED BY <2>1, <2>2
<1>4. \A k \in NamesIn(base) : before[k] = goContractDeclarations(base)[k]
  BY DEF NamesIn
<1>5. \A k \in DOMAIN now : k.sort = "func" => Kept(k)
  BY <1>1
<1> HIDE DEF now, before
<1>6. \A k : k.sort = "func" => (k \in NamesIn(file) <=> k \in NamesIn(base))
  BY <1>1, <1>2, <1>3, <1>5
<1>7. \A k \in NamesIn(base) : k.sort = "func" => goContractDeclarations(base)[k] = now[k]
  BY <1>1, <1>2, <1>3, <1>4, <1>5
<1>8. {n \in NamesIn(file) : n.sort = "func"} = {n \in NamesIn(base) : n.sort = "func"}
  BY <1>6
<1>9. FunctionsIn(file) = FunctionsIn(base)
  <2> DEFINE K == {n \in NamesIn(base) : n.sort = "func"}
  <2>1. FunctionsIn(file) = {[key |-> k, body |-> now[k]] : k \in K}
    BY <1>8 DEF FunctionsIn, now
  <2>2. FunctionsIn(base) = {[key |-> k, body |-> goContractDeclarations(base)[k]] : k \in K}
    BY DEF FunctionsIn
  <2>3. \A k \in K : goContractDeclarations(base)[k] = now[k]
    BY <1>7
  <2> HIDE DEF K
  <2>. QED BY <2>1, <2>2, <2>3
<1>. QED BY <1>1, <1>2, <1>3, <1>9

LEMMA GoImportsFollowRoutes ==
  ASSUME NEW profile, NEW owner, NEW file, goImportsAllowed(profile, owner, file), NEW i \in file.imports, i.kind = "module"
  PROVE  {m.route : m \in i.matches} \cap ({owner} \cup profile.mayUse[owner]) # {}
<1> DEFINE target == routeForGoPackage(i.matches)
           longest == {m \in i.matches : \A n \in i.matches : n.length <= m.length}
           routes == {m.route : m \in longest}
<1>1. target # "" /\ target \in {owner} \cup profile.mayUse[owner]
  BY DEF goImportsAllowed, classifyGoImport
<1>2. target = IF Cardinality(routes) = 1 THEN (CHOOSE m \in longest : TRUE).route ELSE ""
  BY DEF routeForGoPackage
<1>3. Cardinality(routes) = 1
  BY <1>1, <1>2
<1>4. longest # {}
  <2>1. CASE longest = {}
    <3>1. routes = {}
      BY <2>1
    <3>2. Cardinality(routes) = 0
      BY <3>1, FS_EmptySet
    <3>. QED BY <1>3, <3>2
  <2>. QED BY <2>1
<1>5. PICK m \in longest : m = CHOOSE x \in longest : TRUE
  BY <1>4
<1>6. target = m.route /\ m \in i.matches
  BY <1>2, <1>3, <1>5
<1> HIDE DEF target
<1>. QED BY <1>1, <1>6

(* A frozen commit changes contracts only (VerifyBaseline and the verifier *)
(* of Go contract files).  The base and the commit are over the same paths,*)
(* the declarations of a file are a sequence, and a baseline is a record   *)
(* with files and references.                                              *)
THEOREM FrozenBaselinesAreContractOnly ==
  ASSUME NEW q, {"files", "refs"} \subseteq DOMAIN q.baseline, DOMAIN q.commit.tree = DOMAIN q.base,
         \A p \in DOMAIN q.base : q.commit.tree[p] # Absent => q.commit.tree[p].decls \in Seq(ToSet(q.commit.tree[p].decls)),
         \A r \in PlannedContractReferences(q.profile, q.boundaries).refs : r.path \in DOMAIN q.base
  PROVE  FrozenIsContractOnly(q)
<1> DEFINE refs == PlannedContractReferences(q.profile, q.boundaries).refs
           files == VerifyContractDiff(q.profile, q.base, q.tree, {r.path : r \in refs}, refs).files
           paths == {f.path : f \in files}
           tree1 == q.commit.tree
           baseline == [q.baseline EXCEPT !.files = files, !.aggregate = files, !.refs = refs]
           Owner(rs) == (CHOOSE r \in rs : TRUE).route
<1> SUFFICES ASSUME q.profile.language = "go", VerifyBaseline(q.profile, q.base, q.commit, baseline, q.now)
             PROVE  /\ \A p \in DOMAIN q.base : FunctionsIn(tree1[p]) = FunctionsIn(q.base[p]) /\ NamesIn(q.base[p]) \subseteq NamesIn(tree1[p])
                    /\ \A r \in refs :
                         /\ ~(r.kind = "repository-port" /\ isBehaviorFreeGoSkeleton(tree1[r.path]))
                         /\ \A i \in tree1[r.path].imports : i.kind = "module" => {m.route : m \in i.matches} \cap ({r.route} \cup q.profile.mayUse[r.route]) # {}
  BY DEF FrozenIsContractOnly
<1>1. baseline.files = files /\ baseline.refs = refs
  <2> HIDE DEF files, refs
  <2>. QED OBVIOUS
<1>2. VerifyCommittedBaseline(q.profile, q.base, q.commit, files, refs)
  <2> HIDE DEF files, refs, baseline
  <2>. QED BY <1>1 DEF VerifyBaseline
<1> HIDE DEF files, refs, baseline
<1>3. /\ commitChangedPaths(q.base, tree1).ok /\ commitChangedPaths(q.base, tree1).paths \subseteq paths
      /\ \A r \in refs : r.path \in paths
      /\ \A p \in paths : tree1[p] # Absent /\ VerifyFile(q.profile, p, tree1[p], q.base[p], RefsFor(refs, p))
  BY <1>2 DEF VerifyCommittedBaseline, validateContractContent
<1>4. \A p \in paths : tree1[p] # Absent /\ verifyGoContractFile(q.profile, p, tree1[p], q.base[p], RefsFor(refs, p))
  BY <1>3 DEF VerifyFile
<1>5. \A p \in DOMAIN q.base : p \in paths \/ tree1[p] = q.base[p]
  BY <1>3 DEF commitChangedPaths, Changed
<1>6. ASSUME NEW p \in DOMAIN q.base
      PROVE  FunctionsIn(tree1[p]) = FunctionsIn(q.base[p]) /\ NamesIn(q.base[p]) \subseteq NamesIn(tree1[p])
  <2>1. CASE p \in paths
    BY <1>4, <2>1, GoFileIsContractOnly
  <2>2. CASE tree1[p] = q.base[p]
    BY <2>2
  <2>. QED BY <1>5, <2>1, <2>2
<1>7. ASSUME NEW r \in refs
      PROVE  /\ ~(r.kind = "repository-port" /\ isBehaviorFreeGoSkeleton(tree1[r.path]))
             /\ \A i \in tree1[r.path].imports : i.kind = "module" => {m.route : m \in i.matches} \cap ({r.route} \cup q.profile.mayUse[r.route]) # {}
  <2> DEFINE file == tree1[r.path]
             own == RefsFor(refs, r.path)
  <2>1. r \in own /\ file # Absent /\ verifyGoContractFile(q.profile, r.path, file, q.base[r.path], own)
    BY <1>3, <1>4 DEF RefsFor
  <2>2. /\ r.route = Owner(own) /\ goImportsAllowed(q.profile, Owner(own), file)
        /\ r.kind = "repository-port" => callableGoPort(file, r.symbol)
    BY <2>1 DEF verifyGoContractFile
  <2>3. file.decls \in Seq(ToSet(file.decls))
    BY <2>1 DEF refs
  <2> HIDE DEF file, own, Owner
  <2>4. ~(r.kind = "repository-port" /\ isBehaviorFreeGoSkeleton(file))
    <3> SUFFICES ASSUME callableGoPort(file, r.symbol), isBehaviorFreeGoSkeleton(file) PROVE FALSE
      BY <2>2
    <3>1. PICK d \in ToSet(file.decls) : d.body.methods
      BY DEF callableGoPort
    <3>2. PICK n \in DOMAIN file.decls : d = file.decls[n]
      BY <3>1 DEF ToSet
    <3>3. DOMAIN file.decls = 1..Len(file.decls) /\ Len(file.decls) = 1 /\ ~file.decls[1].body.methods
      BY <2>3 DEF isBehaviorFreeGoSkeleton
    <3>4. n = 1
      BY <3>2, <3>3
    <3>. QED BY <3>1, <3>2, <3>3, <3>4
  <2>5. \A i \in file.imports : i.kind = "module" => {m.route : m \in i.matches} \cap ({r.route} \cup q.profile.mayUse[r.route]) # {}
    BY <2>2, GoImportsFollowRoutes
  <2>. QED BY <2>4, <2>5 DEF file
<1>. QED BY <1>6, <1>7

-----------------------------------------------------------------------------
(***************************************************************************)
(* The verification of a task.                                             *)
(***************************************************************************)

(* A question about a delivery: a worktree maps paths to versions, and the *)
(* other parts have their fields.                                          *)
WorkFits(q) ==
  /\ q = [task |-> q.task, wt |-> q.wt, result |-> q.result, runs |-> q.runs, source |-> q.source, gate |-> q.gate]
  /\ q.wt = [head |-> q.wt.head, tree |-> q.wt.tree, planned |-> q.wt.planned,
             inside |-> q.wt.inside, ours |-> q.wt.ours, descends |-> q.wt.descends]
  /\ q.wt.head = [f \in DOMAIN q.wt.head |-> q.wt.head[f]]
  /\ q.wt.tree = [f \in DOMAIN q.wt.head |-> q.wt.tree[f]]
  /\ q.result = [status |-> q.result.status, files |-> q.result.files, checks |-> q.result.checks,
                 prerequisites |-> q.result.prerequisites, blockers |-> q.result.blockers, artifacts |-> q.result.artifacts]
  /\ q.gate.report = [readable |-> q.gate.report.readable, schema |-> q.gate.report.schema, ofBase |-> q.gate.report.ofBase,
                      head |-> q.gate.report.head, lifecycle |-> q.gate.report.lifecycle,
                      acceptance |-> q.gate.report.acceptance, blockers |-> q.gate.report.blockers]

(* A delivery in its steps.                                                *)
Promoted(q)  == Work!promoteVerifiableBlockedResult(q.task, q.result)
Checks(q)    == Work!Verify(q.task, q.wt, Promoted(q), q.runs)
CommitOf(q)  == Work!Commit(Checks(q).wt, Checks(q).files, q.source)
PolicyOf(q)  == Work!VerifyTask(q.gate, CommitOf(q).head)

LEMMA CompletedSteps ==
  ASSUME NEW q, Work!Deliver(q).outcome = "completed"
  PROVE  /\ Work!Deliver(q).verified = Checks(q) /\ Work!Deliver(q).head = CommitOf(q).head
         /\ Promoted(q).status = "completed" /\ Checks(q).ok /\ CommitOf(q).ok
         /\ PolicyOf(q).ok /\ PolicyOf(q).lifecycle = "DONE" /\ Work!storeArtifacts(Promoted(q).artifacts)
<1> DEFINE result == Promoted(q)
           verified == Checks(q)
           commit == CommitOf(q)
           policy == Work!VerifyTask(q.gate, IF commit.ok THEN commit.head ELSE << >>)
           until == IF result.status # "completed" THEN result.status
                    ELSE IF ~verified.ok THEN "changes_requested"
                    ELSE IF ~commit.ok THEN "error" ELSE Work!Decide(result, policy)
<1>1. Work!Deliver(q) = [outcome |-> until, verified |-> verified, head |-> IF commit.ok THEN commit.head ELSE q.wt.head]
  BY DEF Work!Deliver, Promoted, Checks, CommitOf
<1> HIDE DEF result, verified, commit, policy
<1>2. until = "completed"
  BY <1>1
<1>3. result.status = "completed" /\ verified.ok /\ commit.ok /\ Work!Decide(result, policy) = "completed"
  BY <1>2
<1>4. policy.ok /\ policy.lifecycle = "DONE" /\ Work!storeArtifacts(result.artifacts)
  BY <1>3 DEF Work!Decide
<1>5. policy = PolicyOf(q)
  BY <1>3 DEF policy, PolicyOf, commit
<1>6. Work!Deliver(q).verified = verified /\ Work!Deliver(q).head = commit.head
  BY <1>1, <1>3
<1>. QED BY <1>3, <1>4, <1>5, <1>6 DEF result, verified, commit

(* A task completes only with a report for exactly its commit that the     *)
(* pinned policy runner calls done (VerifyTask of testing_policy.go).      *)
THEOREM DoneIsAlwaysProven ==
  ASSUME NEW q
  PROVE  Work!DoneIsProven(q, Work!Deliver(q))
<1> DEFINE head == CommitOf(q).head
           report == Work!ReportFound(q.gate, head)
<1> SUFFICES ASSUME Work!Deliver(q).outcome = "completed"
             PROVE  /\ q.gate.bundle = "pinned" /\ q.gate.verifyLock = 0 /\ q.gate.verify = 0 /\ q.gate.evidence # "unsafe"
                    /\ report.readable /\ report.head = head
                    /\ report.lifecycle = "DONE" /\ report.blockers = {} /\ report.acceptance \in {"NOT_REQUIRED", "EVIDENCE_PRESENT"}
  BY CompletedSteps DEF Work!DoneIsProven
<1>1. PolicyOf(q).ok /\ PolicyOf(q).lifecycle = "DONE"
  BY CompletedSteps
<1> HIDE DEF head, report
<1>2. /\ ~(q.gate.run = "" \/ ~q.gate.full \/ ~Work!PinnedBundle(q.gate) \/ q.gate.verifyLock # 0)
      /\ q.gate.evidence # "unsafe" /\ report.readable /\ Work!validateTestingPolicyDodReport(report, head)
      /\ (IF Work!DoneAndClean(q.gate, report) \/ report.lifecycle # "DONE" THEN report.lifecycle ELSE "BLOCKED") = "DONE"
  BY <1>1 DEF PolicyOf, Work!VerifyTask, head, report
<1>3. Work!DoneAndClean(q.gate, report)
  BY <1>2
<1>. QED BY <1>2, <1>3 DEF Work!PinnedBundle, Work!DoneAndClean, Work!validateTestingPolicyDodReport, Work!SameIdentity

(* The facts of a verification that passed.                                *)
LEMMA VerifiedFacts ==
  ASSUME NEW q, WorkFits(q), Checks(q).ok
  PROVE  /\ Promoted(q).files = q.result.files
         /\ Checks(q).files = Work!Changed(q.wt) /\ Checks(q).files = q.result.files /\ Checks(q).files # {}
         /\ \A f \in Checks(q).files : \E s \in q.task.scope : Work!matchScope(s, f)
         /\ q.task.migration => Work!migrationPairsPresent(Checks(q).files)
         /\ q.task.contracts => Work!contractChangePresent(Checks(q).files)
         /\ \A c \in q.task.commands : Checks(q).exits[c] = "pass"
         /\ \A c \in Work!Commands(q.task) : Checks(q).exits[c] = "pass"
         /\ Work!ClaimsHold(q.task, Promoted(q), Checks(q).exits)
         /\ \A a \in Promoted(q).artifacts : Work!ReadArtifact(a)
         /\ Checks(q).exits = Work!RunAll(q.wt, Work!Commands(q.task), q.runs).exits
         /\ Checks(q).wt = Work!RunAll(q.wt, Work!Commands(q.task), q.runs).wt
<1> DEFINE result == Promoted(q)
           state == Work!Inspect(q.wt)
           ran == Work!RunAll(q.wt, Work!Commands(q.task), q.runs)
<1>1. result.files = q.result.files
  <2>1. result = q.result \/ \E checks : result = [q.result EXCEPT !.status = "completed", !.blockers = FALSE, !.checks = checks]
    BY DEF Promoted, Work!promoteVerifiableBlockedResult
  <2> HIDE DEF result
  <2>2. CASE result = q.result
    BY <2>2
  <2>3. ASSUME NEW checks, result = [q.result EXCEPT !.status = "completed", !.blockers = FALSE, !.checks = checks]
        PROVE  result.files = q.result.files
    BY <2>3 DEF WorkFits
  <2>. QED BY <2>1, <2>2, <2>3
<1> HIDE DEF result, ran
<1>2. state.ok
  BY DEF Checks, Work!Verify
<1>3. state.files = Work!Changed(q.wt)
  BY <1>2 DEF Work!Inspect, Work!Failed
<1> HIDE DEF state
<1> DEFINE ok == /\ result.status = "completed" /\ state.files # {}
                 /\ Work!sameFileSet(state.files, result.files) /\ Work!filesOutsideScope(state.files, q.task.scope) = {}
                 /\ q.task.migration => Work!migrationPairsPresent(state.files)
                 /\ q.task.contracts => Work!contractChangePresent(state.files)
                 /\ \A c \in Work!Commands(q.task) : ran.exits[c] = "pass"
                 /\ Work!ClaimsHold(q.task, result, ran.exits)
                 /\ \A a \in result.artifacts : Work!ReadArtifact(a)
<1>4. Checks(q) = [ok |-> ok, files |-> state.files, exits |-> ran.exits, wt |-> ran.wt]
  BY <1>2 DEF Checks, Work!Verify, result, state, ran
<1> HIDE DEF ok
<1>5. ok /\ Checks(q).files = state.files /\ Checks(q).exits = ran.exits /\ Checks(q).wt = ran.wt
  BY <1>4
<1>6. /\ state.files # {} /\ state.files = result.files /\ Work!filesOutsideScope(state.files, q.task.scope) = {}
      /\ q.task.migration => Work!migrationPairsPresent(state.files)
      /\ q.task.contracts => Work!contractChangePresent(state.files)
      /\ \A c \in Work!Commands(q.task) : ran.exits[c] = "pass"
      /\ Work!ClaimsHold(q.task, result, ran.exits)
      /\ \A a \in result.artifacts : Work!ReadArtifact(a)
  BY <1>5 DEF ok, Work!sameFileSet
<1>7. \A f \in state.files : \E s \in q.task.scope : Work!matchScope(s, f)
  BY <1>6 DEF Work!filesOutsideScope
<1>8. \A c \in q.task.commands : ran.exits[c] = "pass"
  BY <1>6 DEF Work!Commands
<1>. QED BY <1>1, <1>3, <1>5, <1>6, <1>7, <1>8 DEF result, ran

(* The commands may have written into the worktree.                        *)
WritesOf(commands, runs) == UNION {Work!RunCheck(c, runs[c]).writes : c \in commands}
WroteInto(ran, wt, writes) ==
  /\ ran = [head |-> wt.head, tree |-> ran.tree, planned |-> wt.planned,
            inside |-> wt.inside, ours |-> wt.ours, descends |-> wt.descends]
  /\ DOMAIN ran.tree = DOMAIN wt.head /\ ran.tree = [f \in DOMAIN ran.tree |-> ran.tree[f]]
  /\ \A f \in DOMAIN wt.head : ran.tree[f] = IF f \in writes THEN Work!Written ELSE wt.tree[f]
LEMMA RanIn ==
  ASSUME NEW q, WorkFits(q), NEW commands
  PROVE  WroteInto(Work!RunAll(q.wt, commands, q.runs).wt, q.wt, WritesOf(commands, q.runs))
<1>0. PICK ran, writes : ran = Work!RunAll(q.wt, commands, q.runs).wt /\ writes = WritesOf(commands, q.runs)
  OBVIOUS
<1> DEFINE exits == [c \in commands |-> Work!RunCheck(c, q.runs[c])]
           written == UNION {exits[c].writes : c \in commands}
           After(W) == [f \in DOMAIN q.wt.tree |-> IF f \in W THEN Work!Written ELSE q.wt.tree[f]]
<1>1. writes = written
  BY <1>0 DEF WritesOf
<1>2. ran = [q.wt EXCEPT !.tree = After(written)]
  BY <1>0 DEF Work!RunAll
<1>3. DOMAIN q.wt.tree = DOMAIN q.wt.head
  BY DEF WorkFits
<1> HIDE DEF After, written
<1>4. ran = [head |-> q.wt.head, tree |-> After(writes), planned |-> q.wt.planned, inside |-> q.wt.inside, ours |-> q.wt.ours, descends |-> q.wt.descends]
  BY <1>1, <1>2 DEF WorkFits
<1>5. After(writes) = [f \in DOMAIN q.wt.head |-> IF f \in writes THEN Work!Written ELSE q.wt.tree[f]]
  BY <1>3 DEF After
<1>6. ran.tree = After(writes)
  BY <1>4
<1>7. WroteInto(ran, q.wt, writes)
  BY <1>4, <1>5, <1>6 DEF WroteInto
<1>. QED BY <1>0, <1>7

(* A commit holds the verified files, and beside them what the branch had. *)
LEMMA CommitFacts ==
  ASSUME NEW wt, NEW verified, NEW source, Work!Commit(wt, verified, source).ok,
         wt.head = [f \in DOMAIN wt.head |-> wt.head[f]], wt.tree = [f \in DOMAIN wt.head |-> wt.tree[f]]
  PROVE  LET head == Work!Commit(wt, verified, source).head IN
         /\ Work!validateWorkspace(wt) /\ Work!Changed(wt) = verified /\ DOMAIN head = DOMAIN wt.head
         /\ verified \subseteq DOMAIN head /\ \A f \in verified : head[f] # 0
         /\ \A f \in DOMAIN head : head[f] # 0 => f \in verified \/ wt.head[f] # 0
         /\ head # wt.head => ~source.moved /\ ~source.dirty
<1> DEFINE state == Work!Inspect(wt)
           staged == Work!ToStage(wt, verified)
           commit == Work!Commit(wt, verified, source)
           new == [f \in DOMAIN wt.head |-> IF f \in staged THEN wt.tree[f] ELSE wt.head[f]]
           head == commit.head
<1> SUFFICES /\ Work!validateWorkspace(wt) /\ Work!Changed(wt) = verified /\ DOMAIN head = DOMAIN wt.head
             /\ verified \subseteq DOMAIN head /\ \A f \in verified : head[f] # 0
             /\ \A f \in DOMAIN head : head[f] # 0 => f \in verified \/ wt.head[f] # 0
             /\ head # wt.head => ~source.moved /\ ~source.dirty
  OBVIOUS
<1>1. state.ok /\ state.files = verified
  BY DEF Work!Commit, Work!Failed, Work!samePaths
<1>2. Work!validateWorkspace(wt) /\ Work!Changed(wt) = verified
  BY <1>1 DEF Work!Inspect, Work!Failed
<1>3. verified = {f \in DOMAIN wt.head : wt.tree[f] # 0}
  BY <1>2 DEF Work!Changed
<1>4. CASE Work!Dirty(wt) = {}
  <2>1. head = wt.head
    BY <1>1, <1>4 DEF Work!Commit, Work!Failed, Work!samePaths
  <2>2. \A f \in DOMAIN wt.head : wt.tree[f] = wt.head[f]
    BY <1>4 DEF Work!Dirty
  <2> HIDE DEF commit
  <2>. QED BY <1>2, <1>3, <2>1, <2>2
<1>5. CASE Work!Dirty(wt) # {}
  <2>1. staged = verified /\ ~source.moved /\ ~source.dirty /\ commit = [ok |-> TRUE, head |-> new]
    BY <1>1, <1>5 DEF Work!Commit, Work!Failed, Work!samePaths
  <2>2. head = new
    BY <2>1
  <2> HIDE DEF commit, staged
  <2>3. DOMAIN new = DOMAIN wt.head /\ \A f \in DOMAIN wt.head : new[f] = IF f \in verified THEN wt.tree[f] ELSE wt.head[f]
    BY <2>1
  <2> HIDE DEF new
  <2>. QED BY <1>2, <1>3, <2>1, <2>2, <2>3
<1>. QED BY <1>4, <1>5

(* Completed work is what the coder claimed, inside its write scope, with  *)
(* its commands passed, and in the commit (verifier.go, task_worktree.go). *)
THEOREM OutcomesAreEarned ==
  ASSUME NEW q, WorkFits(q)
  PROVE  Work!OutcomeIsEarned(q, Work!Deliver(q))
<1> SUFFICES ASSUME Work!Deliver(q).outcome = "completed"
             PROVE  LET files == Checks(q).files
                        head == CommitOf(q).head IN
                    /\ files = q.result.files /\ files \subseteq {f \in DOMAIN head : head[f] # 0}
                    /\ \A f \in {g \in DOMAIN head : head[g] # 0} : q.wt.head[f] # 0 \/ \E s \in q.task.scope : Work!matchScope(s, f)
                    /\ \A c \in q.task.commands : Checks(q).exits[c] = "pass"
                    /\ q.task.migration => Work!migrationPairsPresent(files)
                    /\ q.task.contracts => Work!contractChangePresent(files)
                    /\ head # q.wt.head => ~q.source.dirty /\ ~q.source.moved
  BY CompletedSteps DEF Work!OutcomeIsEarned, Work!Committed, Work!InWriteScope
<1>1. Checks(q).ok /\ CommitOf(q).ok
  BY CompletedSteps
<1>2. PICK w : w = Checks(q).wt
  OBVIOUS
<1>3. /\ w.head = q.wt.head /\ DOMAIN w.tree = DOMAIN w.head
      /\ w.head = [f \in DOMAIN w.head |-> w.head[f]] /\ w.tree = [f \in DOMAIN w.head |-> w.tree[f]]
  <2>1. w = Work!RunAll(q.wt, Work!Commands(q.task), q.runs).wt
    BY <1>1, <1>2, VerifiedFacts
  <2>2. WroteInto(w, q.wt, WritesOf(Work!Commands(q.task), q.runs))
    BY <2>1, RanIn
  <2>3. /\ w = [head |-> q.wt.head, tree |-> w.tree, planned |-> q.wt.planned,
                inside |-> q.wt.inside, ours |-> q.wt.ours, descends |-> q.wt.descends]
        /\ DOMAIN w.tree = DOMAIN q.wt.head /\ w.tree = [f \in DOMAIN w.tree |-> w.tree[f]]
    BY <2>2 DEF WroteInto
  <2>4. w.head = q.wt.head
    BY <2>3
  <2>. QED BY <2>3, <2>4 DEF WorkFits
<1>4. CommitOf(q) = Work!Commit(w, Checks(q).files, q.source)
  BY <1>2 DEF CommitOf
<1> DEFINE head == CommitOf(q).head
<1>5. /\ Checks(q).files \subseteq DOMAIN head /\ \A f \in Checks(q).files : head[f] # 0
      /\ \A f \in DOMAIN head : head[f] # 0 => f \in Checks(q).files \/ w.head[f] # 0
      /\ head # w.head => ~q.source.moved /\ ~q.source.dirty
  BY <1>1, <1>3, <1>4, CommitFacts
<1> HIDE DEF head
<1>. QED BY <1>1, <1>3, <1>5, VerifiedFacts DEF head

(* A repeated delivery finds what the lost one left, in its worktree or on *)
(* its branch, and ends with the same commit.                              *)
THEOREM RepeatsKeepTheCommit ==
  ASSUME NEW q, WorkFits(q)
  PROVE  Work!RepeatedCommitIsSame(q, Work!Deliver(q))
<1> DEFINE head == CommitOf(q).head
           commands == Work!Commands(q.task)
           writes == WritesOf(commands, q.runs)
           again == [head |-> head, tree |-> head, planned |-> TRUE, inside |-> TRUE, ours |-> TRUE, descends |-> TRUE]
           repeat == [q EXCEPT !.wt = again]
           answer == Work!Deliver(q)
<1> SUFFICES ASSUME answer.outcome = "completed", answer.verified.wt.tree = answer.head, NEW worktree \in {"own", "none"}
             PROVE  LET prepared == Work!Prepare(Work!Disk(worktree, answer, answer.head), q.task.commands) IN
                    /\ prepared.ok /\ prepared.wt = again
                    /\ Work!Deliver(repeat).outcome = "completed" /\ Work!Deliver(repeat).head = head
  <2>1. answer.outcome = "completed" => answer.head = head
    BY CompletedSteps
  <2> HIDE DEF answer
  <2>. QED BY <2>1 DEF Work!RepeatedCommitIsSame, answer
<1>1. /\ answer.verified = Checks(q) /\ answer.head = head /\ Promoted(q).status = "completed" /\ Checks(q).ok /\ CommitOf(q).ok
      /\ PolicyOf(q).ok /\ PolicyOf(q).lifecycle = "DONE" /\ Work!storeArtifacts(Promoted(q).artifacts)
  BY CompletedSteps
<1> HIDE DEF answer
<1>2. Work!Prepare(Work!Disk(worktree, answer, answer.head), q.task.commands).ok /\ Work!Prepare(Work!Disk(worktree, answer, answer.head), q.task.commands).wt = again
  <2> DEFINE d == Work!Disk(worktree, answer, answer.head)
             got == Work!AddWorktree(d)
             deps == Work!prepareNodeDependencies(d, q.task.commands)
  <2>1. /\ d.connected /\ d.atPlannedHead /\ ~d.sourceDirty /\ d.worktree = worktree /\ d.hasBranch /\ d.branch = head /\ d.files = head
        /\ d.ours /\ d.descends /\ d.lock = "regular" /\ d.installs
    BY <1>1 DEF Work!Disk
  <2> HIDE DEF d
  <2>2. got.branch = "own" /\ got.tree = head /\ got.head = head
    BY <2>1 DEF Work!AddWorktree
  <2>3. deps.ok
    BY <2>1 DEF Work!prepareNodeDependencies
  <2> HIDE DEF got, deps
  <2>4. Work!Prepare(d, q.task.commands) =
          [ok |-> TRUE, modules |-> deps.modules,
           wt |-> [head |-> got.head, tree |-> got.tree, planned |-> TRUE, inside |-> TRUE, ours |-> TRUE, descends |-> TRUE]]
    BY <2>1, <2>2, <2>3 DEF Work!Prepare, got, deps
  <2>5. Work!Prepare(d, q.task.commands).ok /\ Work!Prepare(d, q.task.commands).wt = again
    BY <2>2, <2>4
  <2>. QED BY <2>5 DEF d
<1>3. /\ repeat.task = q.task /\ repeat.wt = again /\ repeat.result = q.result /\ repeat.runs = q.runs
      /\ repeat.source = q.source /\ repeat.gate = q.gate
  <2> HIDE DEF again
  <2>. QED BY DEF WorkFits
<1> HIDE DEF repeat
<1>4. PICK w : w = Checks(q).wt
  OBVIOUS
<1>5. /\ w.head = q.wt.head /\ w.tree = head
      /\ head = [f \in DOMAIN head |-> head[f]] /\ DOMAIN head = DOMAIN q.wt.head
      /\ \A f \in DOMAIN head : f \in writes => head[f] = Work!Written
  <2>1. w = Work!RunAll(q.wt, commands, q.runs).wt
    BY <1>1, <1>4, VerifiedFacts
  <2>2. PICK W : W = writes
    OBVIOUS
  <2>3. /\ w = [head |-> q.wt.head, tree |-> w.tree, planned |-> q.wt.planned,
                inside |-> q.wt.inside, ours |-> q.wt.ours, descends |-> q.wt.descends]
        /\ DOMAIN w.tree = DOMAIN q.wt.head /\ w.tree = [f \in DOMAIN w.tree |-> w.tree[f]]
        /\ \A f \in DOMAIN q.wt.head : w.tree[f] = IF f \in W THEN Work!Written ELSE q.wt.tree[f]
    <3>1. WroteInto(w, q.wt, W)
      BY <2>1, <2>2, RanIn
    <3>. QED BY <3>1 DEF WroteInto
  <2>4. w.tree = head
    BY <1>1, <1>4
  <2>5. w.head = q.wt.head
    BY <2>3
  <2> HIDE DEF head, writes
  <2>. QED BY <2>2, <2>3, <2>4, <2>5
<1>6. Checks(q).files = {f \in DOMAIN head : head[f] # 0} /\ Checks(q).files # {}
  <2>1. Work!Changed(w) = Checks(q).files
    <3>1. w.head = [f \in DOMAIN w.head |-> w.head[f]] /\ w.tree = [f \in DOMAIN w.head |-> w.tree[f]]
      BY <1>5 DEF WorkFits
    <3>2. Work!Commit(w, Checks(q).files, q.source).ok
      BY <1>1, <1>4 DEF CommitOf
    <3>. QED BY <3>1, <3>2, CommitFacts
  <2>2. Checks(q).files # {}
    BY <1>1, VerifiedFacts
  <2>. QED BY <1>5, <2>1, <2>2 DEF Work!Changed
<1>7. WorkFits(repeat) /\ Promoted(repeat) = Promoted(q)
  <2> HIDE DEF head
  <2>1. repeat.wt = [head |-> repeat.wt.head, tree |-> repeat.wt.tree, planned |-> repeat.wt.planned,
                     inside |-> repeat.wt.inside, ours |-> repeat.wt.ours, descends |-> repeat.wt.descends]
        /\ repeat.wt.head = head /\ repeat.wt.tree = head
    BY <1>3
  <2>2. repeat = [task |-> repeat.task, wt |-> repeat.wt, result |-> repeat.result, runs |-> repeat.runs,
                  source |-> repeat.source, gate |-> repeat.gate]
    <3> HIDE DEF again
    <3>. QED BY DEF WorkFits, repeat
  <2>. QED BY <1>3, <1>5, <2>1, <2>2 DEF WorkFits, Promoted
<1>8. PICK r : r = repeat
  OBVIOUS
<1>9. /\ Checks(r).ok /\ Checks(r).files = Checks(q).files /\ Checks(r).wt = again
  <2> DEFINE result == Promoted(q)
             files == Checks(q).files
             exits == Checks(q).exits
             state == Work!Inspect(r.wt)
             ran == Work!RunAll(r.wt, commands, q.runs)
  <2>1. state.ok /\ state.files = files
    <3>1. Work!validateWorkspace(r.wt)
      BY <1>3, <1>8 DEF Work!validateWorkspace
    <3>2. Work!Changed(r.wt) = files
      BY <1>3, <1>6, <1>8 DEF Work!Changed
    <3>. QED BY <3>1, <3>2 DEF Work!Inspect
  <2>2. ran.exits = exits
    <3>1. exits = Work!RunAll(q.wt, commands, q.runs).exits
      BY <1>1, VerifiedFacts
    <3>2. \A a, b, c, d : Work!RunAll(a, c, d).exits = Work!RunAll(b, c, d).exits
      BY DEF Work!RunAll
    <3>. QED BY <3>1, <3>2
  <2>3. ran.wt = again
    <3>1. PICK W : W = writes
      OBVIOUS
    <3>2. PICK u : u = ran.wt
      OBVIOUS
    <3>3. u = Work!RunAll(r.wt, commands, r.runs).wt /\ W = WritesOf(commands, r.runs)
      BY <1>3, <1>8, <3>1, <3>2
    <3>4. /\ u = [head |-> r.wt.head, tree |-> u.tree, planned |-> r.wt.planned,
                  inside |-> r.wt.inside, ours |-> r.wt.ours, descends |-> r.wt.descends]
          /\ DOMAIN u.tree = DOMAIN r.wt.head /\ u.tree = [f \in DOMAIN u.tree |-> u.tree[f]]
          /\ \A f \in DOMAIN r.wt.head : u.tree[f] = IF f \in W THEN Work!Written ELSE r.wt.tree[f]
      <4>1. WroteInto(u, r.wt, W)
        <5>1. WorkFits(r)
          BY <1>7, <1>8
        <5> HIDE DEF commands
        <5>. QED BY <3>3, <5>1, RanIn
      <4>. QED BY <4>1 DEF WroteInto
    <3>5. r.wt.head = head /\ r.wt.tree = head /\ r.wt.planned = TRUE /\ r.wt.inside = TRUE /\ r.wt.ours = TRUE /\ r.wt.descends = TRUE
      BY <1>3, <1>8
    <3> HIDE DEF head, ran, writes
    <3>6. u.tree = head
      BY <1>5, <3>1, <3>4, <3>5
    <3>. QED BY <3>2, <3>4, <3>5, <3>6
  <2>4. /\ result.status = "completed" /\ files # {}
        /\ Work!sameFileSet(files, result.files) /\ Work!filesOutsideScope(files, q.task.scope) = {}
        /\ q.task.migration => Work!migrationPairsPresent(files)
        /\ q.task.contracts => Work!contractChangePresent(files)
        /\ \A c \in Work!Commands(q.task) : exits[c] = "pass"
        /\ Work!ClaimsHold(q.task, result, exits)
        /\ \A a \in result.artifacts : Work!ReadArtifact(a)
    BY <1>1, VerifiedFacts DEF Work!sameFileSet, Work!filesOutsideScope
  <2>5. Checks(r) = Work!Verify(q.task, r.wt, result, q.runs)
    BY <1>3, <1>7, <1>8 DEF Checks
  <2> HIDE DEF result, files, exits, state, ran, again
  <2>6. PICK ok : /\ Checks(r) = [ok |-> ok, files |-> state.files, exits |-> ran.exits, wt |-> ran.wt]
                  /\ ok = (/\ result.status = "completed" /\ state.files # {}
                           /\ Work!sameFileSet(state.files, result.files) /\ Work!filesOutsideScope(state.files, q.task.scope) = {}
                           /\ q.task.migration => Work!migrationPairsPresent(state.files)
                           /\ q.task.contracts => Work!contractChangePresent(state.files)
                           /\ \A c \in Work!Commands(q.task) : ran.exits[c] = "pass"
                           /\ Work!ClaimsHold(q.task, result, ran.exits)
                           /\ \A a \in result.artifacts : Work!ReadArtifact(a))
    BY <2>1, <2>5 DEF Work!Verify, state, ran
  <2>7. ok
    <3>1. state.files = files /\ ran.exits = exits
      BY <2>1, <2>2
    <3>2. /\ Work!sameFileSet(state.files, result.files) /\ Work!filesOutsideScope(state.files, q.task.scope) = {}
          /\ q.task.migration => Work!migrationPairsPresent(state.files)
          /\ q.task.contracts => Work!contractChangePresent(state.files)
          /\ state.files # {}
      BY <2>4, <3>1
    <3>3. Work!ClaimsHold(q.task, result, ran.exits) /\ \A c \in Work!Commands(q.task) : ran.exits[c] = "pass"
      BY <2>4, <3>1
    <3>4. result.status = "completed" /\ \A a \in result.artifacts : Work!ReadArtifact(a)
      BY <2>4
    <3>. QED BY <2>6, <3>2, <3>3, <3>4
  <2>8. Checks(r) = [ok |-> ok, files |-> state.files, exits |-> ran.exits, wt |-> ran.wt]
    BY <2>6
  <2>9. Checks(r).ok /\ Checks(r).files = files /\ Checks(r).wt = again
    BY <2>1, <2>3, <2>7, <2>8
  <2>. QED BY <2>9 DEF files
<1>10. CommitOf(r).ok /\ CommitOf(r).head = head
  <2>1. CommitOf(r) = Work!Commit(again, Checks(q).files, q.source)
    BY <1>3, <1>8, <1>9 DEF CommitOf
  <2>2. /\ Work!Inspect(again).ok /\ Work!Inspect(again).files = Checks(q).files
    BY <1>6 DEF Work!Inspect, Work!validateWorkspace, Work!Changed
  <2>3. Work!Dirty(again) = {} /\ ~Work!AtBase(again) /\ again.head = head
    BY <1>6 DEF Work!Dirty, Work!AtBase
  <2> HIDE DEF again, head
  <2>4. Work!Commit(again, Checks(q).files, q.source) = [ok |-> TRUE, head |-> again.head]
    BY <1>6, <2>2, <2>3 DEF Work!Commit, Work!samePaths
  <2>. QED BY <2>1, <2>3, <2>4
<1>11. PolicyOf(r) = PolicyOf(q)
  BY <1>3, <1>8, <1>10 DEF PolicyOf
<1>12. Work!Deliver(r).outcome = "completed" /\ Work!Deliver(r).head = head
  <2>1. Promoted(r).status = "completed" /\ Work!storeArtifacts(Promoted(r).artifacts)
    BY <1>1, <1>7, <1>8
  <2>2. PolicyOf(r).ok /\ PolicyOf(r).lifecycle = "DONE"
    BY <1>1, <1>11
  <2> HIDE DEF head
  <2>. QED BY <1>9, <1>10, <2>1, <2>2 DEF Work!Deliver, Work!Decide, Promoted, Checks, CommitOf, PolicyOf
<1>. QED BY <1>2, <1>8, <1>12

(* Everything a delivery promises: completed work was verified, is in the  *)
(* commit, was called done by the pinned runner, and a repetition commits  *)
(* nothing new (TaskWorktree.Prepare and Commit, Verify, VerifyTask).      *)
LEMMA DeliveriesAreSound ==
  ASSUME NEW q, WorkFits(q)
  PROVE  Work!DeliveryIsSound(q)
BY OutcomesAreEarned, DoneIsAlwaysProven, RepeatsKeepTheCommit DEF Work!DeliveryIsSound

-----------------------------------------------------------------------------

(* Induction over a set of numbers.                                        *)
LEMMA NumbersFrom ==
  ASSUME NEW S, 0 \in S, \A n \in Nat : n \in S => n + 1 \in S
  PROVE  Nat \subseteq S
<1> DEFINE T == {n \in Nat : n \notin S}
<1>1. SUFFICES ASSUME T # {} PROVE FALSE
  OBVIOUS
<1>2. T \in SUBSET Nat
  OBVIOUS
<1>3. PICK n \in T : \A m \in T : ~ (<<m, n>> \in OpToRel(<, Nat))
  BY <1>1, <1>2, WFMin, NatLessThanWellFounded, Zenon
<1>4. \A m \in T : ~ (m < n)
  BY <1>3 DEF OpToRel
<1>5. n \in Nat /\ n \notin S /\ n # 0
  OBVIOUS
<1>6. n - 1 \in Nat /\ n - 1 < n /\ (n - 1) + 1 = n
  BY <1>5
<1>7. n - 1 \in S
  BY <1>4, <1>6
<1>. QED BY <1>5, <1>6, <1>7

(* The boundaries of a plan one after the other.                           *)
Begun(start) == [ok |-> TRUE, tree |-> start, refs |-> {}, files |-> {}]
IsWalk(done, profile, start, boundaries) ==
  /\ DOMAIN done = 0..Len(boundaries)
  /\ done[0] = Begun(start)
  /\ \A n \in 1..Len(boundaries) : done[n] = MaterializeNext(profile, done[n - 1], boundaries[n])

Ended(profile, last) == [last EXCEPT !.ok = last.ok /\ ValidateFiles(profile, last.tree, last.files, last.refs)]
Laid(profile, tree2, b) == IF b.existing THEN tree2 ELSE [tree2 EXCEPT ![FileOf(profile, b)] = renderSkeleton(profile, b)]

LEMMA MaterializeWalks ==
  ASSUME NEW profile, NEW start, NEW boundaries, Len(boundaries) \in Nat,
         NEW out, out = Materialize(profile, start, boundaries)
  PROVE  \E done : /\ IsWalk(done, profile, start, boundaries)
                   /\ out = Ended(profile, done[Len(boundaries)])
<1> DEFINE Value(f, n) == IF n = 0 THEN Begun(start) ELSE MaterializeNext(profile, f[n - 1], boundaries[n])
           S == {n \in Nat : \E f : f = [m \in 0..n |-> Value(f, m)]}
<1>1. 0 \in S
  <2> DEFINE f == [m \in 0..0 |-> Begun(start)]
  <2>1. f = [m \in 0..0 |-> Value(f, m)]
    OBVIOUS
  <2>. QED BY <2>1
<1>2. ASSUME NEW n \in Nat, n \in S PROVE n + 1 \in S
  <2>1. PICK f : f = [m \in 0..n |-> Value(f, m)]
    BY <1>2
  <2> DEFINE g == [m \in 0..(n + 1) |-> IF m = n + 1 THEN MaterializeNext(profile, f[n], boundaries[n + 1]) ELSE f[m]]
  <2>2. ASSUME NEW m \in 0..(n + 1) PROVE g[m] = Value(g, m)
    <3>1. CASE m = n + 1
      <4>1. g[n] = f[n] /\ m - 1 = n /\ m # 0
        BY <3>1
      <4>. QED BY <3>1, <4>1
    <3>2. CASE m = 0
      BY <2>1, <3>2
    <3>3. CASE m \in 1..n
      <4>1. g[m] = f[m] /\ g[m - 1] = f[m - 1] /\ m # 0
        BY <3>3
      <4>2. f[m] = Value(f, m)
        <5>1. m \in 0..n
          BY <3>3
        <5> HIDE DEF Value
        <5>. QED BY <2>1, <5>1
      <4>. QED BY <4>1, <4>2
    <3>. QED BY <3>1, <3>2, <3>3
  <2>3. g = [m \in 0..(n + 1) |-> Value(g, m)]
    <3>1. g = [m \in 0..(n + 1) |-> g[m]]
      OBVIOUS
    <3> HIDE DEF g, Value
    <3>. QED BY <2>2, <3>1
  <2>4. n + 1 \in Nat
    OBVIOUS
  <2> HIDE DEF g, Value
  <2>. QED BY <2>3, <2>4
<1>3. Len(boundaries) \in S
  <2> HIDE DEF S
  <2>. QED BY <1>1, <1>2, NumbersFrom
<1> DEFINE done == CHOOSE f : f = [m \in 0..Len(boundaries) |-> Value(f, m)]
<1>4. done = [m \in 0..Len(boundaries) |-> Value(done, m)]
  BY <1>3
<1>5. out = Ended(profile, done[Len(boundaries)])
  BY DEF Materialize, Begun, Ended
<1> HIDE DEF done
<1>6. IsWalk(done, profile, start, boundaries)
  <2>1. DOMAIN done = 0..Len(boundaries)
    BY <1>4
  <2>2. \A m \in 0..Len(boundaries) : done[m] = Value(done, m)
    <3> HIDE DEF Value
    <3>. QED BY <1>4
  <2>3. done[0] = Begun(start)
    BY <2>2
  <2>4. \A n \in 1..Len(boundaries) : done[n] = MaterializeNext(profile, done[n - 1], boundaries[n])
    BY <2>2
  <2>. QED BY <2>1, <2>3, <2>4 DEF IsWalk
<1>. QED BY <1>5, <1>6

IsOut(o) == o = [ok |-> o.ok, tree |-> o.tree, refs |-> o.refs, files |-> o.files] /\ o.ok \in BOOLEAN
FileIn(profile, left, b) == [path |-> FileOf(profile, b), hash |-> left[FileOf(profile, b)], generated |-> ~b.existing]

IsNext(profile, out, b, next) ==
  /\ IsOut(next)
  /\ next.ok <=> out.ok /\ Ready(profile, out.tree, b)
  /\ ~next.ok => next.tree = out.tree /\ next.refs = out.refs /\ next.files = out.files
  /\ next.ok => /\ next.tree = Laid(profile, out.tree, b)
                /\ next.refs = out.refs \cup {Reference(profile, b)}
                /\ next.files = out.files \cup {FileIn(profile, next.tree, b)}

LEMMA NextIs ==
  ASSUME NEW profile, NEW out, IsOut(out), NEW b, NEW next, next = MaterializeNext(profile, out, b)
  PROVE  IsNext(profile, out, b, next)
<1>1. CASE ~out.ok \/ ~Ready(profile, out.tree, b)
  <2>1. next = [out EXCEPT !.ok = FALSE]
    BY <1>1 DEF MaterializeNext
  <2>2. next = [ok |-> FALSE, tree |-> out.tree, refs |-> out.refs, files |-> out.files]
    BY <2>1 DEF IsOut
  <2>3. next.ok = FALSE /\ next.tree = out.tree /\ next.refs = out.refs /\ next.files = out.files
    BY <2>2
  <2>. QED BY <1>1, <2>2, <2>3 DEF IsOut, IsNext
<1>2. CASE out.ok /\ Ready(profile, out.tree, b)
  <2>1. PICK tree2 : tree2 = Laid(profile, out.tree, b)
    OBVIOUS
  <2>2. next = [ok |-> TRUE, tree |-> tree2, refs |-> out.refs \cup {Reference(profile, b)}, files |-> out.files \cup {FileIn(profile, tree2, b)}]
    BY <1>2, <2>1 DEF MaterializeNext, FileIn, Laid
  <2>3. /\ next.ok = TRUE /\ next.tree = tree2 /\ next.refs = out.refs \cup {Reference(profile, b)}
        /\ next.files = out.files \cup {FileIn(profile, tree2, b)}
    BY <2>2
  <2>. QED BY <1>2, <2>1, <2>2, <2>3 DEF IsOut, IsNext
<1>. QED BY <1>1, <1>2

(* What a boundary needs of a tree is in the file of that boundary, and a  *)
(* placeholder is written over nothing else.                               *)
LEMMA ReadyLooksAtItsFile ==
  ASSUME NEW profile, NEW b, NEW s, NEW t
  PROVE  /\ s[FileOf(profile, b)] = t[FileOf(profile, b)] /\ Ready(profile, s, b) => Ready(profile, t, b)
         /\ ~b.existing /\ t[FileOf(profile, b)] = renderSkeleton(profile, b) /\ Ready(profile, s, b) => Ready(profile, t, b)
         /\ b.existing /\ Ready(profile, s, b) => s[FileOf(profile, b)] # Absent
         /\ ~b.existing /\ Ready(profile, s, b) =>
              /\ s[FileOf(profile, b)] \in {Absent, renderSkeleton(profile, b)}
              /\ profile.language = "go" => profile.surface[b.owner] # {}
         /\ renderSkeleton(profile, b) # Absent
<1>1. renderSkeleton(profile, b) # Absent
  <2>1. renderSkeleton(profile, b).kind = "file" /\ Absent.kind = "absent"
    BY DEF renderSkeleton, Absent
  <2>. QED BY <2>1
<1>2. PICK path : path = FileOf(profile, b)
  OBVIOUS
<1>3. PICK skeleton : skeleton = renderSkeleton(profile, b)
  OBVIOUS
<1>4. \A x : Ready(profile, x, b) <=>
        /\ b.local /\ b.target \in {"", path}
        /\ IF b.existing
             THEN /\ b.shown.local /\ b.shown.kind \in {"source", "contract"} /\ x[path] # Absent /\ x[path].regular
                  /\ profile.language = "go" => ContractPathOwnedByRoute(profile, b.owner, path)
                  /\ validateExistingArtifact(profile, b.owner, x[path], SymbolOf(b))
             ELSE /\ profile.language = "go" => profile.surface[b.owner] # {} /\ isBehaviorFreeGoSkeleton(skeleton)
                  /\ validateFileByProfile(profile, b.owner, skeleton.package, skeleton, TRUE)
                  /\ x[path] \in {Absent, skeleton}
  BY <1>2, <1>3 DEF Ready, readContainedFile, Writable
<1>. QED BY <1>1, <1>2, <1>3, <1>4

(* A plan is a list of boundaries whose files are paths of the tree.       *)
IsFunction(t) == t = [p \in DOMAIN t |-> t[p]]
IsPlanOf(profile, start, boundaries) ==
  /\ Len(boundaries) \in Nat /\ DOMAIN boundaries = 1..Len(boundaries)
  /\ IsFunction(start)
  /\ \A i \in DOMAIN boundaries : FileOf(profile, boundaries[i]) \in DOMAIN start

(* After n boundaries: what stands stays, a refusal ends the writing, and  *)
(* what was taken is in the lists and was ready when its turn came.        *)
Walked(done, profile, start, boundaries, n) ==
  /\ IsOut(done[n]) /\ IsFunction(done[n].tree) /\ DOMAIN done[n].tree = DOMAIN start
  /\ \A i \in 0..n :
       /\ \A p \in DOMAIN start : done[i].tree[p] = Absent \/ done[n].tree[p] = done[i].tree[p]
       /\ done[n].ok => done[i].ok
       /\ ~done[i].ok => done[n].tree = done[i].tree
  /\ \A p \in DOMAIN start : done[n].tree[p] # start[p] =>
       \E i \in DOMAIN boundaries : /\ p = FileOf(profile, boundaries[i]) /\ ~boundaries[i].existing
                                    /\ profile.language = "go" => profile.surface[boundaries[i].owner] # {}
  /\ done[n].ok => /\ done[n].refs = {Reference(profile, boundaries[i]) : i \in 1..n}
                   /\ \A i \in 1..n : /\ Ready(profile, done[i - 1].tree, boundaries[i])
                                      /\ \E f \in done[n].files : f.path = FileOf(profile, boundaries[i])

LEMMA WalkStep ==
  ASSUME NEW profile, NEW start, NEW boundaries, IsPlanOf(profile, start, boundaries),
         NEW done, IsWalk(done, profile, start, boundaries),
         NEW n \in Nat, n + 1 <= Len(boundaries), Walked(done, profile, start, boundaries, n)
  PROVE  Walked(done, profile, start, boundaries, n + 1)
<1> DEFINE b == boundaries[n + 1]
           out == done[n]
           next == done[n + 1]
           file == FileOf(profile, b)
<1>1. next = MaterializeNext(profile, out, b) /\ IsOut(out) /\ file \in DOMAIN start /\ n + 1 \in DOMAIN boundaries
  BY DEF IsWalk, Walked, IsPlanOf
<1>2. /\ IsFunction(out.tree) /\ DOMAIN out.tree = DOMAIN start
      /\ \A i \in 0..n :
           /\ \A p \in DOMAIN start : done[i].tree[p] = Absent \/ out.tree[p] = done[i].tree[p]
           /\ out.ok => done[i].ok
           /\ ~done[i].ok => out.tree = done[i].tree
  BY DEF Walked
<1>3. /\ IsOut(next)
      /\ next.ok <=> out.ok /\ Ready(profile, out.tree, b)
      /\ ~next.ok => next.tree = out.tree
      /\ next.ok => /\ next.tree = Laid(profile, out.tree, b)
                    /\ next.refs = out.refs \cup {Reference(profile, b)}
                    /\ next.files = out.files \cup {FileIn(profile, next.tree, b)}
  <2>1. IsNext(profile, out, b, next)
    BY <1>1, NextIs
  <2>. QED BY <2>1 DEF IsNext
<1>4. \A i \in 0..(n + 1) : i = n + 1 \/ i \in 0..n
  OBVIOUS
<1>5. \A p \in DOMAIN start : out.tree[p] = Absent \/ next.tree[p] = out.tree[p]
  <2>1. CASE next.ok /\ ~b.existing
    <3>1. out.tree[file] \in {Absent, renderSkeleton(profile, b)}
      BY <1>3, <2>1, ReadyLooksAtItsFile
    <3>2. \A p \in DOMAIN start : next.tree[p] = IF p = file THEN renderSkeleton(profile, b) ELSE out.tree[p]
      BY <1>2, <1>3, <2>1 DEF Laid
    <3>. QED BY <3>1, <3>2
  <2>2. CASE ~(next.ok /\ ~b.existing)
    BY <1>3, <2>2 DEF Laid
  <2>. QED BY <2>1, <2>2
<1>6. IsFunction(next.tree) /\ DOMAIN next.tree = DOMAIN start
  <2>1. next.tree = out.tree \/ next.tree = [out.tree EXCEPT ![file] = renderSkeleton(profile, b)]
    BY <1>3 DEF Laid
  <2>2. CASE next.tree = [out.tree EXCEPT ![file] = renderSkeleton(profile, b)]
    BY <1>2, <2>2 DEF IsFunction
  <2>. QED BY <1>2, <2>1, <2>2
<1>7. \A p \in DOMAIN start : next.tree[p] # start[p] =>
        \E i \in DOMAIN boundaries : /\ p = FileOf(profile, boundaries[i]) /\ ~boundaries[i].existing
                                     /\ profile.language = "go" => profile.surface[boundaries[i].owner] # {}
  <2>1. ASSUME NEW p \in DOMAIN start, next.tree[p] # start[p]
        PROVE  \E i \in DOMAIN boundaries : /\ p = FileOf(profile, boundaries[i]) /\ ~boundaries[i].existing
                                            /\ profile.language = "go" => profile.surface[boundaries[i].owner] # {}
    <3>1. CASE out.tree[p] # start[p]
      BY <3>1 DEF Walked
    <3>2. CASE out.tree[p] = start[p]
      <4>1. next.ok /\ ~b.existing
        BY <1>3, <2>1, <3>2 DEF Laid
      <4>2. next.tree[p] = IF p = file THEN renderSkeleton(profile, b) ELSE out.tree[p]
        BY <1>2, <1>3, <4>1 DEF Laid
      <4>3. p = file
        BY <2>1, <3>2, <4>2
      <4>4. profile.language = "go" => profile.surface[b.owner] # {}
        BY <1>3, <4>1, ReadyLooksAtItsFile
      <4>. QED BY <1>1, <4>1, <4>3, <4>4
    <3>. QED BY <3>1, <3>2
  <2>. QED BY <2>1
<1>8. ASSUME next.ok
      PROVE  /\ next.refs = {Reference(profile, boundaries[i]) : i \in 1..(n + 1)}
             /\ \A i \in 1..(n + 1) : /\ Ready(profile, done[i - 1].tree, boundaries[i])
                                      /\ \E f \in next.files : f.path = FileOf(profile, boundaries[i])
  <2>1. /\ out.refs = {Reference(profile, boundaries[i]) : i \in 1..n}
        /\ \A i \in 1..n : /\ Ready(profile, done[i - 1].tree, boundaries[i])
                           /\ \E f \in out.files : f.path = FileOf(profile, boundaries[i])
    BY <1>3, <1>8 DEF Walked
  <2>2. \A i \in 1..(n + 1) : i = n + 1 \/ i \in 1..n
    OBVIOUS
  <2>3. next.refs = {Reference(profile, boundaries[i]) : i \in 1..(n + 1)}
    <3>1. next.refs = out.refs \cup {Reference(profile, boundaries[n + 1])}
      BY <1>3, <1>8
    <3>2. n + 1 \in 1..(n + 1) /\ \A i \in 1..n : i \in 1..(n + 1)
      OBVIOUS
    <3>. QED BY <2>1, <2>2, <3>1, <3>2
  <2>4. Ready(profile, done[(n + 1) - 1].tree, boundaries[n + 1])
    <3>1. (n + 1) - 1 = n
      OBVIOUS
    <3>. QED BY <1>3, <1>8, <3>1
  <2>5. \E f \in next.files : f.path = FileOf(profile, boundaries[n + 1])
    <3>1. FileIn(profile, next.tree, b) \in next.files
      BY <1>3, <1>8
    <3>2. FileIn(profile, next.tree, b).path = FileOf(profile, b)
      BY DEF FileIn
    <3>. QED BY <3>1, <3>2
  <2>6. \A f \in out.files : f \in next.files
    BY <1>3, <1>8
  <2> HIDE DEF out, next, b
  <2>. QED BY <2>1, <2>2, <2>3, <2>4, <2>5, <2>6
<1>9. ASSUME NEW i \in 0..(n + 1)
      PROVE  /\ \A p \in DOMAIN start : done[i].tree[p] = Absent \/ next.tree[p] = done[i].tree[p]
             /\ next.ok => done[i].ok
             /\ ~done[i].ok => next.tree = done[i].tree
  <2>1. CASE i = n + 1
    BY <2>1
  <2>2. CASE i \in 0..n
    <3>1. next.ok => out.ok
      BY <1>3
    <3>2. ~out.ok => next.tree = out.tree
      BY <1>3
    <3> HIDE DEF out, next, b
    <3>3. \A p \in DOMAIN start : done[i].tree[p] = Absent \/ next.tree[p] = done[i].tree[p]
      BY <1>2, <1>5, <2>2
    <3>4. ~done[i].ok => ~out.ok
      BY <1>2, <2>2
    <3>. QED BY <1>2, <2>2, <3>1, <3>2, <3>3, <3>4
  <2>. QED BY <1>4, <2>1, <2>2
<1>. QED BY <1>3, <1>6, <1>7, <1>8, <1>9 DEF Walked

LEMMA WalkKeeps ==
  ASSUME NEW profile, NEW start, NEW boundaries, IsPlanOf(profile, start, boundaries),
         NEW done, IsWalk(done, profile, start, boundaries)
  PROVE  \A n \in 0..Len(boundaries) : Walked(done, profile, start, boundaries, n)
<1> DEFINE S == {n \in Nat : n <= Len(boundaries) => Walked(done, profile, start, boundaries, n)}
<1>1. Len(boundaries) \in Nat
  BY DEF IsPlanOf
<1>2. 0 \in S
  <2>1. done[0] = [ok |-> TRUE, tree |-> start, refs |-> {}, files |-> {}]
    BY DEF IsWalk, Begun
  <2>2. done[0].ok = TRUE /\ done[0].tree = start /\ done[0].refs = {} /\ IsOut(done[0])
    BY <2>1 DEF IsOut
  <2>3. IsFunction(start)
    BY DEF IsPlanOf
  <2>. QED BY <2>2, <2>3 DEF Walked
<1>3. ASSUME NEW n \in Nat, n \in S PROVE n + 1 \in S
  BY <1>1, <1>3, WalkStep
<1>4. Nat \subseteq S
  <2> HIDE DEF S
  <2>. QED BY <1>2, <1>3, NumbersFrom
<1>. QED BY <1>1, <1>4

(* What is materialized is what the plan announced (Materialize against    *)
(* PlannedContractReferences).                                             *)
THEOREM PlansAreAlwaysMaterialized ==
  ASSUME NEW q, IsPlanOf(q.profile, q.base, q.boundaries)
  PROVE  PlansAreMaterialized(q)
<1> DEFINE out == Materialize(q.profile, q.base, q.boundaries)
           planned == PlannedContractReferences(q.profile, q.boundaries)
           N == Len(q.boundaries)
<1>1. SUFFICES ASSUME out.ok PROVE planned.ok /\ planned.refs = out.refs
  BY DEF PlansAreMaterialized
<1>2. N \in Nat /\ DOMAIN q.boundaries = 1..N
  BY DEF IsPlanOf
<1>3. PICK done : /\ IsWalk(done, q.profile, q.base, q.boundaries)
                  /\ out = Ended(q.profile, done[N])
  BY <1>2, MaterializeWalks
<1>4. Walked(done, q.profile, q.base, q.boundaries, N)
  BY <1>2, <1>3, WalkKeeps
<1>5. PICK last : last = done[N]
  OBVIOUS
<1>6. out = [ok |-> last.ok /\ ValidateFiles(q.profile, last.tree, last.files, last.refs), tree |-> last.tree, refs |-> last.refs, files |-> last.files]
  BY <1>3, <1>4, <1>5 DEF Walked, IsOut, Ended
<1>7. last.ok /\ ValidateFiles(q.profile, last.tree, last.files, last.refs) /\ out.refs = last.refs
  <2> HIDE DEF out
  <2>. QED BY <1>1, <1>6
<1>8. /\ last.refs = {Reference(q.profile, q.boundaries[i]) : i \in 1..N}
      /\ \A i \in 1..N : /\ Ready(q.profile, done[i - 1].tree, q.boundaries[i])
                         /\ \E f \in last.files : f.path = FileOf(q.profile, q.boundaries[i])
  BY <1>4, <1>5, <1>7 DEF Walked
<1>9. ASSUME NEW i \in 1..N PROVE Announced(q.profile, q.boundaries[i])
  <2>1. PICK b : b = q.boundaries[i]
    OBVIOUS
  <2>2. Ready(q.profile, done[i - 1].tree, b)
    BY <1>8, <2>1
  <2>3. CASE ~b.existing
    BY <2>1, <2>2, <2>3 DEF Ready, Announced
  <2>4. CASE b.existing
    <3>1. PICK f \in last.files : f.path = FileOf(q.profile, b)
      BY <1>8, <2>1
    <3>2. Reference(q.profile, b) \in RefsFor(last.refs, f.path) /\ Reference(q.profile, b).route = b.owner
      <4>1. Reference(q.profile, b) \in last.refs
        BY <1>8, <2>1
      <4>2. Reference(q.profile, b).path = FileOf(q.profile, b) /\ Reference(q.profile, b).route = b.owner
        BY DEF Reference
      <4>. QED BY <3>1, <4>1, <4>2 DEF RefsFor
    <3>3. ContractPathOwnedByRoute(q.profile, b.owner, f.path)
      <4>1. \A r \in RefsFor(last.refs, f.path) : ContractPathOwnedByRoute(q.profile, r.route, f.path)
        BY <1>7 DEF ValidateFiles
      <4>. QED BY <3>2, <4>1
    <3>4. FileOf(q.profile, b) = b.shown.path
      BY <2>4 DEF FileOf
    <3>. QED BY <2>1, <2>2, <2>4, <3>1, <3>3, <3>4 DEF Ready, Announced
  <2>. QED BY <2>3, <2>4
<1>10. planned = [ok |-> TRUE, refs |-> {Reference(q.profile, q.boundaries[i]) : i \in DOMAIN q.boundaries}]
  BY <1>2, <1>9 DEF PlannedContractReferences
<1> HIDE DEF out, planned
<1>. QED BY <1>2, <1>7, <1>8, <1>10

(* A second materialization walks the same way over what the first left.   *)
LEMMA SecondWalk ==
  ASSUME NEW profile, NEW start, NEW boundaries, IsPlanOf(profile, start, boundaries),
         NEW done, IsWalk(done, profile, start, boundaries),
         NEW left, left = done[Len(boundaries)].tree,
         NEW again, IsWalk(again, profile, left, boundaries)
  PROVE  \A n \in 0..Len(boundaries) :
           /\ again[n].tree = left /\ (again[n].ok <=> done[n].ok) /\ IsOut(again[n])
           /\ done[n].ok => again[n].refs = done[n].refs /\ again[n].files = done[n].files
<1> DEFINE Same(n) == /\ again[n].tree = left /\ (again[n].ok <=> done[n].ok) /\ IsOut(again[n])
                      /\ done[n].ok => again[n].refs = done[n].refs /\ again[n].files = done[n].files
           N == Len(boundaries)
           S == {n \in Nat : n <= N => Same(n)}
<1>1. N \in Nat /\ \A n \in 0..N : Walked(done, profile, start, boundaries, n)
  BY WalkKeeps DEF IsPlanOf
<1>2. \A n \in 0..N : /\ IsOut(done[n]) /\ DOMAIN done[n].tree = DOMAIN start
                      /\ \A p \in DOMAIN start : done[n].tree[p] = Absent \/ left[p] = done[n].tree[p]
                      /\ ~done[n].ok => left = done[n].tree
  <2>1. ASSUME NEW n \in 0..N
        PROVE  /\ IsOut(done[n]) /\ DOMAIN done[n].tree = DOMAIN start
               /\ \A p \in DOMAIN start : done[n].tree[p] = Absent \/ left[p] = done[n].tree[p]
               /\ ~done[n].ok => left = done[n].tree
    <3>1. Walked(done, profile, start, boundaries, n) /\ Walked(done, profile, start, boundaries, N)
      BY <1>1
    <3>. QED BY <3>1, <1>1 DEF Walked
  <2>. QED BY <2>1
<1>3. 0 \in S
  <2>1. done[0] = [ok |-> TRUE, tree |-> start, refs |-> {}, files |-> {}] /\ again[0] = [ok |-> TRUE, tree |-> left, refs |-> {}, files |-> {}]
    BY DEF IsWalk, Begun
  <2>2. /\ done[0].ok = TRUE /\ done[0].refs = {} /\ done[0].files = {}
        /\ again[0].ok = TRUE /\ again[0].tree = left /\ again[0].refs = {} /\ again[0].files = {} /\ IsOut(again[0])
    BY <2>1 DEF IsOut
  <2>3. Same(0)
    BY <2>2
  <2> HIDE DEF Same
  <2>. QED BY <2>3
<1>4. ASSUME NEW n \in Nat, n \in S PROVE n + 1 \in S
  <2>1. SUFFICES ASSUME n + 1 <= N PROVE Same(n + 1)
    BY <1>4
  <2>2. Same(n)
    BY <1>1, <1>4, <2>1
  <2>3. PICK b : b = boundaries[n + 1]
    OBVIOUS
  <2>4. n \in 0..N /\ n + 1 \in 1..N /\ n + 1 \in 0..N /\ (n + 1) - 1 = n
    BY <1>1, <2>1
  <2>5. FileOf(profile, b) \in DOMAIN start
    BY <2>3, <2>4 DEF IsPlanOf
  <2>6. PICK o, a, x, y : o = done[n] /\ a = again[n] /\ x = done[n + 1] /\ y = again[n + 1]
    OBVIOUS
  <2>7. /\ x = MaterializeNext(profile, o, b) /\ y = MaterializeNext(profile, a, b)
        /\ IsOut(o) /\ IsOut(a) /\ IsOut(x)
    BY <1>2, <2>2, <2>3, <2>4, <2>6 DEF IsWalk
  <2>8. a.tree = left /\ (a.ok <=> o.ok) /\ (o.ok => a.refs = o.refs /\ a.files = o.files)
    BY <2>2, <2>6
  <2>9. /\ DOMAIN x.tree = DOMAIN start /\ DOMAIN o.tree = DOMAIN start
        /\ \A p \in DOMAIN start : o.tree[p] = Absent \/ left[p] = o.tree[p]
        /\ \A p \in DOMAIN start : x.tree[p] = Absent \/ left[p] = x.tree[p]
        /\ ~x.ok => left = x.tree
    BY <1>2, <2>4, <2>6
  <2>10. IsFunction(left) /\ DOMAIN left = DOMAIN start
    BY <1>1 DEF Walked
  <2> HIDE DEF Same, S, N
  <2>11. /\ x.ok <=> o.ok /\ Ready(profile, o.tree, b)
         /\ ~x.ok => x.tree = o.tree
         /\ x.ok => /\ x.tree = Laid(profile, o.tree, b)
                    /\ x.refs = o.refs \cup {Reference(profile, b)}
                    /\ x.files = o.files \cup {FileIn(profile, x.tree, b)}
    <3>1. IsNext(profile, o, b, x)
      BY <2>7, NextIs
    <3>. QED BY <3>1 DEF IsNext
  <2>12. /\ IsOut(y)
         /\ y.ok <=> a.ok /\ Ready(profile, left, b)
         /\ ~y.ok => y.tree = left
         /\ y.ok => /\ y.tree = Laid(profile, left, b)
                    /\ y.refs = a.refs \cup {Reference(profile, b)}
                    /\ y.files = a.files \cup {FileIn(profile, y.tree, b)}
    <3>1. IsNext(profile, a, b, y)
      BY <2>7, NextIs
    <3>. QED BY <2>8, <3>1 DEF IsNext
  <2>13. x.ok => /\ Ready(profile, left, b) /\ left[FileOf(profile, b)] = x.tree[FileOf(profile, b)]
                 /\ ~b.existing => left[FileOf(profile, b)] = renderSkeleton(profile, b)
    <3>1. SUFFICES ASSUME x.ok PROVE /\ Ready(profile, left, b) /\ left[FileOf(profile, b)] = x.tree[FileOf(profile, b)]
                                     /\ ~b.existing => left[FileOf(profile, b)] = renderSkeleton(profile, b)
      OBVIOUS
    <3>2. CASE b.existing
      <4>1. o.tree[FileOf(profile, b)] # Absent /\ x.tree = o.tree
        BY <2>11, <3>1, <3>2, ReadyLooksAtItsFile DEF Laid
      <4>2. left[FileOf(profile, b)] = o.tree[FileOf(profile, b)]
        BY <2>5, <2>9, <4>1
      <4>. QED BY <2>11, <3>1, <3>2, <4>1, <4>2, ReadyLooksAtItsFile
    <3>3. CASE ~b.existing
      <4>1. x.tree[FileOf(profile, b)] = renderSkeleton(profile, b)
        BY <2>5, <2>9, <2>11, <3>1, <3>3 DEF Laid
      <4>2. left[FileOf(profile, b)] = renderSkeleton(profile, b)
        <5>1. PICK p : p = FileOf(profile, b)
          OBVIOUS
        <5>2. p \in DOMAIN start
          BY <2>5, <5>1
        <5>3. x.tree[p] # Absent
          BY <4>1, <5>1, ReadyLooksAtItsFile
        <5>4. x.tree[p] = Absent \/ left[p] = x.tree[p]
          BY <2>9, <5>2
        <5>. QED BY <4>1, <5>1, <5>3, <5>4
      <4>. QED BY <2>11, <3>1, <3>3, <4>1, <4>2, ReadyLooksAtItsFile
    <3>. QED BY <3>2, <3>3
  <2>14. o.ok /\ ~x.ok => ~Ready(profile, left, b)
    BY <2>9, <2>11
  <2>15. y.ok <=> x.ok
    BY <2>8, <2>11, <2>12, <2>13, <2>14
  <2>16. y.tree = left
    <3>1. CASE ~y.ok \/ b.existing
      BY <2>12, <3>1 DEF Laid
    <3>2. CASE y.ok /\ ~b.existing
      <4>1. y.tree = [left EXCEPT ![FileOf(profile, b)] = left[FileOf(profile, b)]]
        BY <2>12, <2>13, <2>15, <3>2 DEF Laid
      <4>. QED BY <2>10, <4>1 DEF IsFunction
    <3>. QED BY <3>1, <3>2
  <2>17. x.ok => y.refs = x.refs /\ y.files = x.files
    <3>1. SUFFICES ASSUME x.ok PROVE y.refs = x.refs /\ y.files = x.files
      OBVIOUS
    <3>2. FileIn(profile, y.tree, b) = FileIn(profile, x.tree, b)
      BY <2>13, <2>16, <3>1 DEF FileIn
    <3>. QED BY <2>8, <2>11, <2>12, <2>15, <3>1, <3>2
  <2>. QED BY <2>6, <2>12, <2>15, <2>16, <2>17 DEF Same
<1>5. Nat \subseteq S
  <2> HIDE DEF S
  <2>. QED BY <1>3, <1>4, NumbersFrom
<1>. QED BY <1>1, <1>5

(* Where the plan puts a new Go contract: in the surface of its owner.     *)
PutsOnSurface(profile, boundaries) ==
  \A i \in DOMAIN boundaries :
    LET b == boundaries[i]
    IN  profile.language = "go" /\ ~b.existing /\ profile.surface[b.owner] # {} => UnderSurface(profile, b.owner, FileOf(profile, b))

(* Materializing touches nothing that stands, stays on the surfaces of the *)
(* owners, and a repetition finds everything in place, also after a run    *)
(* that stopped half-way (FileMaterializer.Materialize, O_EXCL and marker).*)
THEOREM MaterializingAlwaysConverges ==
  ASSUME NEW q, IsPlanOf(q.profile, q.base, q.boundaries), PutsOnSurface(q.profile, q.boundaries), q.profile.language \in {"go", "typescript"}
  PROVE  MaterializingConverges(q)
<1> DEFINE first == Materialize(q.profile, q.base, q.boundaries)
           second == Materialize(q.profile, first.tree, q.boundaries)
           N == Len(q.boundaries)
<1>1. N \in Nat /\ DOMAIN q.boundaries = 1..N
  BY DEF IsPlanOf
<1>2. PICK done : /\ IsWalk(done, q.profile, q.base, q.boundaries)
                  /\ first = Ended(q.profile, done[N])
  BY <1>1, MaterializeWalks
<1>3. PICK left : left = first.tree
  OBVIOUS
<1>4. PICK again : /\ IsWalk(again, q.profile, left, q.boundaries)
                   /\ second = Ended(q.profile, again[N])
  BY <1>1, <1>3, MaterializeWalks
<1>5. Walked(done, q.profile, q.base, q.boundaries, N) /\ 0 \in 0..N /\ N \in 0..N
  BY <1>1, <1>2, WalkKeeps
<1>6. PICK x, y : x = done[N] /\ y = again[N]
  OBVIOUS
<1>7. /\ first.ok = (x.ok /\ ValidateFiles(q.profile, x.tree, x.files, x.refs)) /\ first.tree = x.tree
  <2>1. IsOut(x)
    BY <1>5, <1>6 DEF Walked
  <2>2. first = [ok |-> x.ok /\ ValidateFiles(q.profile, x.tree, x.files, x.refs), tree |-> x.tree, refs |-> x.refs, files |-> x.files]
    BY <1>2, <1>6, <2>1 DEF IsOut, Ended
  <2> HIDE DEF first
  <2>. QED BY <2>2
<1>8. left = done[N].tree
  BY <1>3, <1>6, <1>7
<1>9. /\ y.tree = left /\ (y.ok <=> x.ok) /\ IsOut(y)
      /\ x.ok => y.refs = x.refs /\ y.files = x.files
  BY <1>2, <1>4, <1>5, <1>6, <1>8, SecondWalk
<1>10. second.ok = (y.ok /\ ValidateFiles(q.profile, y.tree, y.files, y.refs)) /\ second.tree = y.tree
  <2>1. second = [ok |-> y.ok /\ ValidateFiles(q.profile, y.tree, y.files, y.refs), tree |-> y.tree, refs |-> y.refs, files |-> y.files]
    BY <1>4, <1>6, <1>9 DEF IsOut, Ended
  <2> HIDE DEF second
  <2>. QED BY <2>1
<1> HIDE DEF first, second
<1>11. second.tree = first.tree /\ second.ok = first.ok
  BY <1>3, <1>7, <1>9, <1>10
<1>12. \A p \in DOMAIN q.base : q.base[p] = Absent \/ first.tree[p] = q.base[p]
  <2>1. done[0].tree = q.base
    <3>1. done[0] = [ok |-> TRUE, tree |-> q.base, refs |-> {}, files |-> {}]
      BY <1>2 DEF IsWalk, Begun
    <3>. QED BY <3>1
  <2>2. \A p \in DOMAIN q.base : done[0].tree[p] = Absent \/ done[N].tree[p] = done[0].tree[p]
    BY <1>5 DEF Walked
  <2>. QED BY <1>6, <1>7, <2>1, <2>2
<1>13. ASSUME NEW p \in Changed(q.base, first.tree)
       PROVE  \E i \in DOMAIN q.boundaries : UnderSurface(q.profile, q.boundaries[i].owner, p) \/ q.profile.language = "typescript"
  <2>1. p \in DOMAIN q.base /\ done[N].tree[p] # q.base[p]
    BY <1>5, <1>6, <1>7 DEF Changed, Walked
  <2>2. PICK i \in DOMAIN q.boundaries : /\ p = FileOf(q.profile, q.boundaries[i]) /\ ~q.boundaries[i].existing
                                         /\ q.profile.language = "go" => q.profile.surface[q.boundaries[i].owner] # {}
    BY <1>5, <2>1 DEF Walked
  <2>. QED BY <2>2 DEF PutsOnSurface
<1>. QED BY <1>11, <1>12, <1>13 DEF MaterializingConverges, first, second

(* A freeze of contracts: a plan whose paths are in both trees, files with *)
(* a list of declarations, and a recorded baseline.                        *)
FreezeFits(q) ==
  /\ IsPlanOf(q.profile, q.base, q.boundaries) /\ PutsOnSurface(q.profile, q.boundaries)
  /\ q.profile.language \in {"go", "typescript"}
  /\ {"files", "refs"} \subseteq DOMAIN q.baseline /\ DOMAIN q.commit.tree = DOMAIN q.base
  /\ \A p \in DOMAIN q.base : q.commit.tree[p] # Absent => q.commit.tree[p].decls \in Seq(ToSet(q.commit.tree[p].decls))

(* Everything a freeze promises: placeholders, announced references, both  *)
(* gates and the recorded baseline agree (materializer.go, verifier.go,    *)
(* baseline.go).                                                           *)
LEMMA FreezesAreSound ==
  ASSUME NEW q, FreezeFits(q)
  PROVE  FreezeIsSound(q)
<1>1. MaterializingConverges(q) /\ PlansAreMaterialized(q)
  BY MaterializingAlwaysConverges, PlansAreAlwaysMaterialized DEF FreezeFits
<1>2. GatesAgree(q)
  <2>1. Len(q.boundaries) \in Nat /\ DOMAIN q.boundaries = 1..Len(q.boundaries)
    BY DEF FreezeFits, IsPlanOf
  <2>2. IsFiniteSet(DOMAIN q.boundaries)
    BY <2>1, FS_Interval
  <2>. QED BY <2>2, GatesAlwaysAgree
<1>3. FrozenIsContractOnly(q)
  <2>1. \A r \in PlannedContractReferences(q.profile, q.boundaries).refs : r.path \in DOMAIN q.base
    <3>1. \A i \in DOMAIN q.boundaries : Reference(q.profile, q.boundaries[i]).path \in DOMAIN q.base
      BY DEF FreezeFits, IsPlanOf, Reference
    <3>. QED BY <3>1 DEF PlannedContractReferences
  <2>. QED BY <2>1, FrozenBaselinesAreContractOnly DEF FreezeFits
<1>. QED BY <1>1, <1>2, <1>3 DEF FreezeIsSound

-----------------------------------------------------------------------------

(* How one root of many was looked at.                                     *)
IsRoots(roots) ==
  /\ DOMAIN roots = 1..Len(roots) /\ Len(roots) \in Nat
  /\ \A i \in DOMAIN roots : LET r == roots[i] IN
       {r.git, r.worktree, r.scans, r.gitAfter, r.truncated, r.safe, r.report.warnings} \subseteq BOOLEAN
RepeatsOf(roots, i) == \E j \in 1..(i - 1) : roots[j].canonical = roots[i].canonical
ScannedIn(roots, i) == roots[i].canonical # "" /\ ~RepeatsOf(roots, i) /\ roots[i].git /\ roots[i].worktree /\ roots[i].scans
LooksOf(roots, i) ==
  IF ~ScannedIn(roots, i) \/ ~roots[i].gitAfter THEN {"failed"}
  ELSE {"verified"} \cup IF roots[i].before # roots[i].after \/ roots[i].truncated \/ roots[i].report.warnings THEN {"stale"} ELSE {}
AuditedIn(roots, i) == {j \in DOMAIN roots : roots[i].canonical # "" /\ ScannedIn(roots, j) /\ roots[j].canonical = roots[i].canonical}
AuditOf(roots, i) == LET j == CHOOSE x \in AuditedIn(roots, i) : TRUE IN auditService(roots[j].safe, roots[j].tree, roots[j].report)
FindingsOf(roots, i) == LooksOf(roots, i) \cup IF AuditedIn(roots, i) # {} /\ ~Complete(AuditOf(roots, i)) THEN {"failed"} ELSE {}

LEMMA VerifyIs ==
  ASSUME NEW roots, NEW out, out = Verify(roots)
  PROVE  /\ out.services = [i \in DOMAIN roots |-> IF AuditedIn(roots, i) = {} THEN "failed" ELSE classify(FindingsOf(roots, i))]
         /\ out.status = classify(UNION {FindingsOf(roots, i) : i \in DOMAIN roots})
BY DEF Verify, RepeatsOf, ScannedIn, LooksOf, AuditedIn, AuditOf, FindingsOf

LEMMA VerifiedMeans ==
  ASSUME NEW findings
  PROVE  classify(findings) = "verified" <=> "failed" \notin findings /\ "stale" \notin findings
BY DEF classify

(* Nothing is complete in a repository that must not be read.              *)
LEMMA CompleteIsSafe ==
  ASSUME NEW safe \in BOOLEAN, NEW t, NEW report, Complete(auditService(safe, t, report))
  PROVE  safe
<1>1. SUFFICES ASSUME ~safe PROVE FALSE
  OBVIOUS
<1>2. auditService(safe, t, report).has = FALSE
  BY <1>1 DEF auditService
<1>. QED BY <1>2 DEF Complete

(* The audit of a scanned root is its own, and a root that was refused     *)
(* and is the first of its path was audited for no other.                  *)
LEMMA AuditIsOwn ==
  ASSUME NEW roots, IsRoots(roots), NEW i \in DOMAIN roots
  PROVE  /\ ScannedIn(roots, i) => AuditedIn(roots, i) = {i} /\ AuditOf(roots, i) = auditService(roots[i].safe, roots[i].tree, roots[i].report)
         /\ ~RepeatsOf(roots, i) /\ ~ScannedIn(roots, i) => AuditedIn(roots, i) = {}
         /\ AuditedIn(roots, i) = {} => ~ScannedIn(roots, i)
<1>1. ASSUME NEW j \in DOMAIN roots, ScannedIn(roots, j), roots[j].canonical = roots[i].canonical, ~RepeatsOf(roots, i)
      PROVE  j = i
  <2>1. i \in Int /\ j \in Int /\ i >= 1 /\ j >= 1
    BY DEF IsRoots
  <2>2. j < i => RepeatsOf(roots, i)
    BY <1>1, <2>1 DEF RepeatsOf
  <2>3. i < j => RepeatsOf(roots, j)
    BY <1>1, <2>1 DEF RepeatsOf
  <2>4. ~RepeatsOf(roots, j)
    BY <1>1 DEF ScannedIn
  <2>. QED BY <1>1, <2>1, <2>2, <2>3, <2>4
<1>2. ASSUME ScannedIn(roots, i) PROVE AuditedIn(roots, i) = {i}
  BY <1>1, <1>2 DEF AuditedIn, ScannedIn
<1>3. ASSUME ScannedIn(roots, i) PROVE AuditOf(roots, i) = auditService(roots[i].safe, roots[i].tree, roots[i].report)
  <2>1. (CHOOSE x \in AuditedIn(roots, i) : TRUE) = i
    BY <1>2, <1>3
  <2>. QED BY <2>1 DEF AuditOf
<1>4. ASSUME ~RepeatsOf(roots, i), ~ScannedIn(roots, i) PROVE AuditedIn(roots, i) = {}
  BY <1>1, <1>4 DEF AuditedIn
<1>5. ASSUME AuditedIn(roots, i) = {} PROVE ~ScannedIn(roots, i)
  BY <1>2, <1>5
<1>. QED BY <1>2, <1>3, <1>4, <1>5

(* What is verified was looked at whole, held still and is complete        *)
(* (currentverification.Verify).                                           *)
THEOREM CurrentIsAlwaysProven ==
  ASSUME NEW roots, IsRoots(roots)
  PROVE  VerifiedIsProven(roots)
<1> DEFINE out == Verify(roots)
           alone(i) == Verify(<<roots[i]>>)
<1>1. /\ out.services = [i \in DOMAIN roots |-> IF AuditedIn(roots, i) = {} THEN "failed" ELSE classify(FindingsOf(roots, i))]
      /\ out.status = classify(UNION {FindingsOf(roots, i) : i \in DOMAIN roots})
  BY VerifyIs
<1>2. \A i \in DOMAIN roots : out.services[i] = "verified" <=> "failed" \notin FindingsOf(roots, i) /\ "stale" \notin FindingsOf(roots, i)
  <2>1. ASSUME NEW i \in DOMAIN roots
        PROVE  AuditedIn(roots, i) = {} => "failed" \in FindingsOf(roots, i)
    BY AuditIsOwn DEF FindingsOf, LooksOf
  <2>. QED BY <1>1, <2>1, VerifiedMeans
<1>3. out.status = "verified" <=> \A i \in DOMAIN roots : out.services[i] = "verified"
  <2> DEFINE findings == UNION {FindingsOf(roots, i) : i \in DOMAIN roots}
  <2>1. \A f : f \in findings <=> \E i \in DOMAIN roots : f \in FindingsOf(roots, i)
    OBVIOUS
  <2> HIDE DEF findings, out
  <2>. QED BY <1>1, <1>2, <2>1, VerifiedMeans DEF findings
<1>4. ASSUME NEW i \in DOMAIN roots, out.services[i] = "verified"
      PROVE  /\ roots[i].before = roots[i].after /\ ~roots[i].truncated /\ ~roots[i].report.warnings
             /\ Complete(auditService(TRUE, roots[i].tree, roots[i].report))
  <2>1. "failed" \notin FindingsOf(roots, i) /\ "stale" \notin FindingsOf(roots, i)
    BY <1>2, <1>4
  <2>2. ScannedIn(roots, i) /\ "stale" \notin LooksOf(roots, i) /\ "failed" \notin LooksOf(roots, i)
    BY <2>1 DEF FindingsOf, LooksOf
  <2>3. roots[i].before = roots[i].after /\ ~roots[i].truncated /\ ~roots[i].report.warnings
    BY <2>2 DEF LooksOf
  <2>4. Complete(auditService(roots[i].safe, roots[i].tree, roots[i].report))
    BY <2>1, <2>2, AuditIsOwn DEF FindingsOf
  <2>5. roots[i].safe \in BOOLEAN
    BY DEF IsRoots
  <2>6. roots[i].safe = TRUE
    BY <2>4, <2>5, CompleteIsSafe
  <2>. QED BY <2>3, <2>4, <2>6
<1>5. ASSUME NEW i \in DOMAIN roots, ~RepeatsOf(roots, i)
      PROVE  out.services[i] = alone(i).services[1]
  <2>1. PICK one : one = <<roots[i]>>
    OBVIOUS
  <2>2. DOMAIN one = 1..1 /\ Len(one) = 1 /\ one[1] = roots[i] /\ IsRoots(one) /\ ~RepeatsOf(one, 1) /\ 1 \in DOMAIN one
    <3>1. DOMAIN one = 1..1 /\ Len(one) = 1 /\ one[1] = roots[i]
      BY <2>1
    <3>. QED BY <3>1 DEF IsRoots, RepeatsOf
  <2>3. ScannedIn(one, 1) <=> ScannedIn(roots, i)
    <3>1. ScannedIn(one, 1) <=> one[1].canonical # "" /\ one[1].git /\ one[1].worktree /\ one[1].scans
      BY <2>2 DEF ScannedIn
    <3>2. ScannedIn(roots, i) <=> roots[i].canonical # "" /\ roots[i].git /\ roots[i].worktree /\ roots[i].scans
      BY <1>5 DEF ScannedIn
    <3>3. one[1] = roots[i]
      BY <2>2
    <3> DEFINE Fit(r) == r.canonical # "" /\ r.git /\ r.worktree /\ r.scans
    <3>4. Fit(one[1]) <=> Fit(roots[i])
      <4> HIDE DEF Fit
      <4>. QED BY <3>3
    <3>. QED BY <3>1, <3>2, <3>4
  <2>4. alone(i).services = [k \in DOMAIN one |-> IF AuditedIn(one, k) = {} THEN "failed" ELSE classify(FindingsOf(one, k))]
    BY <2>1, VerifyIs
  <2>5. CASE ~ScannedIn(roots, i)
    <3>1. AuditedIn(roots, i) = {} /\ AuditedIn(one, 1) = {}
      BY <1>5, <2>2, <2>3, <2>5, AuditIsOwn
    <3>. QED BY <1>1, <2>2, <2>4, <3>1
  <2>6. CASE ScannedIn(roots, i)
    <3>1. /\ AuditedIn(roots, i) = {i} /\ AuditOf(roots, i) = auditService(roots[i].safe, roots[i].tree, roots[i].report)
          /\ AuditedIn(one, 1) = {1} /\ AuditOf(one, 1) = auditService(roots[i].safe, roots[i].tree, roots[i].report)
      <4>1. AuditedIn(one, 1) = {1} /\ AuditOf(one, 1) = auditService(one[1].safe, one[1].tree, one[1].report)
        BY <2>2, <2>3, <2>6, AuditIsOwn
      <4>2. AuditedIn(roots, i) = {i} /\ AuditOf(roots, i) = auditService(roots[i].safe, roots[i].tree, roots[i].report)
        BY <2>6, AuditIsOwn
      <4>. QED BY <2>2, <4>1, <4>2
    <3>2. LooksOf(roots, i) = LooksOf(one, 1)
      BY <2>2, <2>3 DEF LooksOf
    <3>3. FindingsOf(roots, i) = FindingsOf(one, 1)
      BY <3>1, <3>2 DEF FindingsOf
    <3>. QED BY <1>1, <2>2, <2>4, <3>1, <3>3
  <2>. QED BY <2>5, <2>6
<1> HIDE DEF out
<1>. QED BY <1>3, <1>4, <1>5 DEF VerifiedIsProven, RepeatsOf, out

-----------------------------------------------------------------------------

(* What the distribution is given: assets that were validated and bear     *)
(* their ids alone, and looks at a repository: of each asset whether it    *)
(* exists, whether it can be read safely, and its files; no entries        *)
(* without a manifest.                                                     *)
Catalogued(catalog) ==
  /\ \A a \in Assets!RepositoryAssets(catalog) : Assets!ValidateAsset(a)
  /\ \A a, b \in Assets!RepositoryAssets(catalog) : a.id = b.id => a = b
IsLook(s) ==
  /\ s = [exists |-> s.exists, unsafe |-> s.unsafe, files |-> s.files]
  /\ s.exists \in BOOLEAN /\ s.unsafe \in BOOLEAN /\ (~s.exists => s.files = << >>)
Inspected(catalog, repo) ==
  /\ \A a \in Assets!RepositoryAssets(catalog) : a.id \in DOMAIN repo.assets
  /\ \A id \in DOMAIN repo.assets : IsLook(repo.assets[id])
  /\ ~repo.provenance.exists => repo.provenance.entries = {}

PriorOf(a, repo) == {e \in repo.provenance.entries : e.id = a.id}
ChangeOf(a, repo) ==
  [id |-> a.id, target |-> a.target, desired |-> a.files,
   current |-> IF repo.assets[a.id].exists /\ ~repo.assets[a.id].unsafe THEN repo.assets[a.id].files ELSE << >>,
   state |-> Assets!StateOf(a, repo.assets[a.id], PriorOf(a, repo))]

LEMMA ProposalIs ==
  ASSUME NEW catalog, NEW repo, NEW p, p = Assets!BuildDistributionProposal(catalog, repo)
  PROVE  /\ p.ok = (repo.revision # 0 /\ Assets!ValidateDistributionManifest(repo.provenance))
         /\ p.changes = {ChangeOf(a, repo) : a \in Assets!RepositoryAssets(catalog)}
         /\ p.next = Assets!nextProvenance(catalog, repo.provenance)
BY DEF Assets!BuildDistributionProposal, ChangeOf, PriorOf

LEMMA StatesAre ==
  ASSUME NEW a, NEW actual, IsLook(actual), NEW prior, NEW s, s = Assets!StateOf(a, actual, prior)
  PROVE  /\ s = "missing" => ~actual.unsafe /\ ~actual.exists
         /\ s = "stale" => ~actual.unsafe /\ actual.exists /\ \E e \in prior : actual.files = e.files
         /\ s = "current" => ~actual.unsafe /\ actual.exists /\ actual.files = a.files
         /\ s \in {"conflicting", "missing", "current", "stale", "locally_modified"}
<1> DEFINE last == CHOOSE e \in prior : TRUE
<1>1. prior # {} => last \in prior
  OBVIOUS
<1>2. s = IF actual.unsafe \/ (prior # {} /\ (last.ownership # "MANAGED" \/ last.target # a.target \/ last.source # a.source)) THEN "conflicting"
          ELSE IF ~actual.exists THEN "missing"
          ELSE IF actual.files = a.files THEN "current"
          ELSE IF prior = {} THEN "conflicting"
          ELSE IF actual.files = last.files THEN "stale" ELSE "locally_modified"
  BY DEF Assets!StateOf, Assets!matchesProvenance
<1> HIDE DEF last
<1>. QED BY <1>1, <1>2 DEF IsLook

(* What is written and remembered of a repository.                         *)
LEMMA WrittenIs ==
  ASSUME NEW catalog, NEW repo, Catalogued(catalog), Inspected(catalog, repo),
         NEW p, p.changes = {ChangeOf(a, repo) : a \in Assets!RepositoryAssets(catalog)},
         NEW w, w = Assets!Written(repo, p)
  PROVE  /\ w.revision = repo.revision /\ w.provenance = p.next /\ DOMAIN w.assets = DOMAIN repo.assets
         /\ \A a \in Assets!RepositoryAssets(catalog) :
              w.assets[a.id] = IF ChangeOf(a, repo).state \in {"missing", "stale"}
                                 THEN [exists |-> TRUE, unsafe |-> FALSE, files |-> a.files] ELSE repo.assets[a.id]
         /\ \A id \in DOMAIN repo.assets : w.assets[id] # repo.assets[id] =>
              \E a \in Assets!RepositoryAssets(catalog) : a.id = id /\ ChangeOf(a, repo).state \in {"missing", "stale"}
<1> DEFINE Update(id) == {c \in p.changes : c.id = id /\ c.state \in {"missing", "stale"}}
           Now(id) == IF Update(id) = {} THEN repo.assets[id]
                      ELSE [exists |-> TRUE, unsafe |-> FALSE, files |-> (CHOOSE c \in Update(id) : TRUE).desired]
<1>1. /\ w.revision = repo.revision /\ w.provenance = p.next
      /\ w.assets = [id \in DOMAIN repo.assets |-> Now(id)]
  BY DEF Assets!Written
<1> HIDE DEF Now
<1>2. DOMAIN w.assets = DOMAIN repo.assets /\ \A id \in DOMAIN repo.assets : w.assets[id] = Now(id)
  BY <1>1
<1>3. \A a \in Assets!RepositoryAssets(catalog) : ChangeOf(a, repo).id = a.id /\ ChangeOf(a, repo).desired = a.files
  BY DEF ChangeOf
<1>4. ASSUME NEW a \in Assets!RepositoryAssets(catalog)
      PROVE  Now(a.id) = IF ChangeOf(a, repo).state \in {"missing", "stale"}
                           THEN [exists |-> TRUE, unsafe |-> FALSE, files |-> a.files] ELSE repo.assets[a.id]
  <2>1. Update(a.id) = IF ChangeOf(a, repo).state \in {"missing", "stale"} THEN {ChangeOf(a, repo)} ELSE {}
    <3>1. \A c \in p.changes : c.id = a.id => c = ChangeOf(a, repo)
      BY <1>3 DEF Catalogued
    <3>2. ChangeOf(a, repo) \in p.changes /\ ChangeOf(a, repo).id = a.id
      BY <1>3
    <3>. QED BY <3>1, <3>2
  <2> HIDE DEF Update
  <2>2. CASE ChangeOf(a, repo).state \in {"missing", "stale"}
    <3>1. (CHOOSE c \in Update(a.id) : TRUE) = ChangeOf(a, repo)
      BY <2>1, <2>2
    <3>. QED BY <2>1, <2>2, <3>1, <1>3 DEF Now
  <2>3. CASE ~(ChangeOf(a, repo).state \in {"missing", "stale"})
    BY <2>1, <2>3 DEF Now
  <2>. QED BY <2>2, <2>3
<1>5. ASSUME NEW id \in DOMAIN repo.assets, Now(id) # repo.assets[id]
      PROVE  \E a \in Assets!RepositoryAssets(catalog) : a.id = id /\ ChangeOf(a, repo).state \in {"missing", "stale"}
  <2>1. Update(id) # {}
    BY <1>5 DEF Now
  <2>. QED BY <2>1, <1>3
<1>6. \A a \in Assets!RepositoryAssets(catalog) : a.id \in DOMAIN repo.assets
  BY DEF Inspected
<1>. QED BY <1>1, <1>2, <1>4, <1>5, <1>6

(* The manifest that is written is valid and knows every asset anew.       *)
LEMMA RemembersAll ==
  ASSUME NEW catalog, Catalogued(catalog), NEW old, Assets!ValidateDistributionManifest(old), ~old.exists => old.entries = {},
         NEW next, next = Assets!nextProvenance(catalog, old)
  PROVE  /\ Assets!ValidateDistributionManifest(next) /\ next.exists
         /\ \A a \in Assets!RepositoryAssets(catalog) : {e \in next.entries : e.id = a.id} = {Assets!EntryOf(a)}
<1> DEFINE written == {Assets!EntryOf(a) : a \in Assets!RepositoryAssets(catalog)}
           kept == {e \in old.entries : e.id \notin {w.id : w \in written}}
<1>1. /\ next.exists /\ next.schema = 1 /\ next.ownership = "GENERATED" /\ next.entries = written \cup kept
  BY DEF Assets!nextProvenance
<1>2. \A a \in Assets!RepositoryAssets(catalog) :
        LET e == Assets!EntryOf(a) IN e.id = a.id /\ e.ownership = "MANAGED" /\ e.target = a.target /\ e.version = a.version /\ e.files = a.files
  BY DEF Assets!EntryOf
<1>3. \A a \in Assets!RepositoryAssets(catalog) :
        /\ a.id # "" /\ a.version # "" /\ a.files # << >>
        /\ Assets!validateRelativePath(a.target) /\ Assets!IsStrictPrefix(<<".agents">>, a.target)
  BY DEF Catalogued, Assets!ValidateAsset, Assets!RepositoryAssets
<1>4. \A e \in kept :
        /\ e.id # "" /\ e.version # "" /\ e.ownership \in {"MANAGED", "LOCAL"} /\ e.files # << >>
        /\ Assets!validateRelativePath(e.target) /\ Assets!IsStrictPrefix(<<".agents">>, e.target)
  BY DEF Assets!ValidateDistributionManifest
<1>5. \A d, e \in kept : d.id = e.id => d = e
  BY DEF Assets!ValidateDistributionManifest
<1>6. \A d \in written, e \in kept : d.id # e.id
  OBVIOUS
<1>7. \A d, e \in written : d.id = e.id => d = e
  BY <1>2 DEF Catalogued
<1>8. \A e \in written :
        /\ e.id # "" /\ e.version # "" /\ e.ownership \in {"MANAGED", "LOCAL"} /\ e.files # << >>
        /\ Assets!validateRelativePath(e.target) /\ Assets!IsStrictPrefix(<<".agents">>, e.target)
  <2>1. ASSUME NEW a \in Assets!RepositoryAssets(catalog), NEW e, e = Assets!EntryOf(a)
        PROVE  /\ e.id # "" /\ e.version # "" /\ e.ownership \in {"MANAGED", "LOCAL"} /\ e.files # << >>
               /\ Assets!validateRelativePath(e.target) /\ Assets!IsStrictPrefix(<<".agents">>, e.target)
    <3>1. e.id = a.id /\ e.ownership = "MANAGED" /\ e.target = a.target /\ e.version = a.version /\ e.files = a.files
      BY <1>2, <2>1
    <3>. QED BY <3>1, <1>3
  <2>. QED BY <2>1
<1>9. \A a \in Assets!RepositoryAssets(catalog) : Assets!EntryOf(a) \in written
  OBVIOUS
<1> HIDE DEF written, kept
<1>10. Assets!ValidateDistributionManifest(next)
  BY <1>1, <1>4, <1>5, <1>6, <1>7, <1>8 DEF Assets!ValidateDistributionManifest
<1>11. ASSUME NEW a \in Assets!RepositoryAssets(catalog)
       PROVE  {e \in next.entries : e.id = a.id} = {Assets!EntryOf(a)}
  <2>1. Assets!EntryOf(a) \in next.entries /\ Assets!EntryOf(a).id = a.id
    BY <1>1, <1>2, <1>9
  <2>2. \A e \in next.entries : e.id = a.id => e = Assets!EntryOf(a)
    BY <1>1, <1>2, <1>6, <1>7, <1>9
  <2>. QED BY <2>1, <2>2
<1>. QED BY <1>1, <1>10, <1>11

(* A distribution writes what the owner approved over what the owner saw   *)
(* (BuildDistributionProposal, DistributionService.Apply).                 *)
THEOREM DistributionsAlwaysKeepLocalWork ==
  ASSUME NEW q, Catalogued(q.catalog),
         Inspected(q.catalog, q.seen), Inspected(q.catalog, q.first), Inspected(q.catalog, q.second)
  PROVE  Assets!DistributionKeepsLocalWork(q)
<1> DEFINE before == Assets!BuildDistributionProposal(q.catalog, q.seen)
           one == Assets!BuildDistributionProposal(q.catalog, q.first)
           two == Assets!BuildDistributionProposal(q.catalog, q.second)
           repo == Assets!Written(q.second, two)
           again == Assets!BuildDistributionProposal(q.catalog, repo)
           all == Assets!RepositoryAssets(q.catalog)
           Distributed(id) == {e.files : e \in {x \in q.seen.provenance.entries : x.id = id}}
           Kept(id) == repo.assets[id] # q.second.assets[id] =>
                         /\ q.second.assets[id] = q.seen.assets[id]
                         /\ q.seen.assets[id].exists => q.seen.assets[id].files \in Distributed(id)
                         /\ \E a \in all : a.id = id
<1>1. SUFFICES ASSUME two.ok, ~Assets!Conflicts(one), one = before, two = before
      PROVE  /\ Assets!ValidateDistributionManifest(repo.provenance)
             /\ again.ok /\ \A c \in again.changes : c.state = "current"
             /\ \A id \in DOMAIN q.second.assets : Kept(id)
  BY DEF Assets!DistributionKeepsLocalWork, Assets!Apply, Assets!proposalFingerprint
<1>2. /\ two.ok = (q.second.revision # 0 /\ Assets!ValidateDistributionManifest(q.second.provenance))
      /\ two.changes = {ChangeOf(a, q.second) : a \in all} /\ two.next = Assets!nextProvenance(q.catalog, q.second.provenance)
      /\ before.changes = {ChangeOf(a, q.seen) : a \in all}
      /\ again.ok = (repo.revision # 0 /\ Assets!ValidateDistributionManifest(repo.provenance))
      /\ again.changes = {ChangeOf(a, repo) : a \in all}
  BY ProposalIs
<1>3. \A a, b \in all : a.id = b.id => a = b
  BY DEF Catalogued
<1>4. /\ repo.revision = q.second.revision /\ repo.provenance = two.next /\ DOMAIN repo.assets = DOMAIN q.second.assets
      /\ \A a \in all : repo.assets[a.id] = IF ChangeOf(a, q.second).state \in {"missing", "stale"}
                                               THEN [exists |-> TRUE, unsafe |-> FALSE, files |-> a.files] ELSE q.second.assets[a.id]
      /\ \A id \in DOMAIN q.second.assets : repo.assets[id] # q.second.assets[id] =>
           \E a \in all : a.id = id /\ ChangeOf(a, q.second).state \in {"missing", "stale"}
  BY <1>2, WrittenIs
<1>5. /\ Assets!ValidateDistributionManifest(repo.provenance)
      /\ \A a \in all : PriorOf(a, repo) = {Assets!EntryOf(a)}
  <2>1. ~q.second.provenance.exists => q.second.provenance.entries = {}
    BY DEF Inspected
  <2>2. PICK next : next = Assets!nextProvenance(q.catalog, q.second.provenance)
    OBVIOUS
  <2>3. Assets!ValidateDistributionManifest(q.second.provenance) /\ repo.provenance = next
    BY <1>1, <1>2, <1>4, <2>2
  <2>4. /\ Assets!ValidateDistributionManifest(next)
        /\ \A a \in all : {e \in next.entries : e.id = a.id} = {Assets!EntryOf(a)}
    BY <2>1, <2>2, <2>3, RemembersAll
  <2>. QED BY <2>3, <2>4 DEF PriorOf
<1> HIDE DEF before, one, two, repo, again, all
<1>6. \A a \in all : /\ ChangeOf(a, q.second).state \notin {"conflicting", "locally_modified"}
                      /\ ChangeOf(a, q.second) = ChangeOf(a, q.seen)
  <2>1. \A a \in all : ChangeOf(a, q.second).id = a.id /\ ChangeOf(a, q.seen).id = a.id
    BY DEF ChangeOf
  <2>2. \A c \in two.changes : c.state \notin {"conflicting", "locally_modified"}
    BY <1>1 DEF Assets!Conflicts
  <2>3. {ChangeOf(a, q.second) : a \in all} = {ChangeOf(a, q.seen) : a \in all}
    BY <1>1, <1>2
  <2>4. ASSUME NEW a \in all PROVE ChangeOf(a, q.second) = ChangeOf(a, q.seen)
    <3>1. PICK b \in all : ChangeOf(a, q.second) = ChangeOf(b, q.seen)
      BY <2>3
    <3>. QED BY <1>3, <2>1, <3>1
  <2>. QED BY <1>2, <2>2, <2>4
<1>7. ASSUME NEW a \in all PROVE ChangeOf(a, repo).state = "current"
  <2> DEFINE actual == repo.assets[a.id]
             e == Assets!EntryOf(a)
  <2>1. actual.exists /\ ~actual.unsafe /\ actual.files = a.files
    <3>1. CASE ChangeOf(a, q.second).state \in {"missing", "stale"}
      <4>1. actual = [exists |-> TRUE, unsafe |-> FALSE, files |-> a.files]
        BY <1>4, <3>1
      <4>. QED BY <4>1
    <3>2. CASE ~(ChangeOf(a, q.second).state \in {"missing", "stale"})
      <4>1. actual = q.second.assets[a.id] /\ IsLook(actual)
        BY <1>4, <3>2 DEF Inspected, all
      <4>2. ChangeOf(a, q.second).state = Assets!StateOf(a, actual, PriorOf(a, q.second))
        BY <4>1 DEF ChangeOf
      <4>3. Assets!StateOf(a, actual, PriorOf(a, q.second)) = "current"
        BY <1>6, <3>2, <4>1, <4>2, StatesAre
      <4>. QED BY <4>1, <4>3, StatesAre
    <3>. QED BY <3>1, <3>2
  <2>2. e.ownership = "MANAGED" /\ e.target = a.target /\ e.source = a.source
    BY DEF Assets!EntryOf
  <2>3. (CHOOSE x \in {e} : TRUE) = e
    OBVIOUS
  <2> HIDE DEF actual, e
  <2>4. Assets!StateOf(a, actual, {e}) = "current"
    BY <2>1, <2>2, <2>3 DEF Assets!StateOf
  <2>. QED BY <1>5, <2>4 DEF ChangeOf, actual, e
<1>8. ASSUME NEW id \in DOMAIN q.second.assets, repo.assets[id] # q.second.assets[id]
      PROVE  /\ q.second.assets[id] = q.seen.assets[id]
             /\ q.seen.assets[id].exists => q.seen.assets[id].files \in Distributed(id)
             /\ \E a \in all : a.id = id
  <2>1. PICK a \in all : a.id = id /\ ChangeOf(a, q.second).state \in {"missing", "stale"}
    BY <1>4, <1>8
  <2> DEFINE now == q.second.assets[id]
             then == q.seen.assets[id]
  <2>2. IsLook(now) /\ IsLook(then)
    BY <2>1 DEF Inspected, all
  <2>3. /\ ChangeOf(a, q.second).state = Assets!StateOf(a, now, PriorOf(a, q.second))
        /\ ChangeOf(a, q.seen).state = Assets!StateOf(a, then, PriorOf(a, q.seen))
        /\ ChangeOf(a, q.second).current = IF now.exists /\ ~now.unsafe THEN now.files ELSE << >>
        /\ ChangeOf(a, q.seen).current = IF then.exists /\ ~then.unsafe THEN then.files ELSE << >>
    BY <2>1 DEF ChangeOf
  <2>4. ChangeOf(a, q.second) = ChangeOf(a, q.seen)
    BY <1>6
  <2>5. \A e \in PriorOf(a, q.seen) : e.files \in Distributed(id)
    BY <2>1 DEF PriorOf
  <2> HIDE DEF now, then
  <2>6. /\ now.exists = then.exists /\ ~now.unsafe /\ ~then.unsafe /\ now.files = then.files
        /\ then.exists => \E e \in PriorOf(a, q.seen) : then.files = e.files
    <3>1. CASE ChangeOf(a, q.second).state = "missing"
      <4>1. ~now.unsafe /\ ~now.exists /\ ~then.unsafe /\ ~then.exists
        BY <2>2, <2>3, <2>4, <3>1, StatesAre
      <4>. QED BY <4>1, <2>2 DEF IsLook
    <3>2. CASE ChangeOf(a, q.second).state = "stale"
      <4>1. ~now.unsafe /\ now.exists /\ ~then.unsafe /\ then.exists /\ \E e \in PriorOf(a, q.seen) : then.files = e.files
        <5>1. Assets!StateOf(a, now, PriorOf(a, q.second)) = "stale" /\ Assets!StateOf(a, then, PriorOf(a, q.seen)) = "stale"
          BY <2>3, <2>4, <3>2
        <5>2. ~now.unsafe /\ now.exists
          BY <2>2, <5>1, StatesAre
        <5>3. ~then.unsafe /\ then.exists /\ \E e \in PriorOf(a, q.seen) : then.files = e.files
          BY <2>2, <5>1, StatesAre
        <5>. QED BY <5>2, <5>3
      <4>2. now.exists = then.exists
        BY <4>1, <2>2 DEF IsLook
      <4>. QED BY <4>1, <4>2, <2>3, <2>4
    <3>. QED BY <2>1, <3>1, <3>2
  <2>7. now = then
    <3>1. now.unsafe = then.unsafe
      BY <2>2, <2>6 DEF IsLook
    <3>. QED BY <2>2, <2>6, <3>1 DEF IsLook
  <2>8. then.exists => then.files \in Distributed(id)
    BY <2>5, <2>6
  <2>. QED BY <2>1, <2>7, <2>8 DEF now, then
<1>9. again.ok
  BY <1>1, <1>2, <1>4, <1>5
<1>10. \A c \in again.changes : c.state = "current"
  BY <1>2, <1>7
<1>. QED BY <1>5, <1>8, <1>9, <1>10

-----------------------------------------------------------------------------
Listed(s) == s \in Seq(Assets!ToSet(s))

(* Planning is never weaker than the review of what it plans (Planner and  *)
(* Reviewer of the model router).                                          *)
THEOREM PlannersAlwaysMatchReviews ==
  ASSUME NEW tasks, Listed(tasks)
  PROVE  Assets!PlannersMatchReviews(tasks)
<1>1. Len(tasks) \in Nat /\ DOMAIN tasks = 1..Len(tasks)
  BY DEF Listed
<1>2. ASSUME NEW t \in Assets!ToSet(tasks), Assets!Reviewer(t).model = "deep"
      PROVE  Assets!Planner(tasks).model = "deep"
  <2>1. Assets!Critical(t)
    BY <1>2 DEF Assets!Reviewer
  <2>. QED BY <2>1 DEF Assets!Planner
<1>3. ASSUME Len(tasks) > 1
      PROVE  Assets!Strength(Assets!Planner(tasks)) >= Assets!Strength(Assets!Planner(Assets!Front(tasks)))
  <2>1. Len(Assets!Front(tasks)) = Len(tasks) - 1 /\ Assets!ToSet(Assets!Front(tasks)) \subseteq Assets!ToSet(tasks)
    <3>1. /\ Len(Assets!Front(tasks)) = Len(tasks) - 1 /\ DOMAIN Assets!Front(tasks) = 1..(Len(tasks) - 1)
          /\ \A i \in 1..(Len(tasks) - 1) : Assets!Front(tasks)[i] = tasks[i]
      BY <1>1, <1>3 DEF Assets!Front, Listed
    <3>. QED BY <1>1, <3>1 DEF Assets!ToSet
  <2>2. Assets!Planner(tasks).model \in {"deep", "standard"}
    BY <1>1, <1>3 DEF Assets!Planner
  <2>3. Assets!Planner(Assets!Front(tasks)).model = "deep" => Assets!Planner(tasks).model = "deep"
    <3>1. ASSUME Assets!Planner(Assets!Front(tasks)).model = "deep"
          PROVE  (\E t \in Assets!ToSet(Assets!Front(tasks)) : Assets!Critical(t)) \/ Len(Assets!Front(tasks)) > 3
      BY <3>1 DEF Assets!Planner
    <3>2. (\E t \in Assets!ToSet(Assets!Front(tasks)) : Assets!Critical(t)) => \E t \in Assets!ToSet(tasks) : Assets!Critical(t)
      BY <2>1
    <3>3. Len(Assets!Front(tasks)) > 3 => Len(tasks) > 3
      BY <1>1, <2>1
    <3>. QED BY <3>1, <3>2, <3>3 DEF Assets!Planner
  <2>. QED BY <2>2, <2>3 DEF Assets!Strength
<1>. QED BY <1>2, <1>3 DEF Assets!PlannersMatchReviews

-----------------------------------------------------------------------------
(* The lists in a manifest are lists: routes, paths and their parts.       *)
IsManifest(manifest) ==
  \A a \in manifest.assets :
    /\ Listed(a.target)
    /\ a.kind = "profile" => /\ Listed(a.profile.routes)
                             /\ \A r \in Assets!ToSet(a.profile.routes) : Listed(r.surface) /\ \A t \in r.targets : Listed(t)

LEMMA PrefixesAre ==
  ASSUME NEW s, Listed(s), NEW t, Listed(t), NEW x
  PROVE  /\ Assets!IsPrefix(s, t) <=> Len(s) <= Len(t) /\ \A i \in 1..Len(s) : s[i] = t[i]
         /\ Assets!IsPrefix(s, s) /\ Assets!IsPrefix(s, Append(s, x)) /\ Listed(Append(s, x)) /\ Assets!ToSet(Append(s, x)) = Assets!ToSet(s) \cup {x}
         /\ Len(Append(s, x)) = Len(s) + 1 /\ Append(s, x)[Len(s) + 1] = x /\ \A i \in 1..Len(s) : Append(s, x)[i] = s[i]
<1> DEFINE T == Assets!ToSet(s) \cup Assets!ToSet(t) \cup {x}
<1>1. s \in Seq(T) /\ t \in Seq(T) /\ x \in T
  BY DEF Listed
<1> HIDE DEF T
<1>2. ASSUME NEW u \in Seq(T), NEW v \in Seq(T)
      PROVE  Assets!IsPrefix(u, v) <=> Len(u) <= Len(v) /\ \A i \in 1..Len(u) : u[i] = v[i]
  <2>1. CASE Len(u) <= Len(v)
    <3>1. /\ SubSeq(u, 1, Len(u)) \in Seq(T) /\ SubSeq(v, 1, Len(u)) \in Seq(T)
          /\ Len(SubSeq(u, 1, Len(u))) = Len(u) /\ Len(SubSeq(v, 1, Len(u))) = Len(u)
          /\ \A i \in 1..Len(u) : SubSeq(u, 1, Len(u))[i] = u[i] /\ SubSeq(v, 1, Len(u))[i] = v[i]
      BY <2>1
    <3>. QED BY <2>1, <3>1 DEF Assets!IsPrefix
  <2>2. CASE ~(Len(u) <= Len(v))
    BY <2>2 DEF Assets!IsPrefix
  <2>. QED BY <2>1, <2>2
<1>3. /\ Append(s, x) \in Seq(T) /\ Len(Append(s, x)) = Len(s) + 1 /\ Append(s, x)[Len(s) + 1] = x
      /\ \A i \in 1..Len(s) : Append(s, x)[i] = s[i]
  BY <1>1
<1>4. Assets!IsPrefix(s, s) /\ Assets!IsPrefix(s, Append(s, x))
  <2>1. Len(s) \in Nat /\ Len(Append(s, x)) = Len(s) + 1
    BY <1>1, <1>3
  <2>2. Assets!IsPrefix(s, s)
    BY <1>1, <1>2, <2>1
  <2>3. PICK a : a = Append(s, x)
    OBVIOUS
  <2>4. Assets!IsPrefix(s, a) <=> Len(s) <= Len(a) /\ \A i \in 1..Len(s) : s[i] = a[i]
    BY <1>1, <1>2, <1>3, <2>3
  <2>5. Len(s) <= Len(a) /\ \A i \in 1..Len(s) : s[i] = a[i]
    BY <1>3, <2>1, <2>3
  <2>. QED BY <2>2, <2>3, <2>4, <2>5
<1>5. Assets!ToSet(Append(s, x)) = Assets!ToSet(s) \cup {x}
  BY <1>1, <1>3 DEF Assets!ToSet
<1>6. Listed(Append(s, x))
  <2> DEFINE W == Assets!ToSet(Append(s, x))
  <2>1. Assets!ToSet(s) \subseteq W /\ x \in W
    BY <1>5
  <2> HIDE DEF W
  <2>2. s \in Seq(W)
    <3>1. s \in Seq(Assets!ToSet(s))
      BY Zenon DEF Listed
    <3>. QED BY <2>1, <3>1
  <2>3. Append(s, x) \in Seq(W)
    BY <2>1, <2>2
  <2>. QED BY <2>3 DEF Listed, W
<1>. QED BY <1>1, <1>2, <1>3, <1>4, <1>5, <1>6

(* Routes of a valid profile have ids of their own.                        *)
LEMMA RoutesAreUnique ==
  ASSUME NEW p, Listed(p.routes), Assets!ValidateProfile(p), NEW r \in Assets!ToSet(p.routes)
  PROVE  Assets!Route(p, r.id) = r /\ \A s \in Assets!ToSet(p.routes) : s.id = r.id => s = r
<1> DEFINE ids == {s.id : s \in Assets!ToSet(p.routes)}
           f == [i \in 1..Len(p.routes) |-> p.routes[i].id]
<1>1. Cardinality(ids) = Len(p.routes)
  BY DEF Assets!ValidateProfile, Assets!Cardinality, Cardinality, Assets!IsFiniteSet, IsFiniteSet
<1>2. Len(p.routes) \in Nat /\ DOMAIN p.routes = 1..Len(p.routes)
  BY DEF Listed
<1>3. f \in Surjection(1..Len(p.routes), ids)
  BY <1>2 DEF Surjection, Assets!ToSet
<1> HIDE DEF ids
<1>4. f \in Injection(1..Len(p.routes), ids)
  <2>1. IsFiniteSet(1..Len(p.routes)) /\ Cardinality(1..Len(p.routes)) = Len(p.routes)
    BY <1>2, FS_Interval
  <2> HIDE DEF f
  <2>. QED BY <1>1, <1>3, <2>1, FS_Surjection
<1>5. \A s \in Assets!ToSet(p.routes), t \in Assets!ToSet(p.routes) : s.id = t.id => s = t
  <2>1. \A i, j \in 1..Len(p.routes) : f[i] = f[j] => i = j
    BY <1>4 DEF Injection, IsInjective
  <2>. QED BY <1>2, <2>1 DEF Assets!ToSet
<1>. QED BY <1>5 DEF Assets!Route

(* A catalog that loads can plan every boundary its profiles declare       *)
(* (ValidateCatalog and ValidateProfile against ContractSurfaceForRoute).  *)
THEOREM LoadedCatalogsAlwaysPlan ==
  ASSUME NEW manifest, IsManifest(manifest)
  PROVE  Assets!LoadedCatalogsPlan(manifest)
<1> DEFINE got == Assets!LoadCatalog(manifest)
           profiles == {a \in manifest.assets : a.kind = "profile"}
           all == Assets!RepositoryAssets(got.catalog)
<1>1. SUFFICES ASSUME got.ok
      PROVE  /\ \A p \in got.catalog.profiles : p.language = "go" =>
                  \A rule \in Assets!ToSet(p.ownership) : \A id \in Assets!ToSet(rule.owners) :
                    \E s \in Assets!ContractSurfaceForRoute(p, id) :
                      /\ Assets!ContractPathOwned(p, id, Append(s, "port.go")) /\ (\E t \in Assets!Route(p, id).targets : Assets!IsPrefix(Assets!Fixed(t), s))
                      /\ \A r \in Assets!ToSet(p.routes) : id \in Assets!ToSet(r.mayUse) => Assets!ContractDependencyAllowed(p, r.id, id)
             /\ \A a, b \in all : a # b /\ a.kind = "skill" => \A file \in DOMAIN b.files : ~Assets!IsPrefix(a.target, Assets!FilePath(b, file))
  BY DEF Assets!LoadedCatalogsPlan
<1>2. Assets!ValidateCatalog(got.catalog) /\ got.catalog.assets = manifest.assets /\ got.catalog.profiles = {a.profile : a \in profiles}
  BY <1>1 DEF Assets!LoadCatalog
<1> HIDE DEF got
<1>3. ASSUME NEW p \in got.catalog.profiles, p.language = "go", NEW rule \in Assets!ToSet(p.ownership), NEW id \in Assets!ToSet(rule.owners)
      PROVE  \E s \in Assets!ContractSurfaceForRoute(p, id) :
               /\ Assets!ContractPathOwned(p, id, Append(s, "port.go")) /\ (\E t \in Assets!Route(p, id).targets : Assets!IsPrefix(Assets!Fixed(t), s))
               /\ \A r \in Assets!ToSet(p.routes) : id \in Assets!ToSet(r.mayUse) => Assets!ContractDependencyAllowed(p, r.id, id)
  <2>1. /\ Assets!ValidateProfile(p) /\ Listed(p.routes)
        /\ \A r \in Assets!ToSet(p.routes) : Listed(r.surface) /\ \A t \in r.targets : Listed(t)
    BY <1>2 DEF Assets!ValidateCatalog, IsManifest
  <2>2. Assets!ContractSurfaceForRoute(p, id) # {}
    BY <1>3, <2>1 DEF Assets!ValidateProfile, Assets!ValidateOwnership
  <2>3. PICK route \in Assets!ToSet(p.routes) : route.id = id /\ route.surface # <<>> /\ route.surface \in Assets!ContractSurfaceForRoute(p, id)
    BY <2>2 DEF Assets!ContractSurfaceForRoute
  <2>4. /\ Assets!validateTargetPattern(route.surface) /\ Assets!surfaceMatchesRoute(route.surface, route.targets)
    BY <2>1, <2>3 DEF Assets!ValidateProfile, Assets!ValidateRoute
  <2>5. PICK s : s = route.surface
    OBVIOUS
  <2>6. Listed(s) /\ s # <<>> /\ ".." \notin Assets!ToSet(s)
    BY <2>1, <2>3, <2>4, <2>5 DEF Assets!validateTargetPattern, Assets!validateRelativePath
  <2>7. Assets!ContractPathOwned(p, id, Append(s, "port.go"))
    <3>1. Assets!IsPrefix(s, Append(s, "port.go")) /\ Assets!ToSet(Append(s, "port.go")) = Assets!ToSet(s) \cup {"port.go"} /\ Len(Append(s, "port.go")) = Len(s) + 1
      BY <2>6, PrefixesAre
    <3>2. Append(s, "port.go") # <<>>
      BY <2>6, <3>1 DEF Listed
    <3>3. Assets!pathUnder(Append(s, "port.go"), route.surface)
      BY <2>5, <2>6, <3>1 DEF Assets!pathUnder
    <3>4. Assets!validateRelativePath(Append(s, "port.go"))
      BY <2>6, <3>1, <3>2 DEF Assets!validateRelativePath
    <3>. QED BY <1>3, <2>3, <3>3, <3>4 DEF Assets!ContractPathOwned
  <2>8. \E t \in Assets!Route(p, id).targets : Assets!IsPrefix(Assets!Fixed(t), s)
    <3>1. Assets!Route(p, id) = route
      BY <2>1, <2>3, RoutesAreUnique
    <3>2. PICK t \in route.targets : Assets!Fixed(t) = s \/ Assets!pathUnder(s, Assets!Fixed(t))
      BY <2>4, <2>5 DEF Assets!surfaceMatchesRoute
    <3>3. Assets!IsPrefix(Assets!Fixed(t), s)
      BY <2>6, <3>2, PrefixesAre DEF Assets!pathUnder
    <3>. QED BY <3>1, <3>3
  <2>9. ASSUME NEW r \in Assets!ToSet(p.routes), id \in Assets!ToSet(r.mayUse)
        PROVE  Assets!ContractDependencyAllowed(p, r.id, id)
    BY <2>1, <2>9, RoutesAreUnique DEF Assets!ContractDependencyAllowed
  <2>. QED BY <2>3, <2>5, <2>7, <2>8, <2>9
<1>4. ASSUME NEW a \in all, NEW b \in all, a # b, a.kind = "skill", NEW file \in DOMAIN b.files
      PROVE  ~Assets!IsPrefix(a.target, Assets!FilePath(b, file))
  <2>1. b.kind \in {"skill", "profile"} /\ Listed(a.target) /\ Listed(b.target)
    BY <1>2 DEF Assets!ValidateCatalog, Assets!ValidateAsset, Assets!RepositoryAssets, IsManifest
  <2>2. ~Assets!IsPrefix(a.target, b.target) /\ (b.kind = "skill" => ~Assets!IsPrefix(b.target, a.target))
    BY <1>2, <1>4 DEF Assets!ValidateCatalog
  <2>3. CASE b.kind = "profile"
    BY <2>2, <2>3 DEF Assets!FilePath
  <2>4. CASE b.kind = "skill"
    <3>1. PICK f : f = Append(b.target, file)
      OBVIOUS
    <3>2. Listed(f) /\ Len(f) = Len(b.target) + 1 /\ \A i \in 1..Len(b.target) : f[i] = b.target[i]
      BY <2>1, <3>1, PrefixesAre
    <3>3. Len(a.target) \in Nat /\ Len(b.target) \in Nat
      BY <2>1 DEF Listed
    <3>4. SUFFICES ASSUME Assets!IsPrefix(a.target, f) PROVE FALSE
      BY <2>4, <3>1 DEF Assets!FilePath
    <3>5. Len(a.target) <= Len(f) /\ \A i \in 1..Len(a.target) : a.target[i] = f[i]
      <4>1. PICK t : t = a.target
        OBVIOUS
      <4>2. Listed(t) /\ Assets!IsPrefix(t, f)
        BY <2>1, <3>4, <4>1
      <4>3. Len(t) <= Len(f) /\ \A i \in 1..Len(t) : t[i] = f[i]
        BY <3>2, <4>2, PrefixesAre
      <4>. QED BY <4>1, <4>3
    <3>6. CASE Len(a.target) <= Len(b.target)
      <4>1. \A i \in 1..Len(a.target) : a.target[i] = b.target[i]
        BY <3>2, <3>3, <3>5, <3>6
      <4>2. Assets!IsPrefix(a.target, b.target)
        BY <2>1, <3>6, <4>1, PrefixesAre
      <4>. QED BY <2>2, <4>2
    <3>7. CASE Len(a.target) = Len(b.target) + 1
      <4>1. \A i \in 1..Len(b.target) : b.target[i] = a.target[i]
        BY <3>2, <3>3, <3>5, <3>7
      <4>2. Assets!IsPrefix(b.target, a.target)
        <5>1. Len(b.target) <= Len(a.target)
          BY <3>3, <3>7
        <5>. QED BY <2>1, <4>1, <5>1, PrefixesAre
      <4>. QED BY <2>2, <2>4, <4>2
    <3>. QED BY <3>2, <3>3, <3>5, <3>6, <3>7
  <2>. QED BY <2>1, <2>3, <2>4
<1>. QED BY <1>3, <1>4

-----------------------------------------------------------------------------
(***************************************************************************)
(* Architecture CURRENT: the catalog.                                      *)
(***************************************************************************)
(* The relations of one service, and the catalog they make.                *)
DirectsOf(services, s) == {directManifestRelation(services, s, "", "outbound_dependency", i) : i \in s.service.outbound}
InteractionsOf(services, s, o, explicit) ==
  {directManifestRelation(services, s, o.id, "operation_interaction", i) : i \in {x \in o.interactions : ~(explicit /\ IsUnassertedInteraction(x))}}
EmissionsOf(services, s, o, explicit) == UNION {addEventProducerRelations(services, s, o.id, e, explicit) : e \in o.emitted}
UsesOf(services, s, explicit) == UNION {addConsumerRelations(s, ref, "contract", ProvidersOf(services, ref), explicit) : ref \in s.service.consumed}
OffersOf(services, s, explicit) ==
  UNION {addProducerUnknownRelation(s, ref, "contract", "", explicit) : ref \in {r \in s.service.produced : ~\E x \in services : r \in x.service.consumed}}
HearsOf(services, s, explicit) == UNION {addConsumerRelations(s, ref, "event", PublishersOf(services, ref), explicit) : ref \in s.service.subscribed}
SendsOf(services, s, explicit) ==
  UNION {addProducerUnknownRelation(s, ref, "event", "", explicit) : ref \in {r \in s.service.published : Subscribers(services, r) = {}}}
RelationsOf(services, s, explicit) ==
  DirectsOf(services, s) \cup (UNION {InteractionsOf(services, s, o, explicit) \cup EmissionsOf(services, s, o, explicit) : o \in s.operations}) \cup
  UsesOf(services, s, explicit) \cup OffersOf(services, s, explicit) \cup HearsOf(services, s, explicit) \cup SendsOf(services, s, explicit)
AllOf(sources)      == {buildCatalogService(sources[i]) : i \in DOMAIN sources}
ExplicitOf(sources) == sources # <<>> /\ \A i \in DOMAIN sources : sources[i].pinned

LEMMA CatalogIs ==
  ASSUME NEW sources, BuildCatalog(sources).ok
  PROVE  LET all == AllOf(sources)
             live == {s \in all : s.covered}
             relations == Merged(UNION {RelationsOf(live, s, ExplicitOf(sources)) : s \in live})
         IN  /\ BuildCatalog(sources) = [ok |-> TRUE, services |-> all, relations |-> relations]
             /\ ValidateStableGraphIDs(all, relations)
             /\ \A i \in DOMAIN sources : validateCatalogSource(sources[i])
             /\ \A i, j \in DOMAIN sources : sources[i].id = sources[j].id => i = j
<1> DEFINE all == AllOf(sources)
           live == {s \in all : s.covered}
           relations == Merged(UNION {RelationsOf(live, s, ExplicitOf(sources)) : s \in live})
<1>1. /\ BuildCatalog(sources) = CatalogOf(all, ExplicitOf(sources))
      /\ \A i \in DOMAIN sources : validateCatalogSource(sources[i])
      /\ \A i, j \in DOMAIN sources : sources[i].id = sources[j].id => i = j
  BY DEF BuildCatalog, AllOf, ExplicitOf
<1>2. buildCatalogRelations(all, ExplicitOf(sources)) = relations
  <2> DEFINE explicit == ExplicitOf(sources)
             Consumed(ref) == \E x \in live : ref \in x.service.consumed
             Of(s) ==
        {directManifestRelation(live, s, "", "outbound_dependency", i) : i \in s.service.outbound} \cup
        (UNION {{directManifestRelation(live, s, o.id, "operation_interaction", i) : i \in {x \in o.interactions : ~(explicit /\ IsUnassertedInteraction(x))}} \cup
               UNION {addEventProducerRelations(live, s, o.id, e, explicit) : e \in o.emitted} : o \in s.operations}) \cup
        (UNION {addConsumerRelations(s, ref, "contract", ProvidersOf(live, ref), explicit) : ref \in s.service.consumed}) \cup
        (UNION {addProducerUnknownRelation(s, ref, "contract", "", explicit) : ref \in {r \in s.service.produced : ~Consumed(r)}}) \cup
        (UNION {addConsumerRelations(s, ref, "event", PublishersOf(live, ref), explicit) : ref \in s.service.subscribed}) \cup
        UNION {addProducerUnknownRelation(s, ref, "event", "", explicit) : ref \in {r \in s.service.published : Subscribers(live, r) = {}}}
  <2>1. buildCatalogRelations(all, explicit) = Merged(UNION {Of(s) : s \in live})
    BY DEF buildCatalogRelations
  <2>2. ASSUME NEW s PROVE Of(s) = RelationsOf(live, s, explicit)
    <3>1. UNION {InteractionsOf(live, s, o, explicit) \cup EmissionsOf(live, s, o, explicit) : o \in s.operations} =
            UNION {{directManifestRelation(live, s, o.id, "operation_interaction", i) : i \in {x \in o.interactions : ~(explicit /\ IsUnassertedInteraction(x))}} \cup
                   (UNION {addEventProducerRelations(live, s, o.id, e, explicit) : e \in o.emitted}) : o \in s.operations}
      BY DEF InteractionsOf, EmissionsOf
    <3>. QED BY <3>1 DEF RelationsOf, DirectsOf, UsesOf, OffersOf, HearsOf, SendsOf
  <2> HIDE DEF Of, live, all
  <2>. QED BY <2>1, <2>2
<1>3. CatalogOf(all, ExplicitOf(sources)).ok
  BY <1>1
<1> HIDE DEF all, relations
<1>4. /\ CatalogOf(all, ExplicitOf(sources)) = [ok |-> TRUE, services |-> all, relations |-> relations]
      /\ ValidateStableGraphIDs(all, relations)
  BY <1>2, <1>3 DEF CatalogOf
<1>. QED BY <1>1, <1>4 DEF all, relations

(* A relation keeps its ends when relations of one edge are merged.        *)
IsRelation(r) ==
  r = [type |-> r.type, source |-> r.source, target |-> r.target, external |-> r.external, op |-> r.op, transport |-> r.transport,
       contract |-> r.contract, direction |-> r.direction, sure |-> r.sure, proven |-> r.proven]
Ends(r, q) ==
  /\ r.type = q.type /\ r.source = q.source /\ r.target = q.target /\ r.external = q.external /\ r.op = q.op
  /\ r.transport = q.transport /\ r.contract = q.contract /\ r.direction = q.direction

LEMMA MergedKeepsEnds ==
  ASSUME NEW R, \A r \in R : IsRelation(r)
  PROVE  /\ \A r \in R : \E q \in Merged(R) : Ends(q, r)
         /\ \A q \in Merged(R) : \E r \in R : Ends(q, r)
<1> DEFINE Of(r) == [r EXCEPT !.sure = \E q \in R : SameEdge(q, r) /\ q.sure, !.proven = \E q \in R : SameEdge(q, r) /\ q.proven]
<1>1. Merged(R) = {Of(r) : r \in R}
  BY DEF Merged
<1>2. ASSUME NEW r, IsRelation(r), NEW x, NEW y
      PROVE  Ends([r EXCEPT !.sure = x, !.proven = y], r)
  <2>1. PICK t, s, g, e, o, p, c, d, u, v :
          r = [type |-> t, source |-> s, target |-> g, external |-> e, op |-> o, transport |-> p, contract |-> c, direction |-> d, sure |-> u, proven |-> v]
    BY <1>2 DEF IsRelation
  <2>. QED BY <2>1 DEF Ends
<1>3. \A r \in R : Ends(Of(r), r)
  BY <1>2
<1> HIDE DEF Of
<1>. QED BY <1>1, <1>3

(* Every relation of a service has one of five origins.                    *)
RecordOf(type, source, target, external, op, transport, contract, direction, sure, proven) ==
  [type |-> type, source |-> source, target |-> target, external |-> external, op |-> op, transport |-> transport,
   contract |-> contract, direction |-> direction, sure |-> sure, proven |-> proven]
Direct(services, s, r) ==
  /\ r.type \in {"outbound_dependency", "operation_interaction"}
  /\ \E i \in s.service.outbound \cup UNION {o.interactions : o \in s.operations} :
       \E op : r = RecordOf(r.type, s.id, resolveProject(services, i.target), i.target, op, i.transport, i.contract, i.direction, i.sure, i.proven)
Consumer(services, s, r) ==
  \/ \E ref \in s.service.consumed : \E p \in ProvidersOf(services, ref) : r = Relation("contract", s.id, p, "", "", ref[1], ref[2], "inbound")
  \/ \E ref \in s.service.subscribed : \E p \in PublishersOf(services, ref) : r = Relation("event", s.id, p, "", "", ref[1], ref[2], "inbound")
Producer(services, s, r) ==
  \E o \in s.operations : \E ref \in o.emitted : \E x \in Subscribers(services, ref) :
    r = Relation("event", x.id, s.id, "", x.op, ref[1], ref[2], "inbound")
Unknown(s, r) ==
  \E type \in {"contract", "event"} : \E op, ref :
    \/ r = Relation(type, s.id, "", "unknown provider", op, ref[1], ref[2], "inbound")
    \/ r = Relation(type, s.id, "", "unknown consumer", op, ref[1], ref[2], "outbound")

LEMMA DirectIs ==
  ASSUME NEW services, NEW s, NEW op, NEW type, NEW i
  PROVE  directManifestRelation(services, s, op, type, i) =
           RecordOf(type, s.id, resolveProject(services, i.target), i.target, op, i.transport, i.contract, i.direction, i.sure, i.proven)
<1>1. ASSUME NEW a1, NEW a2, NEW a3, NEW a4, NEW a5, NEW a6, NEW a7, NEW a8, NEW x, NEW y
      PROVE  [Relation(a1, a2, a3, a4, a5, a6, a7, a8) EXCEPT !.sure = x, !.proven = y] = RecordOf(a1, a2, a3, a4, a5, a6, a7, a8, x, y)
  <2>1. Relation(a1, a2, a3, a4, a5, a6, a7, a8) = RecordOf(a1, a2, a3, a4, a5, a6, a7, a8, TRUE, TRUE)
    BY DEF Relation, RecordOf
  <2>2. ASSUME NEW u, NEW v PROVE [RecordOf(a1, a2, a3, a4, a5, a6, a7, a8, u, v) EXCEPT !.sure = x] = RecordOf(a1, a2, a3, a4, a5, a6, a7, a8, x, v)
    BY DEF RecordOf
  <2>3. ASSUME NEW u, NEW v PROVE [RecordOf(a1, a2, a3, a4, a5, a6, a7, a8, u, v) EXCEPT !.proven = y] = RecordOf(a1, a2, a3, a4, a5, a6, a7, a8, u, y)
    BY DEF RecordOf
  <2>4. ASSUME NEW r PROVE [r EXCEPT !.sure = x, !.proven = y] = [[r EXCEPT !.sure = x] EXCEPT !.proven = y]
    OBVIOUS
  <2>5. [RecordOf(a1, a2, a3, a4, a5, a6, a7, a8, TRUE, TRUE) EXCEPT !.sure = x, !.proven = y] = RecordOf(a1, a2, a3, a4, a5, a6, a7, a8, x, y)
    <3>1. PICK r : r = RecordOf(a1, a2, a3, a4, a5, a6, a7, a8, TRUE, TRUE)
      OBVIOUS
    <3>2. PICK z : z = [r EXCEPT !.sure = x]
      OBVIOUS
    <3>3. z = RecordOf(a1, a2, a3, a4, a5, a6, a7, a8, x, TRUE)
      BY <2>2, <3>1, <3>2
    <3>4. [z EXCEPT !.proven = y] = RecordOf(a1, a2, a3, a4, a5, a6, a7, a8, x, y)
      BY <2>3, <3>3
    <3>5. [r EXCEPT !.sure = x, !.proven = y] = [z EXCEPT !.proven = y]
      BY <2>4, <3>2
    <3>. QED BY <3>1, <3>4, <3>5
  <2>. QED BY <2>1, <2>5
<1>. QED BY <1>1 DEF directManifestRelation

LEMMA RelationOrigins ==
  ASSUME NEW services, NEW s, NEW explicit, NEW r \in RelationsOf(services, s, explicit)
  PROVE  Direct(services, s, r) \/ Consumer(services, s, r) \/ Producer(services, s, r) \/ Unknown(s, r)
<1> DEFINE Consumed(ref) == \E x \in services : ref \in x.service.consumed
           Asserted(o) == {x \in o.interactions : ~(explicit /\ IsUnassertedInteraction(x))}
<1>1. \/ \E i \in s.service.outbound : r = directManifestRelation(services, s, "", "outbound_dependency", i)
      \/ \E o \in s.operations : \E i \in Asserted(o) : r = directManifestRelation(services, s, o.id, "operation_interaction", i)
      \/ \E o \in s.operations : \E e \in o.emitted : r \in addEventProducerRelations(services, s, o.id, e, explicit)
      \/ \E ref \in s.service.consumed : r \in addConsumerRelations(s, ref, "contract", ProvidersOf(services, ref), explicit)
      \/ \E ref \in s.service.produced : r \in addProducerUnknownRelation(s, ref, "contract", "", explicit)
      \/ \E ref \in s.service.subscribed : r \in addConsumerRelations(s, ref, "event", PublishersOf(services, ref), explicit)
      \/ \E ref \in s.service.published : r \in addProducerUnknownRelation(s, ref, "event", "", explicit)
  <2>1. r \in DirectsOf(services, s) => \E i \in s.service.outbound : r = directManifestRelation(services, s, "", "outbound_dependency", i)
    BY DEF DirectsOf
  <2>2. ASSUME NEW o \in s.operations, r \in InteractionsOf(services, s, o, explicit)
        PROVE  \E i \in Asserted(o) : r = directManifestRelation(services, s, o.id, "operation_interaction", i)
    BY <2>2 DEF InteractionsOf
  <2>3. ASSUME NEW o \in s.operations, r \in EmissionsOf(services, s, o, explicit)
        PROVE  \E e \in o.emitted : r \in addEventProducerRelations(services, s, o.id, e, explicit)
    BY <2>3 DEF EmissionsOf
  <2>4. r \in UsesOf(services, s, explicit) => \E ref \in s.service.consumed : r \in addConsumerRelations(s, ref, "contract", ProvidersOf(services, ref), explicit)
    BY DEF UsesOf
  <2>5. r \in OffersOf(services, s, explicit) => \E ref \in s.service.produced : r \in addProducerUnknownRelation(s, ref, "contract", "", explicit)
    BY DEF OffersOf
  <2>6. r \in HearsOf(services, s, explicit) => \E ref \in s.service.subscribed : r \in addConsumerRelations(s, ref, "event", PublishersOf(services, ref), explicit)
    BY DEF HearsOf
  <2>7. r \in SendsOf(services, s, explicit) => \E ref \in s.service.published : r \in addProducerUnknownRelation(s, ref, "event", "", explicit)
    BY DEF SendsOf
  <2> HIDE DEF Asserted
  <2>8. \/ r \in DirectsOf(services, s) \/ r \in UsesOf(services, s, explicit) \/ r \in OffersOf(services, s, explicit)
        \/ r \in HearsOf(services, s, explicit) \/ r \in SendsOf(services, s, explicit)
        \/ r \in UNION {InteractionsOf(services, s, o, explicit) \cup EmissionsOf(services, s, o, explicit) : o \in s.operations}
    BY DEF RelationsOf
  <2>9. r \in UNION {InteractionsOf(services, s, o, explicit) \cup EmissionsOf(services, s, o, explicit) : o \in s.operations} =>
          \E o \in s.operations : r \in InteractionsOf(services, s, o, explicit) \/ r \in EmissionsOf(services, s, o, explicit)
    OBVIOUS
  <2>. QED BY <2>1, <2>2, <2>3, <2>4, <2>5, <2>6, <2>7, <2>8, <2>9
<1>2. ASSUME NEW i \in s.service.outbound, r = directManifestRelation(services, s, "", "outbound_dependency", i)
      PROVE  Direct(services, s, r)
  <2>1. r = RecordOf("outbound_dependency", s.id, resolveProject(services, i.target), i.target, "", i.transport, i.contract, i.direction, i.sure, i.proven)
    BY <1>2, DirectIs
  <2>2. r.type = "outbound_dependency"
    BY <2>1 DEF RecordOf
  <2>. QED BY <2>1, <2>2 DEF Direct
<1>3. ASSUME NEW o \in s.operations, NEW i \in Asserted(o), r = directManifestRelation(services, s, o.id, "operation_interaction", i)
      PROVE  Direct(services, s, r)
  <2>1. r = RecordOf("operation_interaction", s.id, resolveProject(services, i.target), i.target, o.id, i.transport, i.contract, i.direction, i.sure, i.proven)
    BY <1>3, DirectIs
  <2>2. r.type = "operation_interaction"
    BY <2>1 DEF RecordOf
  <2>3. i \in UNION {x.interactions : x \in s.operations}
    OBVIOUS
  <2>. QED BY <2>1, <2>2, <2>3 DEF Direct
<1>4. ASSUME NEW o \in s.operations, NEW e \in o.emitted, r \in addEventProducerRelations(services, s, o.id, e, explicit)
      PROVE  Producer(services, s, r) \/ Unknown(s, r)
  <2>1. CASE Subscribers(services, e) = {}
    BY <1>4, <2>1 DEF addEventProducerRelations, addProducerUnknownRelation, Unknown
  <2>2. CASE Subscribers(services, e) # {}
    BY <1>4, <2>2 DEF addEventProducerRelations, Producer
  <2>. QED BY <2>1, <2>2
<1>5. ASSUME NEW ref \in s.service.consumed, r \in addConsumerRelations(s, ref, "contract", ProvidersOf(services, ref), explicit)
      PROVE  Consumer(services, s, r) \/ Unknown(s, r)
  BY <1>5 DEF addConsumerRelations, Consumer, Unknown
<1>6. ASSUME NEW ref \in s.service.subscribed, r \in addConsumerRelations(s, ref, "event", PublishersOf(services, ref), explicit)
      PROVE  Consumer(services, s, r) \/ Unknown(s, r)
  BY <1>6 DEF addConsumerRelations, Consumer, Unknown
<1>7. ASSUME NEW ref, NEW type \in {"contract", "event"}, r \in addProducerUnknownRelation(s, ref, type, "", explicit)
      PROVE  Unknown(s, r)
  BY <1>7 DEF addProducerUnknownRelation, Unknown
<1> HIDE DEF Asserted
<1>. QED BY <1>1, <1>2, <1>3, <1>4, <1>5, <1>6, <1>7

LEMMA RelationsAreRecords ==
  ASSUME NEW services, NEW s, NEW explicit, NEW r \in RelationsOf(services, s, explicit)
  PROVE  IsRelation(r)
<1>1. ASSUME NEW a1, NEW a2, NEW a3, NEW a4, NEW a5, NEW a6, NEW a7, NEW a8, NEW a9, NEW a10,
             r = RecordOf(a1, a2, a3, a4, a5, a6, a7, a8, a9, a10)
      PROVE  IsRelation(r)
  BY <1>1 DEF RecordOf, IsRelation
<1>2. ASSUME NEW a1, NEW a2, NEW a3, NEW a4, NEW a5, NEW a6, NEW a7, NEW a8
      PROVE  Relation(a1, a2, a3, a4, a5, a6, a7, a8) = RecordOf(a1, a2, a3, a4, a5, a6, a7, a8, TRUE, TRUE)
  BY DEF Relation, RecordOf
<1>3. CASE Direct(services, s, r)
  BY <1>1, <1>3 DEF Direct
<1>4. CASE Consumer(services, s, r)
  BY <1>1, <1>2, <1>4 DEF Consumer
<1>5. CASE Producer(services, s, r)
  BY <1>1, <1>2, <1>5 DEF Producer
<1>6. CASE Unknown(s, r)
  BY <1>1, <1>2, <1>6 DEF Unknown
<1>. QED BY <1>3, <1>4, <1>5, <1>6, RelationOrigins
LEMMA CatalogServiceIs ==
  ASSUME NEW s
  PROVE  LET c == buildCatalogService(s)
         IN  /\ c.id = s.id /\ c.name = s.name /\ c.service = s.service /\ c.covered = s.covered /\ c.operations = ToSet(s.operations)
             /\ c.reference = ReferenceOf(s) /\ c.current = sourceCurrent(s)
BY DEF buildCatalogService

(* Every source of a catalog has a name of its own.                        *)
LEMMA SourcesAreNamed ==
  ASSUME NEW sources, BuildCatalog(sources).ok
  PROVE  /\ \A s \in ToSet(sources) : s.id # "" /\ s.identity # "" /\ s.sameProject /\ s.sameCommit
         /\ \A s, t \in ToSet(sources) : s.id = t.id => s = t
         /\ AllOf(sources) = {buildCatalogService(s) : s \in ToSet(sources)}
<1>1. ToSet(sources) = {sources[i] : i \in DOMAIN sources}
  BY DEF ToSet
<1>2. /\ \A i \in DOMAIN sources : validateCatalogSource(sources[i])
      /\ \A i, j \in DOMAIN sources : sources[i].id = sources[j].id => i = j
  BY CatalogIs
<1>3. \A s \in ToSet(sources) : \E i \in DOMAIN sources : s = sources[i]
  BY <1>1
<1>4. AllOf(sources) = {buildCatalogService(s) : s \in ToSet(sources)}
  BY <1>1 DEF AllOf
<1>5. \A i \in DOMAIN sources : sources[i].id # "" /\ sources[i].identity # "" /\ sources[i].sameProject /\ sources[i].sameCommit
  BY <1>2 DEF validateCatalogSource
<1>6. \A s \in ToSet(sources) : s.id # "" /\ s.identity # "" /\ s.sameProject /\ s.sameCommit
  BY <1>3, <1>5
<1>7. \A s, t \in ToSet(sources) : s.id = t.id => s = t
  BY <1>2, <1>3
<1>. QED BY <1>4, <1>6, <1>7

LiveOf(sources) == {s \in AllOf(sources) : s.covered}

(* The source a live service comes from.                                   *)
LEMMA LiveFrom ==
  ASSUME NEW sources, BuildCatalog(sources).ok, NEW x \in LiveOf(sources)
  PROVE  \E t \in ToSet(sources) :
           t.covered /\ x = buildCatalogService(t) /\ x.id = t.id /\ x.service = t.service /\ x.operations = ToSet(t.operations)
<1>1. PICK t \in ToSet(sources) : x = buildCatalogService(t)
  <2>1. x \in AllOf(sources)
    BY DEF LiveOf
  <2>2. AllOf(sources) = {buildCatalogService(t) : t \in ToSet(sources)}
    BY SourcesAreNamed
  <2>. QED BY <2>1, <2>2
<1>2. x.covered
  BY DEF LiveOf
<1>. QED BY <1>1, <1>2, CatalogServiceIs

(* A live service is that of one covered source.                           *)
LEMMA LiveIs ==
  ASSUME NEW sources, BuildCatalog(sources).ok
  PROVE  /\ \A x \in LiveOf(sources) : \E t \in ToSet(sources) :
               t.covered /\ x = buildCatalogService(t) /\ x.id = t.id /\ x.service = t.service /\ x.operations = ToSet(t.operations)
         /\ \A t \in ToSet(sources) : t.covered => buildCatalogService(t) \in LiveOf(sources)
         /\ \A x, y \in LiveOf(sources) : x.id = y.id => x = y
         /\ \A x \in LiveOf(sources) : x.id # ""
<1>1. ASSUME NEW x \in LiveOf(sources)
      PROVE  \E t \in ToSet(sources) : t.covered /\ x = buildCatalogService(t) /\ x.id = t.id /\ x.service = t.service /\ x.operations = ToSet(t.operations)
  BY LiveFrom
<1>2. ASSUME NEW t \in ToSet(sources), t.covered PROVE buildCatalogService(t) \in LiveOf(sources)
  <2>1. buildCatalogService(t).covered /\ buildCatalogService(t) \in AllOf(sources)
    BY <1>2, SourcesAreNamed, CatalogServiceIs
  <2>. QED BY <2>1 DEF LiveOf
<1>3. ASSUME NEW x \in LiveOf(sources), NEW y \in LiveOf(sources), x.id = y.id PROVE x = y
  <2>1. PICK t \in ToSet(sources) : x = buildCatalogService(t) /\ x.id = t.id
    BY <1>1
  <2>2. PICK u \in ToSet(sources) : y = buildCatalogService(u) /\ y.id = u.id
    BY <1>1
  <2>3. t = u
    BY <1>3, <2>1, <2>2, SourcesAreNamed
  <2>. QED BY <2>1, <2>2, <2>3
<1>4. ASSUME NEW x \in LiveOf(sources) PROVE x.id # ""
  <2>1. PICK t \in ToSet(sources) : x.id = t.id
    BY <1>1
  <2>. QED BY <2>1, SourcesAreNamed
<1>. QED BY <1>1, <1>2, <1>3, <1>4

LEMMA OriginsTell ==
  ASSUME NEW services, NEW s, NEW r
  PROVE  /\ Direct(services, s, r) => r.type \notin {"contract", "event"}
         /\ Consumer(services, s, r) =>
              /\ r.source = s.id
              /\ \/ r.type = "contract" /\ \E ref \in s.service.consumed : r.target \in ProvidersOf(services, ref) /\ r.transport = ref[1] /\ r.contract = ref[2]
                 \/ r.type = "event" /\ \E ref \in s.service.subscribed : r.target \in PublishersOf(services, ref) /\ r.transport = ref[1] /\ r.contract = ref[2]
         /\ Producer(services, s, r) =>
              /\ r.type = "event" /\ r.target = s.id
              /\ \E o \in s.operations : \E ref \in o.emitted : r.transport = ref[1] /\ r.contract = ref[2]
         /\ Unknown(s, r) => r.target = "" /\ r.source = s.id
<1>1. Direct(services, s, r) => r.type \notin {"contract", "event"}
  BY DEF Direct
<1>2. ASSUME Consumer(services, s, r)
      PROVE  /\ r.source = s.id
             /\ \/ r.type = "contract" /\ \E ref \in s.service.consumed : r.target \in ProvidersOf(services, ref) /\ r.transport = ref[1] /\ r.contract = ref[2]
                \/ r.type = "event" /\ \E ref \in s.service.subscribed : r.target \in PublishersOf(services, ref) /\ r.transport = ref[1] /\ r.contract = ref[2]
  <2>1. ASSUME NEW ref \in s.service.consumed, NEW p \in ProvidersOf(services, ref), r = Relation("contract", s.id, p, "", "", ref[1], ref[2], "inbound")
        PROVE  r.source = s.id /\ r.type = "contract" /\ r.target \in ProvidersOf(services, ref) /\ r.transport = ref[1] /\ r.contract = ref[2]
    BY <2>1 DEF Relation
  <2>2. ASSUME NEW ref \in s.service.subscribed, NEW p \in PublishersOf(services, ref), r = Relation("event", s.id, p, "", "", ref[1], ref[2], "inbound")
        PROVE  r.source = s.id /\ r.type = "event" /\ r.target \in PublishersOf(services, ref) /\ r.transport = ref[1] /\ r.contract = ref[2]
    BY <2>2 DEF Relation
  <2>. QED BY <1>2, <2>1, <2>2 DEF Consumer
<1>3. ASSUME Producer(services, s, r)
      PROVE  r.type = "event" /\ r.target = s.id /\ \E o \in s.operations : \E ref \in o.emitted : r.transport = ref[1] /\ r.contract = ref[2]
  <2>1. ASSUME NEW o \in s.operations, NEW ref \in o.emitted, NEW x \in Subscribers(services, ref),
               r = Relation("event", x.id, s.id, "", x.op, ref[1], ref[2], "inbound")
        PROVE  r.type = "event" /\ r.target = s.id /\ r.transport = ref[1] /\ r.contract = ref[2]
    BY <2>1 DEF Relation
  <2>. QED BY <1>3, <2>1 DEF Producer
<1>4. ASSUME Unknown(s, r) PROVE r.target = "" /\ r.source = s.id
  <2>1. ASSUME NEW type, NEW external, NEW op, NEW ref, NEW direction, r = Relation(type, s.id, "", external, op, ref[1], ref[2], direction)
        PROVE  r.target = "" /\ r.source = s.id
    BY <2>1 DEF Relation
  <2>. QED BY <1>4, <2>1 DEF Unknown
<1>. QED BY <1>1, <1>2, <1>3, <1>4

LEMMA EdgesAre ==
  ASSUME NEW sources, BuildCatalog(sources).ok, NEW type, NEW from, NEW to, NEW ref
  PROVE  EdgeIn(BuildCatalog(sources), type, from, to, ref) <=>
           \E x \in LiveOf(sources) : \E r \in RelationsOf(LiveOf(sources), x, ExplicitOf(sources)) :
             r.type = type /\ r.source = from /\ r.target = to /\ <<r.transport, r.contract>> = ref
<1> DEFINE live == LiveOf(sources)
           R == UNION {RelationsOf(live, s, ExplicitOf(sources)) : s \in live}
           Meant(r) == r.type = type /\ r.source = from /\ r.target = to /\ <<r.transport, r.contract>> = ref
<1>1. BuildCatalog(sources).relations = Merged(R)
  <2>1. BuildCatalog(sources) = [ok |-> TRUE, services |-> AllOf(sources), relations |-> Merged(R)]
    BY CatalogIs DEF LiveOf
  <2>. QED BY <2>1
<1>2. \A r \in R : \E x \in live : r \in RelationsOf(live, x, ExplicitOf(sources))
  OBVIOUS
<1>3. \A r \in R : IsRelation(r)
  BY <1>2, RelationsAreRecords
<1>4. \A x \in live : \A r \in RelationsOf(live, x, ExplicitOf(sources)) : r \in R
  OBVIOUS
<1> HIDE DEF live, R
<1>5. EdgeIn(BuildCatalog(sources), type, from, to, ref) <=> \E r \in Merged(R) : Meant(r)
  BY <1>1 DEF EdgeIn
<1>6. \A r, q : Ends(r, q) /\ Meant(r) => Meant(q)
  BY DEF Ends
<1>7. \A r, q : Ends(r, q) /\ Meant(q) => Meant(r)
  BY DEF Ends
<1> HIDE DEF Meant
<1>8. (\E r \in Merged(R) : Meant(r)) <=> \E r \in R : Meant(r)
  BY <1>3, <1>6, <1>7, MergedKeepsEnds
<1>. QED BY <1>2, <1>4, <1>5, <1>8 DEF live, Meant

(* References are pairs of a transport and a code.                         *)
IsReference(ref) == ref = <<ref[1], ref[2]>>
DeclaresPairs(s) ==
  /\ \A ref \in s.service.produced \cup s.service.consumed \cup s.service.published \cup s.service.subscribed : IsReference(ref)
  /\ \A o \in ToSet(s.operations) : \A ref \in o.emitted : IsReference(ref)

LEMMA ContractEdges ==
  ASSUME NEW sources, BuildCatalog(sources).ok, \A s \in ToSet(sources) : DeclaresPairs(s),
         NEW s \in ToSet(sources), s.covered, NEW ref \in s.service.consumed
  PROVE  /\ \A t \in ToSet(sources) : t.covered =>
              (EdgeIn(BuildCatalog(sources), "contract", s.id, t.id, ref) <=> ref \in t.service.produced)
         /\ (\A t \in ToSet(sources) : t.covered => ref \notin t.service.produced) /\ ~ExplicitOf(sources) =>
              EdgeIn(BuildCatalog(sources), "contract", s.id, "", ref)
<1> DEFINE live == LiveOf(sources)
           explicit == ExplicitOf(sources)
           cs == buildCatalogService(s)
<1>1. /\ \A x \in live : x.id # "" /\ \A ref2 \in x.service.consumed \cup x.service.subscribed : IsReference(ref2)
      /\ \A x \in live, y \in live : x.id = y.id => x = y
      /\ \A t \in ToSet(sources) : t.covered => buildCatalogService(t) \in live
  <2>1. ASSUME NEW x \in live
        PROVE  x.id # "" /\ \A ref2 \in x.service.consumed \cup x.service.subscribed : IsReference(ref2)
    <3>1. PICK t \in ToSet(sources) : x.service = t.service
      BY LiveIs, Zenon
    <3>2. x.id # ""
      BY LiveIs, Zenon
    <3>. QED BY <3>1, <3>2 DEF DeclaresPairs
  <2>. QED BY <2>1, LiveIs, Zenon
<1>2. cs \in live /\ cs.id = s.id /\ ref \in cs.service.consumed /\ IsReference(ref)
  BY <1>1, CatalogServiceIs
<1>3. ASSUME NEW t \in ToSet(sources), t.covered, ref \in t.service.produced
      PROVE  EdgeIn(BuildCatalog(sources), "contract", s.id, t.id, ref)
  <2> DEFINE r == Relation("contract", cs.id, t.id, "", "", ref[1], ref[2], "inbound")
  <2>1. buildCatalogService(t) \in live /\ buildCatalogService(t).id = t.id /\ ref \in buildCatalogService(t).service.produced
    BY <1>1, <1>3, CatalogServiceIs
  <2>2. t.id \in ProvidersOf(live, ref)
    BY <2>1 DEF ProvidersOf
  <2>3. r \in addConsumerRelations(cs, ref, "contract", ProvidersOf(live, ref), explicit)
    BY <2>2 DEF addConsumerRelations
  <2>4. r \in UsesOf(live, cs, explicit)
    BY <1>2, <2>3 DEF UsesOf
  <2>5. r \in RelationsOf(live, cs, explicit)
    BY <2>4 DEF RelationsOf
  <2>6. r.type = "contract" /\ r.source = s.id /\ r.target = t.id /\ <<r.transport, r.contract>> = ref
    BY <1>2 DEF Relation, IsReference
  <2> HIDE DEF r, cs
  <2>. QED BY <1>2, <2>5, <2>6, EdgesAre
<1>4. ASSUME NEW t \in ToSet(sources), t.covered, EdgeIn(BuildCatalog(sources), "contract", s.id, t.id, ref)
      PROVE  ref \in t.service.produced
  <2>1. PICK x \in live : \E r \in RelationsOf(live, x, explicit) :
          r.type = "contract" /\ r.source = s.id /\ r.target = t.id /\ <<r.transport, r.contract>> = ref
    BY <1>4, EdgesAre
  <2>2. PICK r \in RelationsOf(live, x, explicit) :
          r.type = "contract" /\ r.source = s.id /\ r.target = t.id /\ <<r.transport, r.contract>> = ref
    BY <2>1
  <2>3. Direct(live, x, r) \/ Consumer(live, x, r) \/ Producer(live, x, r) \/ Unknown(x, r)
    BY RelationOrigins
  <2>4. t.id # "" /\ r.type # "event"
    BY <2>2, SourcesAreNamed
  <2>5. Consumer(live, x, r)
    BY <2>2, <2>3, <2>4, OriginsTell
  <2>6. PICK wanted \in x.service.consumed : r.target \in ProvidersOf(live, wanted) /\ r.transport = wanted[1] /\ r.contract = wanted[2]
    BY <2>4, <2>5, OriginsTell
  <2>8. t.id \in ProvidersOf(live, wanted) /\ ref = <<wanted[1], wanted[2]>>
    BY <2>2, <2>6
  <2>9. wanted = ref
    BY <1>1, <2>8 DEF IsReference
  <2>10. PICK y \in live : y.id = t.id /\ ref \in y.service.produced
    BY <2>8, <2>9 DEF ProvidersOf
  <2>11. y = buildCatalogService(t)
    <3>1. buildCatalogService(t) \in live /\ buildCatalogService(t).id = t.id
      BY <1>1, <1>4, CatalogServiceIs
    <3>. QED BY <1>1, <2>10, <3>1
  <2>. QED BY <2>10, <2>11, CatalogServiceIs
<1>5. ASSUME \A t \in ToSet(sources) : t.covered => ref \notin t.service.produced, ~ExplicitOf(sources)
      PROVE  EdgeIn(BuildCatalog(sources), "contract", s.id, "", ref)
  <2> DEFINE r == Relation("contract", cs.id, "", "unknown provider", "", ref[1], ref[2], "inbound")
  <2>1. ProvidersOf(live, ref) = {}
    <3>1. \A x \in live : \E t \in ToSet(sources) : t.covered /\ x = buildCatalogService(t)
      BY LiveIs
    <3>2. \A x \in live : ref \notin x.service.produced
      BY <1>5, <3>1, CatalogServiceIs
    <3>. QED BY <3>2 DEF ProvidersOf
  <2>2. r \in addConsumerRelations(cs, ref, "contract", ProvidersOf(live, ref), explicit)
    BY <1>5, <2>1 DEF addConsumerRelations
  <2>3. r \in UsesOf(live, cs, explicit)
    BY <1>2, <2>2 DEF UsesOf
  <2>4. r \in RelationsOf(live, cs, explicit)
    BY <2>3 DEF RelationsOf
  <2>5. r.type = "contract" /\ r.source = s.id /\ r.target = "" /\ <<r.transport, r.contract>> = ref
    BY <1>2 DEF Relation, IsReference
  <2> HIDE DEF r, cs
  <2>. QED BY <1>2, <2>4, <2>5, EdgesAre
<1>. QED BY <1>3, <1>4, <1>5
LEMMA EventEdges ==
  ASSUME NEW sources, BuildCatalog(sources).ok, \A s \in ToSet(sources) : DeclaresPairs(s),
         NEW s \in ToSet(sources), s.covered, NEW ref \in s.service.subscribed
  PROVE  /\ \A t \in ToSet(sources) : t.covered =>
              (EdgeIn(BuildCatalog(sources), "event", s.id, t.id, ref) <=> ref \in Published(t))
         /\ (\A t \in ToSet(sources) : t.covered => ref \notin Published(t)) /\ ~ExplicitOf(sources) =>
              EdgeIn(BuildCatalog(sources), "event", s.id, "", ref)
<1> DEFINE live == LiveOf(sources)
           explicit == ExplicitOf(sources)
           cs == buildCatalogService(s)
<1>1. \A x \in live : \E t \in ToSet(sources) :
        t.covered /\ x = buildCatalogService(t) /\ x.id = t.id /\ x.service = t.service /\ x.operations = ToSet(t.operations)
  BY LiveIs
<1>2. cs \in live /\ cs.id = s.id /\ ref \in cs.service.subscribed /\ IsReference(ref)
  BY LiveIs, CatalogServiceIs DEF DeclaresPairs
<1>3. ASSUME NEW t \in ToSet(sources), t.covered, ref \in Published(t)
      PROVE  EdgeIn(BuildCatalog(sources), "event", s.id, t.id, ref)
  <2> DEFINE r == Relation("event", s.id, t.id, "", "", ref[1], ref[2], "inbound")
             ct == buildCatalogService(t)
  <2>1. ct \in live /\ ct.id = t.id /\ ct.service = t.service /\ ct.operations = ToSet(t.operations)
    BY <1>3, LiveIs, CatalogServiceIs
  <2>2. r.type = "event" /\ r.source = s.id /\ r.target = t.id /\ <<r.transport, r.contract>> = ref
    BY <1>2 DEF Relation, IsReference
  <2>3. CASE ref \in t.service.published
    <3>1. t.id \in PublishersOf(live, ref)
      BY <2>1, <2>3 DEF PublishersOf
    <3>2. r \in addConsumerRelations(cs, ref, "event", PublishersOf(live, ref), explicit)
      BY <1>2, <3>1 DEF addConsumerRelations
    <3>3. r \in HearsOf(live, cs, explicit)
      BY <1>2, <3>2 DEF HearsOf
    <3>4. r \in RelationsOf(live, cs, explicit)
      BY <3>3 DEF RelationsOf
    <3> HIDE DEF r, cs
    <3>. QED BY <1>2, <2>2, <3>4, EdgesAre
  <2>4. CASE ref \in UNION {o.emitted : o \in ToSet(t.operations)}
    <3>1. PICK o \in ct.operations : ref \in o.emitted
      BY <2>1, <2>4
    <3> DEFINE x == [id |-> s.id, op |-> ""]
    <3>2. x \in Subscribers(live, ref)
      BY <1>2 DEF Subscribers
    <3>3. r \in addEventProducerRelations(live, ct, o.id, ref, explicit)
      <4>1. x.id = s.id /\ x.op = ""
        OBVIOUS
      <4> HIDE DEF x
      <4>. QED BY <2>1, <3>2, <4>1 DEF addEventProducerRelations
    <3>4. r \in EmissionsOf(live, ct, o, explicit)
      BY <3>1, <3>3 DEF EmissionsOf
    <3>5. r \in RelationsOf(live, ct, explicit)
      <4>1. r \in InteractionsOf(live, ct, o, explicit) \cup EmissionsOf(live, ct, o, explicit)
        BY <3>4
      <4> HIDE DEF r, ct, explicit, live
      <4>2. r \in UNION {InteractionsOf(live, ct, p, explicit) \cup EmissionsOf(live, ct, p, explicit) : p \in ct.operations}
        BY <3>1, <4>1
      <4>. QED BY <4>2 DEF RelationsOf
    <3> HIDE DEF r, ct
    <3>. QED BY <2>1, <2>2, <3>5, EdgesAre
  <2>. QED BY <1>3, <2>3, <2>4 DEF Published
<1>4. ASSUME NEW t \in ToSet(sources), t.covered, EdgeIn(BuildCatalog(sources), "event", s.id, t.id, ref)
      PROVE  ref \in Published(t)
  <2>1. PICK x \in live : \E r \in RelationsOf(live, x, explicit) :
          r.type = "event" /\ r.source = s.id /\ r.target = t.id /\ <<r.transport, r.contract>> = ref
    BY <1>4, EdgesAre
  <2>2. PICK r \in RelationsOf(live, x, explicit) :
          r.type = "event" /\ r.source = s.id /\ r.target = t.id /\ <<r.transport, r.contract>> = ref
    BY <2>1
  <2>3. Direct(live, x, r) \/ Consumer(live, x, r) \/ Producer(live, x, r) \/ Unknown(x, r)
    BY RelationOrigins
  <2>4. t.id # "" /\ r.type # "contract"
    BY <2>2, SourcesAreNamed
  <2>5. PICK tx \in ToSet(sources) : tx.covered /\ x = buildCatalogService(tx) /\ x.id = tx.id /\ x.service = tx.service /\ x.operations = ToSet(tx.operations)
    BY <1>1
  <2>6. CASE Consumer(live, x, r)
    <3>1. PICK wanted \in x.service.subscribed : r.target \in PublishersOf(live, wanted) /\ r.transport = wanted[1] /\ r.contract = wanted[2]
      BY <2>4, <2>6, OriginsTell
    <3>2. t.id \in PublishersOf(live, wanted) /\ ref = <<wanted[1], wanted[2]>>
      BY <2>2, <3>1
    <3>3. wanted = ref
      BY <2>5, <3>2 DEF DeclaresPairs, IsReference
    <3>4. PICK y \in live : y.id = t.id /\ ref \in y.service.published
      BY <3>2, <3>3 DEF PublishersOf
    <3>5. y = buildCatalogService(t)
      <4>1. buildCatalogService(t) \in live /\ buildCatalogService(t).id = t.id
        BY <1>4, LiveIs, CatalogServiceIs
      <4>2. \A u, v \in live : u.id = v.id => u = v
        BY LiveIs
      <4>. QED BY <3>4, <4>1, <4>2
    <3>. QED BY <3>4, <3>5, CatalogServiceIs DEF Published
  <2>7. CASE Producer(live, x, r)
    <3>1. r.target = x.id /\ \E o \in x.operations : \E sent \in o.emitted : r.transport = sent[1] /\ r.contract = sent[2]
      BY <2>7, OriginsTell
    <3>2. PICK o \in x.operations : \E sent \in o.emitted : r.transport = sent[1] /\ r.contract = sent[2]
      BY <3>1
    <3>3. PICK sent \in o.emitted : r.transport = sent[1] /\ r.contract = sent[2]
      BY <3>2
    <3>4. sent = ref
      BY <2>2, <2>5, <3>2, <3>3 DEF DeclaresPairs, IsReference
    <3>5. tx = t
      BY <2>2, <2>5, <3>1, SourcesAreNamed
    <3>. QED BY <2>5, <3>3, <3>4, <3>5 DEF Published
  <2>. QED BY <2>2, <2>3, <2>4, <2>6, <2>7, OriginsTell
<1>5. ASSUME \A t \in ToSet(sources) : t.covered => ref \notin Published(t), ~ExplicitOf(sources)
      PROVE  EdgeIn(BuildCatalog(sources), "event", s.id, "", ref)
  <2> DEFINE r == Relation("event", cs.id, "", "unknown provider", "", ref[1], ref[2], "inbound")
  <2>1. PublishersOf(live, ref) = {}
    <3>1. \A x \in live : ref \notin x.service.published
      BY <1>1, <1>5 DEF Published
    <3>. QED BY <3>1 DEF PublishersOf
  <2>2. r \in addConsumerRelations(cs, ref, "event", PublishersOf(live, ref), explicit)
    BY <1>5, <2>1 DEF addConsumerRelations
  <2>3. r \in HearsOf(live, cs, explicit)
    BY <1>2, <2>2 DEF HearsOf
  <2>4. r \in RelationsOf(live, cs, explicit)
    BY <2>3 DEF RelationsOf
  <2>5. r.type = "event" /\ r.source = s.id /\ r.target = "" /\ <<r.transport, r.contract>> = ref
    BY <1>2 DEF Relation, IsReference
  <2> HIDE DEF r, cs
  <2>. QED BY <1>2, <2>4, <2>5, EdgesAre
<1>. QED BY <1>3, <1>4, <1>5

(* A declaration meets its counterpart in an edge, and only there, or is   *)
(* an unknown edge or debt (buildRelations against                         *)
(* CountUnmatchedInterfaceMetadata).                                       *)
THEOREM DeclarationsAlwaysAccounted ==
  ASSUME NEW sources, \A s \in ToSet(sources) : DeclaresPairs(s)
  PROVE  DeclarationsAreAccounted(sources, BuildCatalog(sources))
<1> DEFINE catalog == BuildCatalog(sources)
           Live == {s \in ToSet(sources) : s.covered}
           debt == CountUnmatchedInterfaceMetadata(sources)
           Owed(s, ref) == s.external \/ <<s.id, ref>> \in debt
           explicit == \A i \in DOMAIN sources : sources[i].pinned
           Meets(s, type, ref, answering) ==
             /\ \A t \in Live : EdgeIn(catalog, type, s.id, t.id, ref) <=> t \in answering
             /\ answering = {} => IF explicit THEN Owed(s, ref) ELSE EdgeIn(catalog, type, s.id, "", ref)
           Heard(s) == {<<"nats", o.key.path>> : o \in {x \in ToSet(s.operations) : x.type = "nats_event_subscriber"}}
           Uses(s) == s.service.consumed \cup s.service.subscribed \cup Heard(s)
           Unmet(s) == (s.service.produced \ UNION {t.service.consumed : t \in Live}) \cup (s.service.consumed \ UNION {t.service.produced : t \in Live})
                       \cup (Published(s) \ UNION {t.service.subscribed \cup Heard(t) : t \in Live})
                       \cup ((s.service.subscribed \cup Heard(s)) \ UNION {Published(t) : t \in Live})
<1>1. SUFFICES ASSUME catalog.ok, NEW s \in Live
      PROVE  /\ \A ref \in s.service.consumed : Meets(s, "contract", ref, {t \in Live : ref \in t.service.produced})
             /\ \A ref \in s.service.subscribed : Meets(s, "event", ref, {t \in Live : ref \in Published(t)})
             /\ \A ref \in s.service.produced \cup Published(s) : explicit /\ (\A t \in Live : ref \notin Uses(t)) => Owed(s, ref)
  BY DEF DeclarationsAreAccounted
<1>2. s \in ToSet(sources) /\ s.covered
  OBVIOUS
<1>3. explicit <=> ExplicitOf(sources)
  <2>1. sources # << >>
    BY <1>2 DEF ToSet
  <2>. QED BY <2>1 DEF ExplicitOf
<1>4. debt = UNION {{<<x.id, ref>> : ref \in Unmet(x)} : x \in {y \in Live : ~y.external}}
  BY DEF CountUnmatchedInterfaceMetadata, Published
<1>5. ASSUME NEW ref \in Unmet(s) PROVE Owed(s, ref)
  <2> HIDE DEF Unmet, Live
  <2>1. CASE ~s.external
    BY <1>4, <1>5, <2>1
  <2>. QED BY <2>1
<1> HIDE DEF debt, catalog
<1>6. ASSUME NEW ref \in s.service.consumed
      PROVE  Meets(s, "contract", ref, {t \in Live : ref \in t.service.produced})
  <2>1. /\ \A t \in ToSet(sources) : t.covered => (EdgeIn(catalog, "contract", s.id, t.id, ref) <=> ref \in t.service.produced)
        /\ (\A t \in ToSet(sources) : t.covered => ref \notin t.service.produced) /\ ~ExplicitOf(sources) => EdgeIn(catalog, "contract", s.id, "", ref)
    BY <1>1, <1>2, ContractEdges DEF catalog
  <2>2. (\A t \in Live : ref \notin t.service.produced) => Owed(s, ref)
    BY <1>5
  <2> HIDE DEF Owed
  <2>. QED BY <1>3, <2>1, <2>2
<1>7. ASSUME NEW ref \in s.service.subscribed
      PROVE  Meets(s, "event", ref, {t \in Live : ref \in Published(t)})
  <2>1. /\ \A t \in ToSet(sources) : t.covered => (EdgeIn(catalog, "event", s.id, t.id, ref) <=> ref \in Published(t))
        /\ (\A t \in ToSet(sources) : t.covered => ref \notin Published(t)) /\ ~ExplicitOf(sources) => EdgeIn(catalog, "event", s.id, "", ref)
    BY <1>1, <1>2, EventEdges DEF catalog
  <2>2. (\A t \in Live : ref \notin Published(t)) => Owed(s, ref)
    BY <1>5
  <2> HIDE DEF Owed
  <2>. QED BY <1>3, <2>1, <2>2
<1>8. ASSUME NEW ref \in s.service.produced \cup Published(s), \A t \in Live : ref \notin Uses(t)
      PROVE  Owed(s, ref)
  <2>1. ref \in Unmet(s)
    BY <1>8
  <2>. QED BY <1>5, <2>1
<1>. QED BY <1>6, <1>7, <1>8
-----------------------------------------------------------------------------
(***************************************************************************)
(* Graphs with pins.                                                       *)
(***************************************************************************)
LEMMA AllIs ==
  ASSUME NEW sources, BuildCatalog(sources).ok
  PROVE  /\ \A t \in ToSet(sources) : LET c == buildCatalogService(t) IN c \in AllOf(sources) /\ c.id = t.id /\ c.reference = ReferenceOf(t)
         /\ \A x \in AllOf(sources) : \E t \in ToSet(sources) : x = buildCatalogService(t) /\ x.id = t.id /\ x.reference = ReferenceOf(t)
         /\ \A s, t \in ToSet(sources) : ReferenceOf(s) = ReferenceOf(t) => s = t
         /\ \A s \in ToSet(sources) : ReferenceOf(s) # << >>
         /\ BuildCatalog(sources).services = AllOf(sources)
         /\ \A r \in BuildCatalog(sources).relations : StableEdgeID(EdgeOf(AllOf(sources), r)) # << >>
<1>1. /\ BuildCatalog(sources).services = AllOf(sources)
      /\ ValidateStableGraphIDs(AllOf(sources), BuildCatalog(sources).relations)
  <2> DEFINE relations == Merged(UNION {RelationsOf(LiveOf(sources), s, ExplicitOf(sources)) : s \in LiveOf(sources)})
  <2>1. BuildCatalog(sources) = [ok |-> TRUE, services |-> AllOf(sources), relations |-> relations] /\ ValidateStableGraphIDs(AllOf(sources), relations)
    BY CatalogIs DEF LiveOf
  <2> HIDE DEF relations
  <2>. QED BY <2>1
<1>2. AllOf(sources) = {buildCatalogService(t) : t \in ToSet(sources)}
  BY SourcesAreNamed
<1>3. ASSUME NEW t \in ToSet(sources)
      PROVE  LET c == buildCatalogService(t) IN c \in AllOf(sources) /\ c.id = t.id /\ c.reference = ReferenceOf(t)
  BY <1>2, CatalogServiceIs
<1>4. ASSUME NEW x \in AllOf(sources)
      PROVE  \E t \in ToSet(sources) : x = buildCatalogService(t) /\ x.id = t.id /\ x.reference = ReferenceOf(t)
  <2>1. PICK t \in ToSet(sources) : x = buildCatalogService(t)
    BY <1>2
  <2>. QED BY <2>1, CatalogServiceIs
<1>5. ASSUME NEW s \in ToSet(sources), NEW t \in ToSet(sources), ReferenceOf(s) = ReferenceOf(t) PROVE s = t
  <2>1. buildCatalogService(s) = buildCatalogService(t)
    BY <1>1, <1>3, <1>5 DEF ValidateStableGraphIDs
  <2>2. s.id = t.id
    BY <1>3, <2>1
  <2>. QED BY <2>2, SourcesAreNamed
<1>6. ASSUME NEW s \in ToSet(sources) PROVE ReferenceOf(s) # << >>
  BY <1>1, <1>3 DEF ValidateStableGraphIDs
<1>7. \A r \in BuildCatalog(sources).relations : StableEdgeID(EdgeOf(AllOf(sources), r)) # << >>
  BY <1>1 DEF ValidateStableGraphIDs
<1>. QED BY <1>1, <1>3, <1>4, <1>5, <1>6, <1>7

(* The ends of a relation are services, or the target is unknown.          *)
IsServiceOf(services, id) == \E s \in services : s.id = id
LEMMA OriginsEnd ==
  ASSUME NEW services, NEW s \in services, NEW explicit, NEW r \in RelationsOf(services, s, explicit)
  PROVE  IsServiceOf(services, r.source) /\ (r.target = "" \/ IsServiceOf(services, r.target))
<1>1. Direct(services, s, r) \/ Consumer(services, s, r) \/ Producer(services, s, r) \/ Unknown(s, r)
  BY RelationOrigins
<1>2. ASSUME Direct(services, s, r) PROVE r.source = s.id /\ (r.target = "" \/ IsServiceOf(services, r.target))
  <2>1. ASSUME NEW i, NEW op,
               r = RecordOf(r.type, s.id, resolveProject(services, i.target), i.target, op, i.transport, i.contract, i.direction, i.sure, i.proven)
        PROVE  r.source = s.id /\ r.target = resolveProject(services, i.target)
    <3>1. ASSUME NEW type PROVE RecordOf(type, s.id, resolveProject(services, i.target), i.target, op, i.transport, i.contract, i.direction, i.sure, i.proven).source = s.id
      BY DEF RecordOf
    <3>2. ASSUME NEW type PROVE RecordOf(type, s.id, resolveProject(services, i.target), i.target, op, i.transport, i.contract, i.direction, i.sure, i.proven).target = resolveProject(services, i.target)
      BY DEF RecordOf
    <3>. QED BY <2>1, <3>1, <3>2
  <2>2. PICK i \in s.service.outbound \cup UNION {o.interactions : o \in s.operations} :
          r.source = s.id /\ r.target = resolveProject(services, i.target)
    BY <1>2, <2>1 DEF Direct
  <2> DEFINE known == {x.id : x \in {y \in services : i.target \in NamesOf(y)}}
  <2>3. \A id \in known : IsServiceOf(services, id)
    BY DEF IsServiceOf
  <2>4. resolveProject(services, i.target) = IF Cardinality(known) = 1 THEN CHOOSE id \in known : TRUE ELSE ""
    BY DEF resolveProject
  <2>5. Cardinality(known) = 1 => \E id : id \in known
    <3>1. Cardinality({}) = 0
      BY FS_EmptySet
    <3> HIDE DEF known
    <3>. QED BY <3>1
  <2> HIDE DEF known
  <2>. QED BY <2>2, <2>3, <2>4, <2>5
<1>3. ASSUME Consumer(services, s, r) PROVE r.source = s.id /\ IsServiceOf(services, r.target)
  <2>1. \A ref, p : p \in ProvidersOf(services, ref) \cup PublishersOf(services, ref) => IsServiceOf(services, p)
    BY DEF ProvidersOf, PublishersOf, IsServiceOf
  <2>2. r.source = s.id /\ \E ref : r.target \in ProvidersOf(services, ref) \cup PublishersOf(services, ref)
    BY <1>3, OriginsTell
  <2>. QED BY <2>1, <2>2
<1>4. ASSUME Producer(services, s, r) PROVE IsServiceOf(services, r.source) /\ r.target = s.id
  <2>1. ASSUME NEW ref, NEW x \in Subscribers(services, ref) PROVE IsServiceOf(services, x.id)
    <3>1. CASE x \in {[id |-> y.id, op |-> ""] : y \in {z \in services : ref \in z.service.subscribed}}
      <4>1. PICK y \in services : x = [id |-> y.id, op |-> ""]
        BY <3>1
      <4>. QED BY <4>1 DEF IsServiceOf
    <3>2. CASE x \in {[id |-> p[1].id, op |-> p[2].id] :
                        p \in {z \in UNION {{y} \X y.operations : y \in services} : z[2].type = "nats_event_subscriber" /\ ref = <<"nats", z[2].key.path>>}}
      <4>1. PICK p \in UNION {{y} \X y.operations : y \in services} : x = [id |-> p[1].id, op |-> p[2].id]
        BY <3>2
      <4>2. PICK y \in services : p \in {y} \X y.operations
        BY <4>1
      <4>. QED BY <4>1, <4>2 DEF IsServiceOf
    <3>. QED BY <2>1, <3>1, <3>2 DEF Subscribers
  <2>2. ASSUME NEW o \in s.operations, NEW ref \in o.emitted, NEW x \in Subscribers(services, ref),
               r = Relation("event", x.id, s.id, "", x.op, ref[1], ref[2], "inbound")
        PROVE  r.source = x.id /\ r.target = s.id
    BY <2>2 DEF Relation
  <2>. QED BY <1>4, <2>1, <2>2 DEF Producer
<1>5. Unknown(s, r) => r.target = "" /\ r.source = s.id
  BY OriginsTell
<1>6. IsServiceOf(services, s.id)
  BY DEF IsServiceOf
<1>. QED BY <1>1, <1>2, <1>3, <1>4, <1>5, <1>6

(* Both ends of a relation are declared.                                   *)
LEMMA RelationEnds ==
  ASSUME NEW sources, BuildCatalog(sources).ok, NEW r \in BuildCatalog(sources).relations
  PROVE  /\ \E s \in ToSet(sources) : s.id = r.source
         /\ r.target = "" \/ \E s \in ToSet(sources) : s.id = r.target
<1> DEFINE live == LiveOf(sources)
           R == UNION {RelationsOf(live, s, ExplicitOf(sources)) : s \in live}
<1>1. BuildCatalog(sources).relations = Merged(R)
  <2>1. BuildCatalog(sources) = [ok |-> TRUE, services |-> AllOf(sources), relations |-> Merged(R)]
    BY CatalogIs DEF LiveOf
  <2>. QED BY <2>1
<1>2. \A q \in R : \E x \in live : q \in RelationsOf(live, x, ExplicitOf(sources))
  OBVIOUS
<1>3. \A q \in R : IsRelation(q)
  BY <1>2, RelationsAreRecords
<1> HIDE DEF live, R
<1>4. PICK q \in R : Ends(r, q)
  BY <1>1, <1>3, MergedKeepsEnds
<1>5. IsServiceOf(live, q.source) /\ (q.target = "" \/ IsServiceOf(live, q.target))
  BY <1>2, <1>4, OriginsEnd
<1>6. ASSUME NEW id, IsServiceOf(live, id) PROVE \E s \in ToSet(sources) : s.id = id
  <2>1. PICK x \in LiveOf(sources) : x.id = id
    BY <1>6 DEF IsServiceOf, live
  <2>2. PICK t \in ToSet(sources) : x.id = t.id
    BY LiveFrom, Zenon
  <2>. QED BY <2>1, <2>2
<1>. QED BY <1>4, <1>5, <1>6 DEF Ends

(* The edge of a relation ends where its services are referred to.         *)
LEMMA EdgeIs ==
  ASSUME NEW sources, BuildCatalog(sources).ok, NEW r \in BuildCatalog(sources).relations
  PROVE  LET e == EdgeOf(AllOf(sources), r)
         IN  /\ e = [from |-> e.from, to |-> e.to, type |-> r.type, external |-> r.external, op |-> r.op,
                     transport |-> r.transport, contract |-> r.contract, direction |-> r.direction]
             /\ \A s \in ToSet(sources) : s.id = r.source => e.from = ReferenceOf(s)
             /\ \A s \in ToSet(sources) : s.id = r.target => e.to = ReferenceOf(s)
             /\ r.target = "" => e.to = << >>
<1> DEFINE all == AllOf(sources)
           Ref(id) == IF id = "" THEN << >> ELSE (CHOOSE s \in all : s.id = id).reference
           e == EdgeOf(all, r)
<1>1. e = [from |-> Ref(r.source), to |-> Ref(r.target), type |-> r.type, external |-> r.external, op |-> r.op,
           transport |-> r.transport, contract |-> r.contract, direction |-> r.direction]
  BY DEF EdgeOf
<1>2. ASSUME NEW s \in ToSet(sources) PROVE Ref(s.id) = ReferenceOf(s)
  <2>1. s.id # ""
    BY SourcesAreNamed
  <2>2. PICK x \in all : x = buildCatalogService(s) /\ x.id = s.id /\ x.reference = ReferenceOf(s)
    BY AllIs
  <2>3. \A y \in all : y.id = s.id => y = x
    <3>1. ASSUME NEW y \in all, y.id = s.id PROVE y = x
      <4>1. PICK t \in ToSet(sources) : y = buildCatalogService(t) /\ y.id = t.id
        BY <3>1, AllIs
      <4>2. t = s
        BY <3>1, <4>1, SourcesAreNamed
      <4>. QED BY <2>2, <4>1, <4>2
    <3>. QED BY <3>1
  <2>4. (CHOOSE y \in all : y.id = s.id) = x
    BY <2>2, <2>3
  <2>. QED BY <2>1, <2>2, <2>4
<1> HIDE DEF Ref
<1>3. Ref("") = << >>
  BY DEF Ref
<1> HIDE DEF e
<1>4. e.from = Ref(r.source) /\ e.to = Ref(r.target)
  BY <1>1
<1>. QED BY <1>1, <1>2, <1>3, <1>4 DEF e
IsEdge(e) ==
  e = [from |-> e.from, to |-> e.to, type |-> e.type, external |-> e.external, op |-> e.op,
       transport |-> e.transport, contract |-> e.contract, direction |-> e.direction]

(* An edge is told by its stable id.                                       *)
LEMMA EdgeIdsTell ==
  ASSUME NEW e, NEW f, StableEdgeID(e) = StableEdgeID(f), StableEdgeID(e) # << >>
  PROVE  /\ e.from = f.from /\ e.to = f.to /\ e.type = f.type /\ e.external = f.external /\ e.op = f.op
         /\ e.transport = f.transport /\ e.contract = f.contract /\ e.direction = f.direction
<1>1. StableEdgeID(e) = <<e.from, e.type, e.to, e.external, e.op, e.transport, e.contract, e.direction>>
  BY DEF StableEdgeID
<1>2. StableEdgeID(f) = <<f.from, f.type, f.to, f.external, f.op, f.transport, f.contract, f.direction>>
  BY DEF StableEdgeID
<1>3. ASSUME NEW g, NEW id, id = <<g.from, g.type, g.to, g.external, g.op, g.transport, g.contract, g.direction>>
      PROVE  /\ id[1] = g.from /\ id[2] = g.type /\ id[3] = g.to /\ id[4] = g.external /\ id[5] = g.op
             /\ id[6] = g.transport /\ id[7] = g.contract /\ id[8] = g.direction
  BY <1>3
<1>4. PICK id : id = StableEdgeID(e) /\ id = StableEdgeID(f)
  OBVIOUS
<1>5. /\ id[1] = e.from /\ id[2] = e.type /\ id[3] = e.to /\ id[4] = e.external /\ id[5] = e.op
      /\ id[6] = e.transport /\ id[7] = e.contract /\ id[8] = e.direction
  BY <1>1, <1>3, <1>4
<1>6. /\ id[1] = f.from /\ id[2] = f.type /\ id[3] = f.to /\ id[4] = f.external /\ id[5] = f.op
      /\ id[6] = f.transport /\ id[7] = f.contract /\ id[8] = f.direction
  BY <1>2, <1>3, <1>4
<1>. QED BY <1>5, <1>6

LEMMA EqualEdges ==
  ASSUME NEW e, NEW f, IsEdge(e), IsEdge(f), StableEdgeID(e) = StableEdgeID(f), StableEdgeID(e) # << >>
  PROVE  e = f
<1>1. /\ e.from = f.from /\ e.to = f.to /\ e.type = f.type /\ e.external = f.external /\ e.op = f.op
      /\ e.transport = f.transport /\ e.contract = f.contract /\ e.direction = f.direction
  BY EdgeIdsTell
<1>. QED BY <1>1 DEF IsEdge

(* The graph that Export returns.                                          *)
GraphEdge(sources, pins, r) ==
  [id |-> StableEdgeID(EdgeOf(AllOf(sources), r)), edge |-> EdgeOf(AllOf(sources), r),
   pins |-> UNION {PinsOf(s, pins) : s \in {x \in ToSet(sources) : x.id \in {r.source, r.target}}}]
GraphEdges(sources, pins) == {GraphEdge(sources, pins, r) : r \in BuildCatalog(sources).relations}
GraphReference(s, pins) == [id |-> ReferenceOf(s), kind |-> IF s.external THEN "external_owner" ELSE "", identity |-> s.identity, pins |-> PinsOf(s, pins)]
OwnOf(sources) == {s.identity : s \in {x \in ToSet(sources) : ~x.external}}
EdgeBlocks(edges) == {Blocked("EDGE_TARGET_UNRESOLVED", e.id) : e \in {x \in edges : x.edge.to = << >>}}
SourceBlocks(sources, pins) == UNION {DiagnosticsOf(s, CHOOSE x \in AllOf(sources) : x.id = s.id, pins) : s \in ToSet(sources)}
ScopeBlocks(sources, inventory) ==
  (IF sources = << >> THEN {Blocked("GRAPH_SCOPE_EMPTY", << >>)} ELSE {})
  \cup (IF inventory = {} THEN {Blocked("FLEET_SCOPE_UNPROVEN", << >>)}
        ELSE IF OwnOf(sources) \in inventory THEN {} ELSE {Blocked("FLEET_SCOPE_UNPROVEN", << >>)} \cup {Blocked("FLEET_INVENTORY_SCOPE_MISMATCH", << >>)})
GraphOf(sources, pins, given, inventory) ==
  [ok |-> TRUE,
   references |-> {GraphReference(s, pins) : s \in ToSet(sources)},
   edges |-> GraphEdges(sources, pins),
   diagnostics |-> given \cup SourceBlocks(sources, pins) \cup EdgeBlocks(GraphEdges(sources, pins)) \cup ScopeBlocks(sources, inventory),
   inventory |-> {i \in inventory : i = OwnOf(sources)}]

LEMMA ExportIs ==
  ASSUME NEW sources, NEW pins, NEW given, NEW inventory, Export(BuildCatalog(sources), sources, pins, given, inventory).ok
  PROVE  BuildCatalog(sources).ok /\ Export(BuildCatalog(sources), sources, pins, given, inventory) = GraphOf(sources, pins, given, inventory)
<1> DEFINE catalog == BuildCatalog(sources)
           graph == Export(catalog, sources, pins, given, inventory)
           services == catalog.services
           all == ToSet(sources)
           edges == {[id |-> StableEdgeID(EdgeOf(services, r)), edge |-> EdgeOf(services, r),
                      pins |-> UNION {PinsOf(s, pins) : s \in {x \in all : x.id \in {r.source, r.target}}}] : r \in catalog.relations}
<1>1. catalog.ok
  BY DEF Export
<1>2. services = AllOf(sources)
  BY <1>1, AllIs
<1>3. edges = GraphEdges(sources, pins)
  BY <1>2 DEF GraphEdges, GraphEdge
<1>4. graph = [ok |-> TRUE,
               references |-> {[id |-> ReferenceOf(s), kind |-> IF s.external THEN "external_owner" ELSE "", identity |-> s.identity, pins |-> PinsOf(s, pins)] : s \in all},
               edges |-> edges,
               diagnostics |-> given \cup (UNION {DiagnosticsOf(s, CHOOSE x \in services : x.id = s.id, pins) : s \in all})
                 \cup {Blocked("EDGE_TARGET_UNRESOLVED", e.id) : e \in {x \in edges : x.edge.to = << >>}}
                 \cup (IF sources = << >> THEN {Blocked("GRAPH_SCOPE_EMPTY", << >>)} ELSE {})
                 \cup (IF inventory = {} THEN {Blocked("FLEET_SCOPE_UNPROVEN", << >>)}
                       ELSE IF OwnOf(sources) \in inventory THEN {} ELSE {Blocked("FLEET_SCOPE_UNPROVEN", << >>)} \cup {Blocked("FLEET_INVENTORY_SCOPE_MISMATCH", << >>)}),
               inventory |-> {i \in inventory : i = OwnOf(sources)}]
  BY <1>1 DEF Export, OwnOf
<1> HIDE DEF catalog, services, edges
<1>5. graph = [ok |-> TRUE,
               references |-> {GraphReference(s, pins) : s \in all},
               edges |-> edges,
               diagnostics |-> given \cup SourceBlocks(sources, pins) \cup EdgeBlocks(edges) \cup ScopeBlocks(sources, inventory),
               inventory |-> {i \in inventory : i = OwnOf(sources)}]
  <2>1. SourceBlocks(sources, pins) = UNION {DiagnosticsOf(s, CHOOSE x \in services : x.id = s.id, pins) : s \in all}
    BY <1>2 DEF SourceBlocks
  <2>2. {GraphReference(s, pins) : s \in all} =
          {[id |-> ReferenceOf(s), kind |-> IF s.external THEN "external_owner" ELSE "", identity |-> s.identity, pins |-> PinsOf(s, pins)] : s \in all}
    BY DEF GraphReference
  <2>3. given \cup SourceBlocks(sources, pins) \cup EdgeBlocks(edges) \cup ScopeBlocks(sources, inventory) =
          given \cup SourceBlocks(sources, pins)
                 \cup {Blocked("EDGE_TARGET_UNRESOLVED", e.id) : e \in {x \in edges : x.edge.to = << >>}}
                 \cup (IF sources = << >> THEN {Blocked("GRAPH_SCOPE_EMPTY", << >>)} ELSE {})
                 \cup (IF inventory = {} THEN {Blocked("FLEET_SCOPE_UNPROVEN", << >>)}
                       ELSE IF OwnOf(sources) \in inventory THEN {} ELSE {Blocked("FLEET_SCOPE_UNPROVEN", << >>)} \cup {Blocked("FLEET_INVENTORY_SCOPE_MISMATCH", << >>)})
    BY DEF EdgeBlocks, ScopeBlocks
  <2>. QED BY <1>4, <2>1, <2>2, <2>3
<1>. QED BY <1>1, <1>3, <1>5 DEF GraphOf, catalog

(* What is known of every edge of the graph.                               *)
LEMMA GraphEdgesAre ==
  ASSUME NEW sources, NEW pins, BuildCatalog(sources).ok, NEW e \in GraphEdges(sources, pins)
  PROVE  /\ e = [id |-> e.id, edge |-> e.edge, pins |-> e.pins] /\ IsEdge(e.edge) /\ e.id = StableEdgeID(e.edge) /\ e.id # << >>
         /\ e.edge.from # << >>
         /\ \E s \in ToSet(sources) : e.edge.from = ReferenceOf(s) /\ PinsOf(s, pins) \subseteq e.pins
         /\ e.edge.to # << >> => \E s \in ToSet(sources) : e.edge.to = ReferenceOf(s)
         /\ e.pins = UNION {PinsOf(s, pins) : s \in {x \in ToSet(sources) : ReferenceOf(x) \in {e.edge.from, e.edge.to}}}
<1>1. PICK r \in BuildCatalog(sources).relations : e = GraphEdge(sources, pins, r)
  BY DEF GraphEdges
<1> DEFINE edge == EdgeOf(AllOf(sources), r)
<1>2. /\ e.id = StableEdgeID(edge) /\ e.edge = edge /\ e = [id |-> e.id, edge |-> e.edge, pins |-> e.pins]
      /\ e.pins = UNION {PinsOf(s, pins) : s \in {x \in ToSet(sources) : x.id \in {r.source, r.target}}}
  BY <1>1 DEF GraphEdge
<1>3. /\ edge = [from |-> edge.from, to |-> edge.to, type |-> r.type, external |-> r.external, op |-> r.op,
                 transport |-> r.transport, contract |-> r.contract, direction |-> r.direction]
      /\ \A s \in ToSet(sources) : s.id = r.source => edge.from = ReferenceOf(s)
      /\ \A s \in ToSet(sources) : s.id = r.target => edge.to = ReferenceOf(s)
      /\ r.target = "" => edge.to = << >>
  BY EdgeIs
<1>4. StableEdgeID(edge) # << >>
  BY AllIs
<1>5. /\ \E s \in ToSet(sources) : s.id = r.source
      /\ r.target = "" \/ \E s \in ToSet(sources) : s.id = r.target
  BY RelationEnds
<1> HIDE DEF edge
<1>6. IsEdge(edge)
  <2>1. PICK a, b, c, d, f, g, h, i :
          edge = [from |-> a, to |-> b, type |-> c, external |-> d, op |-> f, transport |-> g, contract |-> h, direction |-> i]
    BY <1>3
  <2>. QED BY <2>1 DEF IsEdge
<1>7. PICK s \in ToSet(sources) : s.id = r.source /\ edge.from = ReferenceOf(s)
  BY <1>3, <1>5
<1>14. /\ \A x, y \in ToSet(sources) : ReferenceOf(x) = ReferenceOf(y) => x = y
       /\ \A x, y \in ToSet(sources) : x.id = y.id => x = y
       /\ \A x \in ToSet(sources) : ReferenceOf(x) # << >> /\ x.id # ""
  BY AllIs, SourcesAreNamed
<1>8. \A x \in ToSet(sources) : ReferenceOf(x) = edge.from <=> x.id = r.source
  BY <1>7, <1>14
<1>9. edge.from # << >> /\ PinsOf(s, pins) \subseteq e.pins
  <2>1. edge.from # << >>
    BY <1>7, AllIs
  <2>2. s \in {x \in ToSet(sources) : x.id \in {r.source, r.target}}
    BY <1>7
  <2>. QED BY <1>2, <2>1, <2>2
<1>10. \A x \in ToSet(sources) : ReferenceOf(x) = edge.to <=> x.id = r.target
  <2>1. CASE r.target = ""
    BY <1>3, <1>14, <2>1
  <2>2. CASE r.target # ""
    <3>1. PICK t \in ToSet(sources) : t.id = r.target /\ edge.to = ReferenceOf(t)
      BY <1>3, <1>5, <2>2
    <3>. QED BY <1>14, <3>1
  <2>. QED BY <2>1, <2>2
<1>11. edge.to # << >> => \E x \in ToSet(sources) : edge.to = ReferenceOf(x)
  BY <1>3, <1>5
<1>12. {x \in ToSet(sources) : x.id \in {r.source, r.target}} = {x \in ToSet(sources) : ReferenceOf(x) \in {edge.from, edge.to}}
  BY <1>8, <1>10
<1>. QED BY <1>2, <1>4, <1>6, <1>7, <1>9, <1>11, <1>12

LEMMA GraphEdgesTell ==
  ASSUME NEW sources, NEW pins, BuildCatalog(sources).ok,
         NEW e \in GraphEdges(sources, pins), NEW f \in GraphEdges(sources, pins), e.edge = f.edge
  PROVE  e = f
<1>1. \A g \in GraphEdges(sources, pins) :
        /\ g = [id |-> g.id, edge |-> g.edge, pins |-> g.pins] /\ g.id = StableEdgeID(g.edge)
        /\ g.pins = UNION {PinsOf(s, pins) : s \in {x \in ToSet(sources) : ReferenceOf(x) \in {g.edge.from, g.edge.to}}}
  BY GraphEdgesAre
<1>2. e.id = f.id /\ e.pins = f.pins
  BY <1>1
<1>. QED BY <1>1, <1>2
-----------------------------------------------------------------------------
(***************************************************************************)
(* The graph of a fleet.                                                   *)
(***************************************************************************)
InteractionsIn(s) == s.service.outbound \cup UNION {o.interactions : o \in ToSet(s.operations)}

(* A merged relation is sure because one of its origins is.                *)
LEMMA MergedSure ==
  ASSUME NEW R, \A r \in R : IsRelation(r), NEW r \in Merged(R), r.sure
  PROVE  \E q \in R : q.sure /\ Ends(r, q)
<1> DEFINE Sure(p) == \E q \in R : SameEdge(q, p) /\ q.sure
           Proven(p) == \E q \in R : SameEdge(q, p) /\ q.proven
<1>1. PICK p \in R : r = [p EXCEPT !.sure = Sure(p), !.proven = Proven(p)]
  BY DEF Merged
<1> HIDE DEF Sure, Proven
<1>2. ASSUME NEW f, IsRelation(f), NEW x, NEW y, NEW g, g = [f EXCEPT !.sure = x, !.proven = y]
      PROVE  Ends(g, f) /\ g.sure = x
  <2>1. PICK t, s, b, e, o, w, c, d, u, v :
          f = [type |-> t, source |-> s, target |-> b, external |-> e, op |-> o, transport |-> w, contract |-> c, direction |-> d, sure |-> u, proven |-> v]
    BY <1>2 DEF IsRelation
  <2>. QED BY <1>2, <2>1 DEF Ends
<1>3. Ends(r, p) /\ Sure(p)
  <2>1. PICK x, y : r = [p EXCEPT !.sure = x, !.proven = y] /\ x = Sure(p)
    BY <1>1
  <2>2. IsRelation(p)
    OBVIOUS
  <2>3. Ends(r, p) /\ r.sure = x
    <3>1. PICK t, s, b, e, o, w, c, d, u, v :
            p = [type |-> t, source |-> s, target |-> b, external |-> e, op |-> o, transport |-> w, contract |-> c, direction |-> d, sure |-> u, proven |-> v]
      BY <2>2 DEF IsRelation
    <3>. QED BY <2>1, <3>1 DEF Ends
  <2>. QED BY <2>1, <2>3
<1>4. PICK q \in R : SameEdge(q, p) /\ q.sure
  BY <1>3 DEF Sure
<1>5. Ends(p, q)
  <2>1. p = [q EXCEPT !.sure = p.sure, !.proven = p.proven]
    BY <1>4 DEF SameEdge
  <2>2. PICK x, y : p = [q EXCEPT !.sure = x, !.proven = y]
    BY <2>1
  <2>. QED BY <1>2, <2>2
<1>6. Ends(r, q)
  BY <1>3, <1>5 DEF Ends
<1>. QED BY <1>4, <1>6

LEMMA DirectTells ==
  ASSUME NEW services, NEW s, NEW r, Direct(services, s, r)
  PROVE  \E i \in s.service.outbound \cup UNION {o.interactions : o \in s.operations} :
           r.external = i.target /\ r.transport = i.transport /\ r.sure = i.sure
<1>1. ASSUME NEW i, NEW op, NEW type,
             r = RecordOf(type, s.id, resolveProject(services, i.target), i.target, op, i.transport, i.contract, i.direction, i.sure, i.proven)
      PROVE  r.external = i.target /\ r.transport = i.transport /\ r.sure = i.sure
  BY <1>1 DEF RecordOf
<1>. QED BY <1>1 DEF Direct

(* Behind a direct relation that is sure is an interaction that is sure.   *)
LEMMA DirectIsAuthored ==
  ASSUME NEW sources, BuildCatalog(sources).ok, NEW r \in BuildCatalog(sources).relations,
         r.type \in {"outbound_dependency", "operation_interaction"}, r.sure
  PROVE  \E s \in ToSet(sources) : \E i \in InteractionsIn(s) : i.target = r.external /\ i.transport = r.transport /\ i.sure
<1> DEFINE live == LiveOf(sources)
           R == UNION {RelationsOf(live, s, ExplicitOf(sources)) : s \in live}
<1>1. BuildCatalog(sources).relations = Merged(R)
  <2>1. BuildCatalog(sources) = [ok |-> TRUE, services |-> AllOf(sources), relations |-> Merged(R)]
    BY CatalogIs DEF LiveOf
  <2>. QED BY <2>1
<1>2. \A q \in R : \E x \in live : q \in RelationsOf(live, x, ExplicitOf(sources))
  OBVIOUS
<1>3. \A q \in R : IsRelation(q)
  BY <1>2, RelationsAreRecords
<1> HIDE DEF live, R
<1>4. PICK q \in R : q.sure /\ Ends(r, q)
  BY <1>1, <1>3, MergedSure
<1>5. PICK x \in live : q \in RelationsOf(live, x, ExplicitOf(sources))
  BY <1>2
<1>6. q.type \in {"outbound_dependency", "operation_interaction"} /\ q.external = r.external /\ q.transport = r.transport
  BY <1>4 DEF Ends
<1>7. Direct(live, x, q)
  <2>1. Direct(live, x, q) \/ Consumer(live, x, q) \/ Producer(live, x, q) \/ Unknown(x, q)
    BY <1>5, RelationOrigins
  <2>2. Unknown(x, q) => q.type \in {"contract", "event"}
    <3>1. ASSUME NEW type, NEW target, NEW external, NEW op, NEW ref, NEW direction,
                 q = Relation(type, x.id, target, external, op, ref[1], ref[2], direction)
          PROVE  q.type = type
      BY <3>1 DEF Relation
    <3>. QED BY <3>1 DEF Unknown
  <2>3. Consumer(live, x, q) \/ Producer(live, x, q) => q.type \in {"contract", "event"}
    BY OriginsTell
  <2>. QED BY <1>6, <2>1, <2>2, <2>3
<1>8. PICK i \in x.service.outbound \cup UNION {o.interactions : o \in x.operations} :
        q.external = i.target /\ q.transport = i.transport /\ q.sure = i.sure
  BY <1>7, DirectTells
<1>9. PICK t \in ToSet(sources) : x.service = t.service /\ x.operations = ToSet(t.operations)
  BY LiveFrom, Zenon DEF live
<1>10. i \in InteractionsIn(t)
  BY <1>8, <1>9 DEF InteractionsIn
<1>. QED BY <1>4, <1>6, <1>8, <1>10

(* The graph with its reviewed external products resolved.                 *)
ResourceOf(e) == StableReferenceID("external:" \o e.edge.transport \o ":" \o e.edge.external, e.edge.external)
TowardOf(e)   == [e.edge EXCEPT !.to = ResourceOf(e)]
MovedOf(e)    == [id |-> StableEdgeID(TowardOf(e)), edge |-> TowardOf(e), pins |-> e.pins]
AuthoredIn(catalog) == {StableEdgeID(EdgeOf(catalog.services, r)) : r \in {x \in catalog.relations : ReviewedExternal(x)}}
ResolvedOf(moving) ==
  {[id |-> ref, kind |-> "external", identity |-> ref[1], pins |-> UNION {e.pins : e \in {x \in moving : ResourceOf(x) = ref}}] : ref \in {ResourceOf(e) : e \in moving}}
ResolvedGraph(references, edges, diagnostics, inventory, authored) ==
  LET moving == {e \in edges : e.id \in authored}
  IN  [ok |-> TRUE, references |-> references \cup ResolvedOf(moving), edges |-> (edges \ moving) \cup {MovedOf(e) : e \in moving},
       diagnostics |-> {d \in diagnostics : ~(d.code = "EDGE_TARGET_UNRESOLVED" /\ d.about \in authored)}, inventory |-> inventory]

LEMMA ResolvedIs ==
  ASSUME NEW references, NEW edges, NEW diagnostics, NEW inventory, NEW graph, NEW catalog,
         graph = [ok |-> TRUE, references |-> references, edges |-> edges, diagnostics |-> diagnostics, inventory |-> inventory]
  PROVE  ResolveFleetExternals(graph, catalog) = ResolvedGraph(references, edges, diagnostics, inventory, AuthoredIn(catalog))
<1> DEFINE authored == AuthoredIn(catalog)
           moving == {e \in edges : e.id \in authored}
           es == (edges \ moving) \cup {MovedOf(e) : e \in moving}
           rs == references \cup ResolvedOf(moving)
           ds == {d \in diagnostics : ~(d.code = "EDGE_TARGET_UNRESOLVED" /\ d.about \in authored)}
<1>1. graph.edges = edges /\ graph.references = references /\ graph.diagnostics = diagnostics
  OBVIOUS
<1>2. ResolveFleetExternals(graph, catalog) = [graph EXCEPT !.edges = es, !.references = rs, !.diagnostics = ds]
  BY <1>1 DEF ResolveFleetExternals, AuthoredIn, MovedOf, TowardOf, ResourceOf, ResolvedOf
<1> HIDE DEF es, rs, ds
<1>3. [graph EXCEPT !.edges = es, !.references = rs, !.diagnostics = ds] =
        [ok |-> TRUE, references |-> rs, edges |-> es, diagnostics |-> ds, inventory |-> inventory]
  <2>1. PICK f : f = [graph EXCEPT !.edges = es]
    OBVIOUS
  <2>2. f = [ok |-> TRUE, references |-> references, edges |-> es, diagnostics |-> diagnostics, inventory |-> inventory]
    BY <2>1
  <2>3. PICK g : g = [f EXCEPT !.references = rs]
    OBVIOUS
  <2>4. g = [ok |-> TRUE, references |-> rs, edges |-> es, diagnostics |-> diagnostics, inventory |-> inventory]
    BY <2>2, <2>3
  <2>8. PICK k : k = [g EXCEPT !.diagnostics = ds]
    OBVIOUS
  <2>5. k = [ok |-> TRUE, references |-> rs, edges |-> es, diagnostics |-> ds, inventory |-> inventory]
    BY <2>4, <2>8
  <2>6. ASSUME NEW h PROVE [h EXCEPT !.edges = es, !.references = rs, !.diagnostics = ds] = [[[h EXCEPT !.edges = es] EXCEPT !.references = rs] EXCEPT !.diagnostics = ds]
    OBVIOUS
  <2>7. [graph EXCEPT !.edges = es, !.references = rs, !.diagnostics = ds] = [g EXCEPT !.diagnostics = ds]
    BY <2>1, <2>3, <2>6
  <2>. QED BY <2>5, <2>7, <2>8
<1>. QED BY <1>2, <1>3 DEF ResolvedGraph, es, rs, ds
SourcesOf(fleet, blobs) == [i \in DOMAIN fleet |-> LockedSource(fleet[i], blobs).source]
FleetPins(fleet)        == UNION {LockedPins(repo) : repo \in ToSet(fleet)}

LEMMA LockedSourceIs ==
  ASSUME NEW repo, NEW blobs, LockedSource(repo, blobs).ok
  PROVE  LET s == LockedSource(repo, blobs).source
         IN  /\ s.identity = repo.identity /\ s.commit = repo.commit /\ s.covered
             /\ DOMAIN s.metadata = DOMAIN repo.declarations
             /\ \A i \in DOMAIN repo.declarations : s.metadata[i].path = repo.declarations[i].path /\ s.metadata[i].checksum = repo.declarations[i].content
<1> DEFINE ContentOf(d) == blobs[[identity |-> repo.identity, commit |-> repo.commit, path |-> d.path]]
           metadata == [i \in DOMAIN repo.declarations |->
                     [kind |-> ContentOf(repo.declarations[i]).kind, id |-> ContentOf(repo.declarations[i]).value.id, path |-> repo.declarations[i].path, checksum |-> repo.declarations[i].content]]
<1>1. PICK service, operations :
        LockedSource(repo, blobs).source =
          [id |-> repo.identity, name |-> repo.serviceID, identity |-> repo.identity, commit |-> repo.commit, head |-> repo.commit, covered |-> TRUE,
           service |-> service, operations |-> operations, discovered |-> <<>>, metadata |-> metadata,
           sameProject |-> TRUE, sameCommit |-> TRUE, sameChecksum |-> TRUE, dirty |-> FALSE, stored |-> TRUE, pinned |-> TRUE, external |-> repo.external]
  BY DEF LockedSource
<1>2. \A i \in DOMAIN repo.declarations : metadata[i].path = repo.declarations[i].path /\ metadata[i].checksum = repo.declarations[i].content
  OBVIOUS
<1>3. DOMAIN metadata = DOMAIN repo.declarations
  OBVIOUS
<1> HIDE DEF metadata
<1>. QED BY <1>1, <1>2, <1>3

(* Every source of a fleet is pinned, and only by its lock.                *)
LEMMA LockedPinsOf ==
  ASSUME NEW fleet, NEW blobs, NEW i \in DOMAIN fleet, LockedSource(fleet[i], blobs).ok, validFleetRepository(fleet[i]),
         fleet[i].declarations \in Seq(ToSet(fleet[i].declarations))
  PROVE  PinsOf(LockedSource(fleet[i], blobs).source, FleetPins(fleet)) # {}
<1> DEFINE repo == fleet[i]
           s == LockedSource(repo, blobs).source
           d == repo.declarations[1]
           m == s.metadata[1]
           pin == [identity |-> repo.identity, commit |-> repo.commit, path |-> d.path, content |-> d.content]
<1>1. 1 \in DOMAIN repo.declarations
  <2>1. PICK ds : ds = repo.declarations
    OBVIOUS
  <2>2. ds # << >> /\ ds \in Seq(ToSet(ds))
    BY <2>1 DEF validFleetRepository
  <2>. QED BY <2>1, <2>2
<1>2. /\ s.identity = repo.identity /\ s.commit = repo.commit
      /\ m.path = d.path /\ m.checksum = d.content /\ m \in ToSet(s.metadata)
  BY <1>1, LockedSourceIs DEF ToSet
<1>3. d \in ToSet(repo.declarations) /\ repo \in ToSet(fleet)
  BY <1>1 DEF ToSet
<1>4. pin \in FleetPins(fleet)
  <2>1. pin \in LockedPins(repo)
    BY <1>3 DEF LockedPins
  <2> HIDE DEF pin, repo
  <2>. QED BY <1>3, <2>1 DEF FleetPins
<1>5. KeyOf(pin) = [identity |-> s.identity, commit |-> s.commit, path |-> m.path] /\ pin.content = m.checksum
  BY <1>2 DEF KeyOf
<1> HIDE DEF pin, m, s
<1>6. pin \in {p \in PinFor(s, m, FleetPins(fleet)) : p.content = m.checksum}
  BY <1>4, <1>5 DEF PinFor
<1>7. pin \in PinsOf(s, FleetPins(fleet))
  BY <1>2, <1>6 DEF PinsOf
<1>. QED BY <1>7 DEF s

LEMMA PinsAreGiven ==
  ASSUME NEW s, NEW pins PROVE PinsOf(s, pins) \subseteq pins
BY DEF PinsOf, PinFor

(* What FleetExport returns.                                               *)
ScopedTo(asked, diagnostics) == {d \in diagnostics : d.code = "FLEET_SCOPE_UNPROVEN" => asked}
LEMMA FleetExportIs ==
  ASSUME NEW fleet, NEW blobs, NEW request, NEW producer, FleetExport(fleet, blobs, request, producer).ok
  PROVE  LET export == FleetExport(fleet, blobs, request, producer)
             sources == SourcesOf(fleet, blobs)
         IN  \E inventory :
               LET graph == GraphOf(sources, FleetPins(fleet), {}, inventory)
                   resolved == ResolvedGraph(graph.references, graph.edges, graph.diagnostics, graph.inventory, AuthoredIn(BuildCatalog(sources)))
               IN  /\ BuildCatalog(sources).ok
                   /\ \A i \in DOMAIN fleet : validFleetRepository(fleet[i]) /\ LockedSource(fleet[i], blobs).ok
                   /\ export.sources = sources
                   /\ export.graph = [ok |-> TRUE, references |-> resolved.references, edges |-> resolved.edges,
                                      diagnostics |-> ScopedTo(request.asked, resolved.diagnostics), inventory |-> resolved.inventory]
<1> DEFINE export == FleetExport(fleet, blobs, request, producer)
           sources == SourcesOf(fleet, blobs)
           catalog == BuildCatalog(sources)
           inventory == IF request.asked /\ request.read /\ VerifyInventory(request.pin, request.document, producer) THEN {request.scope} ELSE {}
           exported == Export(catalog, sources, FleetPins(fleet), {}, inventory)
           graph == GraphOf(sources, FleetPins(fleet), {}, inventory)
           resolved == ResolvedGraph(graph.references, graph.edges, graph.diagnostics, graph.inventory, AuthoredIn(catalog))
<1>1. /\ ParseFleetInputs(fleet) /\ \A i \in DOMAIN fleet : LockedSource(fleet[i], blobs).ok
      /\ export = ResolvedFleet(sources, catalog, exported, request.asked)
  <2>1. [i \in DOMAIN fleet |-> [j \in DOMAIN fleet |-> LockedSource(fleet[j], blobs)][i].source] = sources
    BY DEF SourcesOf
  <2>2. \A i \in DOMAIN fleet : [j \in DOMAIN fleet |-> LockedSource(fleet[j], blobs)][i] = LockedSource(fleet[i], blobs)
    OBVIOUS
  <2> HIDE DEF sources
  <2>. QED BY <2>1, <2>2 DEF FleetExport, FleetPins
<1>2. exported.ok /\ export.sources = sources
  <2>1. ResolvedFleet(sources, catalog, exported, request.asked).ok
    BY <1>1
  <2> HIDE DEF exported, catalog, sources
  <2>. QED BY <1>1, <2>1 DEF ResolvedFleet
<1>3. catalog.ok /\ exported = graph
  BY <1>2, ExportIs
<1>4. ResolveFleetExternals(graph, catalog) = resolved
  <2>1. graph = [ok |-> TRUE, references |-> graph.references, edges |-> graph.edges, diagnostics |-> graph.diagnostics, inventory |-> graph.inventory]
    BY DEF GraphOf
  <2> HIDE DEF graph
  <2>. QED BY <2>1, ResolvedIs
<1>5. resolved = [ok |-> TRUE, references |-> resolved.references, edges |-> resolved.edges, diagnostics |-> resolved.diagnostics, inventory |-> resolved.inventory]
  BY DEF ResolvedGraph
<1>6. export.graph = [resolved EXCEPT !.diagnostics = ScopedTo(request.asked, resolved.diagnostics)]
  <2> HIDE DEF exported, catalog, sources, graph, resolved
  <2>. QED BY <1>1, <1>2, <1>3, <1>4 DEF ResolvedFleet, ScopedTo
<1> HIDE DEF resolved
<1>7. export.graph = [ok |-> TRUE, references |-> resolved.references, edges |-> resolved.edges,
                      diagnostics |-> ScopedTo(request.asked, resolved.diagnostics), inventory |-> resolved.inventory]
  <2>1. PICK a, b, c, e : resolved = [ok |-> TRUE, references |-> a, edges |-> b, diagnostics |-> c, inventory |-> e]
    BY <1>5
  <2>2. PICK d : d = ScopedTo(request.asked, resolved.diagnostics)
    OBVIOUS
  <2>3. PICK g : g = [resolved EXCEPT !.diagnostics = d]
    OBVIOUS
  <2>4. g = [ok |-> TRUE, references |-> a, edges |-> b, diagnostics |-> d, inventory |-> e]
    BY <2>1, <2>3
  <2>5. resolved.references = a /\ resolved.edges = b /\ resolved.inventory = e
    BY <2>1
  <2>. QED BY <1>6, <2>2, <2>3, <2>4, <2>5
<1>8. \A i \in DOMAIN fleet : validFleetRepository(fleet[i]) /\ LockedSource(fleet[i], blobs).ok
  BY <1>1, Zenon DEF ParseFleetInputs
<1>9. PICK kept : kept = inventory
  OBVIOUS
<1> HIDE DEF export, sources, catalog, graph, inventory
<1>. QED BY <1>2, <1>3, <1>7, <1>8, <1>9, Zenon DEF resolved, graph, sources, catalog, export
LEMMA BlockedIs == ASSUME NEW code, NEW about PROVE Blocked(code, about).code = code /\ Blocked(code, about).about = about
BY DEF Blocked

(* Only an edge without a target blocks as unresolved.                     *)
LEMMA SourceCodes ==
  ASSUME NEW s, NEW service, NEW pins, NEW d \in DiagnosticsOf(s, service, pins)
  PROVE  d.code \notin {"EDGE_TARGET_UNRESOLVED", "FLEET_SCOPE_UNPROVEN"}
<1> DEFINE Unless(holds, code, about) == IF holds THEN {} ELSE {Blocked(code, about)}
           Fine(x) == x.code \notin {"EDGE_TARGET_UNRESOLVED", "FLEET_SCOPE_UNPROVEN"}
           Declared(kind) == {m.id : m \in {x \in ToSet(s.metadata) : x.kind = kind}}
           Pinned(m) == IF PinFor(s, m, pins) = {} THEN {Blocked("DECLARATION_PIN_MISSING", m.path)}
                  ELSE Unless(\E p \in PinFor(s, m, pins) : p.content = m.checksum, "DECLARATION_CONTENT_MISMATCH", m.path)
           Described(o) == Unless(o.id \in Declared("operation"), "OPERATION_DECLARATION_METADATA_MISSING", <<o.id>>)
           A == Unless(s.covered, "SERVICE_MANIFEST_MISSING", <<s.id>>) \cup Unless(service.current, "SOURCE_NOT_CURRENT", <<s.id>>)
                \cup Unless(~s.dirty, "SOURCE_DIRTY", <<s.id>>) \cup Unless(s.commit # "", "SOURCE_COMMIT_INVALID", <<s.id>>)
                \cup Unless(s.covered => s.metadata # <<>>, "DECLARATION_METADATA_MISSING", <<s.id>>)
           B == UNION {Pinned(m) : m \in ToSet(s.metadata)}
           C == Unless(s.covered => ManifestID(s) \in Declared("service"), "SERVICE_DECLARATION_METADATA_MISSING", <<s.id>>)
           D == UNION {Described(o) : o \in ToSet(s.operations)}
           E == Unless(~service.incomplete, "DECLARATION_COVERAGE_INCOMPLETE", <<s.id>>)
<1>1. DiagnosticsOf(s, service, pins) = A \cup B \cup C \cup D \cup E
  BY DEF DiagnosticsOf
<1>2. ASSUME NEW holds, NEW code, NEW about, code \notin {"EDGE_TARGET_UNRESOLVED", "FLEET_SCOPE_UNPROVEN"}, NEW x \in Unless(holds, code, about)
      PROVE  Fine(x)
  BY <1>2, BlockedIs
<1> HIDE DEF Unless, Fine, Declared
<1>3. \A x \in A \cup C \cup E : Fine(x)
  <2>1. \A x \in A : Fine(x)
    BY <1>2
  <2>2. \A x \in C \cup E : Fine(x)
    BY <1>2
  <2>. QED BY <2>1, <2>2
<1>4. ASSUME NEW m, NEW x \in Pinned(m) PROVE Fine(x)
  <2>1. CASE PinFor(s, m, pins) = {}
    BY <1>4, <2>1, BlockedIs DEF Fine
  <2>2. CASE PinFor(s, m, pins) # {}
    BY <1>2, <1>4, <2>2
  <2>. QED BY <2>1, <2>2
<1>5. ASSUME NEW o, NEW x \in Described(o) PROVE Fine(x)
  BY <1>2, <1>5
<1> HIDE DEF Pinned, Described
<1>6. \A x \in B \cup D : Fine(x)
  BY <1>4, <1>5
<1> HIDE DEF A, B, C, D, E
<1>7. Fine(d)
  BY <1>1, <1>3, <1>6
<1>. QED BY <1>7 DEF Fine

LEMMA GraphBlocks ==
  ASSUME NEW sources, NEW pins, NEW inventory, NEW id
  PROVE  LET graph == GraphOf(sources, pins, {}, inventory)
         IN  /\ Blocked("EDGE_TARGET_UNRESOLVED", id) \in graph.diagnostics <=> \E e \in graph.edges : e.edge.to = << >> /\ e.id = id
             /\ graph.inventory = {} => Blocked("FLEET_SCOPE_UNPROVEN", << >>) \in graph.diagnostics
<1> DEFINE edges == GraphEdges(sources, pins)
           all == {} \cup SourceBlocks(sources, pins) \cup EdgeBlocks(edges) \cup ScopeBlocks(sources, inventory)
           graph == GraphOf(sources, pins, {}, inventory)
           b == Blocked("EDGE_TARGET_UNRESOLVED", id)
<1>1. graph.diagnostics = all /\ graph.edges = edges /\ graph.inventory = {i \in inventory : i = OwnOf(sources)}
  BY DEF GraphOf
<1>2. b.code = "EDGE_TARGET_UNRESOLVED" /\ b.about = id
  BY BlockedIs
<1>3. b \notin SourceBlocks(sources, pins)
  BY <1>2, SourceCodes DEF SourceBlocks
<1>4. b \notin ScopeBlocks(sources, inventory)
  <2>1. Blocked("GRAPH_SCOPE_EMPTY", << >>).code = "GRAPH_SCOPE_EMPTY" /\ Blocked("FLEET_SCOPE_UNPROVEN", << >>).code = "FLEET_SCOPE_UNPROVEN"
        /\ Blocked("FLEET_INVENTORY_SCOPE_MISMATCH", << >>).code = "FLEET_INVENTORY_SCOPE_MISMATCH"
    BY BlockedIs
  <2> HIDE DEF b
  <2>. QED BY <1>2, <2>1 DEF ScopeBlocks
<1>5. b \in EdgeBlocks(edges) <=> \E e \in edges : e.edge.to = << >> /\ e.id = id
  <2>1. ASSUME NEW x, Blocked("EDGE_TARGET_UNRESOLVED", x) = b PROVE x = id
    BY <1>2, <2>1, BlockedIs
  <2> HIDE DEF edges
  <2>. QED BY <2>1 DEF EdgeBlocks
<1>6. {i \in inventory : i = OwnOf(sources)} = {} => Blocked("FLEET_SCOPE_UNPROVEN", << >>) \in ScopeBlocks(sources, inventory)
  <2>1. {i \in inventory : i = OwnOf(sources)} = {} => OwnOf(sources) \notin inventory
    OBVIOUS
  <2>. QED BY <2>1 DEF ScopeBlocks
<1> HIDE DEF graph, edges, b
<1>7. b \in graph.diagnostics <=> \E e \in graph.edges : e.edge.to = << >> /\ e.id = id
  BY <1>1, <1>3, <1>4, <1>5
<1>8. graph.inventory = {} => Blocked("FLEET_SCOPE_UNPROVEN", << >>) \in graph.diagnostics
  BY <1>1, <1>6
<1>. QED BY <1>7, <1>8 DEF graph, b

(* A lock of sequences of declarations, whose interactions have evidence   *)
(* (validStatement) and whose repositories are no external products (their *)
(* identities begin with git:, fleet_inputs.go:38).                        *)
FleetFits(fleet, blobs) ==
  \A i \in DOMAIN fleet :
    /\ fleet[i].declarations \in Seq(ToSet(fleet[i].declarations))
    /\ LockedSource(fleet[i], blobs).ok =>
         \A x \in InteractionsIn(LockedSource(fleet[i], blobs).source) :
           /\ x.proven
           /\ ("external:" \o x.transport \o ":" \o x.target) \notin {""} \cup {fleet[j].identity : j \in DOMAIN fleet}

IsFleetOf(fleet, blobs) ==
  /\ BuildCatalog(SourcesOf(fleet, blobs)).ok
  /\ \A i \in DOMAIN fleet : validFleetRepository(fleet[i]) /\ LockedSource(fleet[i], blobs).ok

LEMMA FleetSources ==
  ASSUME NEW fleet, NEW blobs, FleetFits(fleet, blobs), IsFleetOf(fleet, blobs), NEW s \in ToSet(SourcesOf(fleet, blobs))
  PROVE  /\ s.identity \in {fleet[j].identity : j \in DOMAIN fleet}
         /\ PinsOf(s, FleetPins(fleet)) # {}
         /\ \A x \in InteractionsIn(s) : x.proven /\ ("external:" \o x.transport \o ":" \o x.target) \notin {""} \cup {fleet[j].identity : j \in DOMAIN fleet}
<1>1. PICK i \in DOMAIN fleet : s = LockedSource(fleet[i], blobs).source
  BY DEF ToSet, SourcesOf
<1>2. LockedSource(fleet[i], blobs).ok /\ validFleetRepository(fleet[i]) /\ fleet[i].declarations \in Seq(ToSet(fleet[i].declarations))
  BY DEF FleetFits, IsFleetOf
<1>3. s.identity = fleet[i].identity
  BY <1>1, <1>2, LockedSourceIs
<1>4. PinsOf(s, FleetPins(fleet)) # {}
  BY <1>1, <1>2, LockedPinsOf
<1>5. \A x \in InteractionsIn(s) : x.proven /\ ("external:" \o x.transport \o ":" \o x.target) \notin {""} \cup {fleet[j].identity : j \in DOMAIN fleet}
  BY <1>1, <1>2 DEF FleetFits
<1>. QED BY <1>3, <1>4, <1>5

(* An edge that moves had no target, and moves to a product that somebody  *)
(* authored and that is no repository.                                     *)
LEMMA MovingIsAuthored ==
  ASSUME NEW fleet, NEW blobs, FleetFits(fleet, blobs), IsFleetOf(fleet, blobs), NEW pins,
         NEW e \in GraphEdges(SourcesOf(fleet, blobs), pins), e.id \in AuthoredIn(BuildCatalog(SourcesOf(fleet, blobs)))
  PROVE  /\ e.edge.to = << >> /\ ResourceOf(e) # << >>
         /\ \A s \in ToSet(SourcesOf(fleet, blobs)) : ReferenceOf(s) # ResourceOf(e)
         /\ \E s \in ToSet(SourcesOf(fleet, blobs)) : \E i \in InteractionsIn(s) :
              i.target = ResourceOf(e)[2] /\ i.sure /\ i.proven /\ i.transport # "unknown"
<1> DEFINE sources == SourcesOf(fleet, blobs)
           identities == {fleet[j].identity : j \in DOMAIN fleet}
<1>1. BuildCatalog(sources).ok /\ BuildCatalog(sources).services = AllOf(sources)
  BY AllIs DEF IsFleetOf
<1>2. PICK r \in BuildCatalog(sources).relations : ReviewedExternal(r) /\ e.id = StableEdgeID(EdgeOf(AllOf(sources), r))
  BY <1>1 DEF AuthoredIn
<1>3. r.target = "" /\ r.external \in {"postgres", "nats"} /\ r.type \in {"outbound_dependency", "operation_interaction"}
      /\ r.sure /\ r.transport \notin {"", "unknown"}
  BY <1>2 DEF ReviewedExternal, fleetExternalTargets
<1>4. e.id = StableEdgeID(e.edge) /\ e.id # << >>
  BY <1>1, GraphEdgesAre
<1> DEFINE edge == EdgeOf(AllOf(sources), r)
<1>5. edge.to = << >> /\ edge.external = r.external /\ edge.transport = r.transport
  <2>1. /\ edge = [from |-> edge.from, to |-> edge.to, type |-> r.type, external |-> r.external, op |-> r.op,
                   transport |-> r.transport, contract |-> r.contract, direction |-> r.direction]
        /\ r.target = "" => edge.to = << >>
    BY <1>1, EdgeIs
  <2> HIDE DEF edge
  <2>2. PICK g : g = edge
    OBVIOUS
  <2>3. PICK a, b : g = [from |-> a, to |-> b, type |-> r.type, external |-> r.external, op |-> r.op,
                         transport |-> r.transport, contract |-> r.contract, direction |-> r.direction]
    BY <2>1, <2>2
  <2>4. g.external = r.external /\ g.transport = r.transport
    BY <2>3
  <2>. QED BY <1>3, <2>1, <2>2, <2>4
<1>6. e.edge.to = << >> /\ e.edge.external = r.external /\ e.edge.transport = r.transport
  <2>1. StableEdgeID(e.edge) = StableEdgeID(edge) /\ StableEdgeID(edge) # << >>
    BY <1>2, <1>4
  <2> HIDE DEF edge
  <2>2. PICK g, h : g = e.edge /\ h = edge
    OBVIOUS
  <2>3. h.to = g.to /\ h.external = g.external /\ h.transport = g.transport
    BY <2>1, <2>2, EdgeIdsTell
  <2>. QED BY <1>5, <2>2, <2>3
<1> HIDE DEF edge
<1>7. PICK s \in ToSet(sources) : \E i \in InteractionsIn(s) : i.target = r.external /\ i.transport = r.transport /\ i.sure
  BY <1>1, <1>3, DirectIsAuthored
<1>7a. PICK i \in InteractionsIn(s) : i.target = r.external /\ i.transport = r.transport /\ i.sure
  BY <1>7
<1>8. i.proven /\ ("external:" \o i.transport \o ":" \o i.target) \notin {""} \cup identities
  BY <1>7a, FleetSources
<1> DEFINE name == "external:" \o r.transport \o ":" \o r.external
<1>9. name # "" /\ name \notin identities
  BY <1>7a, <1>8
<1>10. ResourceOf(e) = StableReferenceID(name, r.external)
  BY <1>6 DEF ResourceOf
<1> HIDE DEF name
<1>11. ResourceOf(e) = <<name, r.external>>
  BY <1>3, <1>9, <1>10 DEF StableReferenceID
<1>12. ASSUME NEW x \in ToSet(sources) PROVE ReferenceOf(x) # ResourceOf(e)
  <2>1. x.identity \in identities
    BY FleetSources
  <2>2. x.identity # name
    BY <1>9, <2>1
  <2>3. ReferenceOf(x) # << >>
    BY <1>1, AllIs
  <2>4. PICK m : ReferenceOf(x) = <<x.identity, m>>
    BY <2>3 DEF ReferenceOf, StableReferenceID
  <2>. QED BY <1>11, <2>2, <2>4
<1>13. ResourceOf(e) # << >> /\ ResourceOf(e)[2] = r.external
  BY <1>11
<1>. QED BY <1>3, <1>6, <1>7a, <1>8, <1>12, <1>13
(* An edge that moves changes its end and nothing else.                    *)
LEMMA TowardIs ==
  ASSUME NEW e, IsEdge(e.edge)
  PROVE  /\ IsEdge(TowardOf(e)) /\ TowardOf(e).from = e.edge.from /\ TowardOf(e).to = ResourceOf(e) /\ TowardOf(e).type = e.edge.type
         /\ TowardOf(e).external = e.edge.external /\ TowardOf(e).op = e.edge.op /\ TowardOf(e).transport = e.edge.transport
         /\ TowardOf(e).contract = e.edge.contract /\ TowardOf(e).direction = e.edge.direction
<1>1. PICK a, b, c, d, f, g, h, i :
        e.edge = [from |-> a, to |-> b, type |-> c, external |-> d, op |-> f, transport |-> g, contract |-> h, direction |-> i]
  BY DEF IsEdge
<1>2. PICK x, t : x = ResourceOf(e) /\ t = [e.edge EXCEPT !.to = x]
  OBVIOUS
<1>3. t = [from |-> a, to |-> x, type |-> c, external |-> d, op |-> f, transport |-> g, contract |-> h, direction |-> i]
  BY <1>1, <1>2
<1>4. t = TowardOf(e)
  BY <1>2 DEF TowardOf
<1>. QED BY <1>1, <1>2, <1>3, <1>4 DEF IsEdge

LEMMA MovedIs ==
  ASSUME NEW e, IsEdge(e.edge), e.edge.from # << >>, ResourceOf(e) # << >>
  PROVE  /\ MovedOf(e).edge = TowardOf(e) /\ MovedOf(e).pins = e.pins
         /\ MovedOf(e).id = StableEdgeID(TowardOf(e)) /\ MovedOf(e).id # << >>
<1>1. MovedOf(e).edge = TowardOf(e) /\ MovedOf(e).pins = e.pins /\ MovedOf(e).id = StableEdgeID(TowardOf(e))
  BY DEF MovedOf
<1>2. PICK t : t = TowardOf(e)
  OBVIOUS
<1>3. t.from # << >> /\ t.to # << >>
  BY <1>2, TowardIs
<1>4. StableEdgeID(t) # << >>
  BY <1>3 DEF StableEdgeID
<1>. QED BY <1>1, <1>2, <1>4

(* No two edges of a fleet share an id, moved or not.                      *)
LEMMA MovedTell ==
  ASSUME NEW fleet, NEW blobs, FleetFits(fleet, blobs), IsFleetOf(fleet, blobs), NEW pins,
         NEW e \in GraphEdges(SourcesOf(fleet, blobs), pins), e.id \in AuthoredIn(BuildCatalog(SourcesOf(fleet, blobs))),
         NEW f \in GraphEdges(SourcesOf(fleet, blobs), pins), f.id \in AuthoredIn(BuildCatalog(SourcesOf(fleet, blobs))),
         MovedOf(e).id = MovedOf(f).id
  PROVE  e = f
<1>1. BuildCatalog(SourcesOf(fleet, blobs)).ok
  BY DEF IsFleetOf
<1>2. IsEdge(e.edge) /\ IsEdge(f.edge) /\ e.edge.from # << >> /\ f.edge.from # << >>
  BY <1>1, GraphEdgesAre
<1>3. e.edge.to = << >> /\ f.edge.to = << >> /\ ResourceOf(e) # << >> /\ ResourceOf(f) # << >>
  BY MovingIsAuthored
<1>4. PICK t, u : t = TowardOf(e) /\ u = TowardOf(f)
  OBVIOUS
<1>5. StableEdgeID(t) = StableEdgeID(u) /\ StableEdgeID(t) # << >>
  BY <1>2, <1>3, <1>4, MovedIs
<1>6. /\ t.from = u.from /\ t.type = u.type /\ t.external = u.external /\ t.op = u.op
      /\ t.transport = u.transport /\ t.contract = u.contract /\ t.direction = u.direction
  BY <1>5, EdgeIdsTell
<1>7. /\ t.from = e.edge.from /\ t.type = e.edge.type /\ t.external = e.edge.external /\ t.op = e.edge.op
      /\ t.transport = e.edge.transport /\ t.contract = e.edge.contract /\ t.direction = e.edge.direction
  BY <1>2, <1>4, TowardIs
<1>8. /\ u.from = f.edge.from /\ u.type = f.edge.type /\ u.external = f.edge.external /\ u.op = f.edge.op
      /\ u.transport = f.edge.transport /\ u.contract = f.edge.contract /\ u.direction = f.edge.direction
  BY <1>2, <1>4, TowardIs
<1>9. e.edge = f.edge
  BY <1>2, <1>3, <1>6, <1>7, <1>8 DEF IsEdge
<1>. QED BY <1>1, <1>9, GraphEdgesTell

LEMMA MixedTell ==
  ASSUME NEW fleet, NEW blobs, FleetFits(fleet, blobs), IsFleetOf(fleet, blobs), NEW pins,
         NEW e \in GraphEdges(SourcesOf(fleet, blobs), pins),
         NEW f \in GraphEdges(SourcesOf(fleet, blobs), pins), f.id \in AuthoredIn(BuildCatalog(SourcesOf(fleet, blobs)))
  PROVE  e.id # MovedOf(f).id
<1> SUFFICES ASSUME e.id = MovedOf(f).id PROVE FALSE
  OBVIOUS
<1>1. BuildCatalog(SourcesOf(fleet, blobs)).ok
  BY DEF IsFleetOf
<1>2. IsEdge(f.edge) /\ f.edge.from # << >> /\ e.id = StableEdgeID(e.edge)
  BY <1>1, GraphEdgesAre
<1>6. ResourceOf(f) # << >> /\ \A s \in ToSet(SourcesOf(fleet, blobs)) : ReferenceOf(s) # ResourceOf(f)
  BY MovingIsAuthored
<1>3. PICK u : u = TowardOf(f)
  OBVIOUS
<1>4. StableEdgeID(e.edge) = StableEdgeID(u) /\ StableEdgeID(u) # << >> /\ u.to = ResourceOf(f)
  BY <1>2, <1>3, <1>6, MovedIs, TowardIs
<1>5. e.edge.to = ResourceOf(f)
  <2>1. PICK g : g = e.edge
    OBVIOUS
  <2>. QED BY <1>4, <2>1, EdgeIdsTell
<1>7. e.edge.to # << >> => \E s \in ToSet(SourcesOf(fleet, blobs)) : e.edge.to = ReferenceOf(s)
  BY <1>1, GraphEdgesAre
<1>. QED BY <1>5, <1>6, <1>7
(* What every edge of the resolved graph is: one that stayed, or one that  *)
(* moved to a product somebody authored.                                   *)
FleetGraphOf(sources, pins, inventory) ==
  LET graph == GraphOf(sources, pins, {}, inventory)
  IN  ResolvedGraph(graph.references, graph.edges, graph.diagnostics, graph.inventory, AuthoredIn(BuildCatalog(sources)))
MovingOf(sources, pins) == {e \in GraphEdges(sources, pins) : e.id \in AuthoredIn(BuildCatalog(sources))}

ResolvedParts(g, R, E, D, I, A) ==
  LET moving == {e \in E : e.id \in A}
  IN  /\ g.edges = (E \ moving) \cup {MovedOf(e) : e \in moving} /\ g.references = R \cup ResolvedOf(moving)
      /\ g.diagnostics = {d \in D : ~(d.code = "EDGE_TARGET_UNRESOLVED" /\ d.about \in A)} /\ g.inventory = I

LEMMA FleetGraphIs ==
  ASSUME NEW sources, NEW pins, NEW inventory
  PROVE  LET graph == FleetGraphOf(sources, pins, inventory)
             moving == MovingOf(sources, pins)
         IN  /\ graph.edges = (GraphEdges(sources, pins) \ moving) \cup {MovedOf(e) : e \in moving}
             /\ graph.references = {GraphReference(s, pins) : s \in ToSet(sources)} \cup ResolvedOf(moving)
             /\ graph.diagnostics = {d \in GraphOf(sources, pins, {}, inventory).diagnostics :
                                      ~(d.code = "EDGE_TARGET_UNRESOLVED" /\ d.about \in AuthoredIn(BuildCatalog(sources)))}
             /\ graph.inventory = GraphOf(sources, pins, {}, inventory).inventory
<1> DEFINE graph == GraphOf(sources, pins, {}, inventory)
           authored == AuthoredIn(BuildCatalog(sources))
<1>1. graph.edges = GraphEdges(sources, pins) /\ graph.references = {GraphReference(s, pins) : s \in ToSet(sources)}
  BY DEF GraphOf
<1>2. ASSUME NEW R, NEW E, NEW D, NEW I, NEW A, NEW g, g = ResolvedGraph(R, E, D, I, A)
      PROVE  ResolvedParts(g, R, E, D, I, A)
  BY <1>2 DEF ResolvedGraph, ResolvedParts
<1> HIDE DEF graph, authored
<1>3. PICK g, R, E, D, I, A : g = ResolvedGraph(R, E, D, I, A) /\ R = graph.references /\ E = graph.edges /\ D = graph.diagnostics /\ I = graph.inventory /\ A = authored
  OBVIOUS
<1>4. LET moving == {e \in graph.edges : e.id \in authored}
      IN  /\ g.edges = (graph.edges \ moving) \cup {MovedOf(e) : e \in moving} /\ g.references = graph.references \cup ResolvedOf(moving)
          /\ g.diagnostics = {d \in graph.diagnostics : ~(d.code = "EDGE_TARGET_UNRESOLVED" /\ d.about \in authored)} /\ g.inventory = graph.inventory
  <2>1. ResolvedParts(g, R, E, D, I, A)
    BY <1>2, <1>3
  <2>. QED BY <1>3, <2>1 DEF ResolvedParts
<1>5. {e \in graph.edges : e.id \in authored} = MovingOf(sources, pins)
  BY <1>1 DEF MovingOf, authored
<1>6. g = FleetGraphOf(sources, pins, inventory)
  BY <1>3 DEF FleetGraphOf, graph, authored
<1>. QED BY <1>1, <1>4, <1>5, <1>6 DEF graph, authored

(* Every edge ends at a reference or blocks, and no two share an id.       *)
EndsIn(e, graph, diagnostics) ==
  /\ e.edge.from \in {r.id : r \in graph.references}
  /\ e.edge.to \in {r.id : r \in graph.references} \/ Blocked("EDGE_TARGET_UNRESOLVED", e.id) \in diagnostics
  /\ e.edge.to # << >> => Blocked("EDGE_TARGET_UNRESOLVED", e.id) \notin diagnostics
  /\ \A f \in graph.edges : e.id = f.id => e = f

LEMMA FleetEdgesEnd ==
  ASSUME NEW fleet, NEW blobs, FleetFits(fleet, blobs), IsFleetOf(fleet, blobs), NEW pins, NEW inventory, NEW asked,
         NEW e \in FleetGraphOf(SourcesOf(fleet, blobs), pins, inventory).edges
  PROVE  EndsIn(e, FleetGraphOf(SourcesOf(fleet, blobs), pins, inventory),
                ScopedTo(asked, FleetGraphOf(SourcesOf(fleet, blobs), pins, inventory).diagnostics))
<1> DEFINE sources == SourcesOf(fleet, blobs)
           graph == FleetGraphOf(sources, pins, inventory)
           before == GraphOf(sources, pins, {}, inventory)
           moving == MovingOf(sources, pins)
           edges == GraphEdges(sources, pins)
           ids == {r.id : r \in graph.references}
           diagnostics == ScopedTo(asked, graph.diagnostics)
           authored == AuthoredIn(BuildCatalog(sources))
           B(x) == Blocked("EDGE_TARGET_UNRESOLVED", x)
<1>1. /\ graph.edges = (edges \ moving) \cup {MovedOf(x) : x \in moving}
      /\ graph.references = {GraphReference(s, pins) : s \in ToSet(sources)} \cup ResolvedOf(moving)
      /\ graph.diagnostics = {d \in before.diagnostics : ~(d.code = "EDGE_TARGET_UNRESOLVED" /\ d.about \in authored)}
  BY FleetGraphIs
<1>2. moving = {x \in edges : x.id \in authored} /\ before.edges = edges
  BY DEF MovingOf, GraphOf
<1>3. \A x \in edges :
        /\ IsEdge(x.edge) /\ x.id = StableEdgeID(x.edge) /\ x.id # << >> /\ x.edge.from # << >>
        /\ \E s \in ToSet(sources) : x.edge.from = ReferenceOf(s)
        /\ x.edge.to # << >> => \E s \in ToSet(sources) : x.edge.to = ReferenceOf(s)
  BY GraphEdgesAre DEF IsFleetOf
<1>4. \A x \in moving : x.edge.to = << >> /\ ResourceOf(x) # << >>
  BY <1>2, MovingIsAuthored
<1>5. \A x \in moving : \A y \in moving : MovedOf(x).id = MovedOf(y).id => x = y
  BY <1>2, MovedTell
<1>6. \A x \in edges : \A y \in moving : x.id # MovedOf(y).id
  BY <1>2, MixedTell
<1>7. \A x \in edges : \A y \in edges : x.id = y.id => x = y
  <2>1. ASSUME NEW x \in edges, NEW y \in edges, x.id = y.id PROVE x.edge = y.edge
    <3>1. PICK f, g : f = x.edge /\ g = y.edge
      OBVIOUS
    <3>2. IsEdge(f) /\ IsEdge(g) /\ StableEdgeID(f) = StableEdgeID(g) /\ StableEdgeID(f) # << >>
      BY <1>3, <2>1, <3>1
    <3>3. f = g
      BY <3>2, EqualEdges
    <3>. QED BY <3>1, <3>3
  <2>. QED BY <2>1, GraphEdgesTell DEF IsFleetOf
<1>8. \A x : B(x) \in before.diagnostics <=> \E y \in edges : y.edge.to = << >> /\ y.id = x
  BY <1>2, GraphBlocks
<1>9. \A x : B(x) \in diagnostics <=> B(x) \in before.diagnostics /\ x \notin authored
  <2>1. \A x : B(x).code = "EDGE_TARGET_UNRESOLVED" /\ B(x).about = x
    BY BlockedIs
  <2> HIDE DEF B, graph, before, authored
  <2>. QED BY <1>1, <2>1 DEF ScopedTo
<1>10. \A s \in ToSet(sources) : ReferenceOf(s) \in ids
  <2>1. ASSUME NEW s \in ToSet(sources) PROVE ReferenceOf(s) \in ids
    <3>1. GraphReference(s, pins) \in graph.references
      BY <1>1
    <3>2. GraphReference(s, pins).id = ReferenceOf(s)
      BY DEF GraphReference
    <3> HIDE DEF graph, sources
    <3>. QED BY <3>1, <3>2
  <2>. QED BY <2>1
<1>11. \A x \in moving : ResourceOf(x) \in ids
  <2>1. ASSUME NEW x \in moving PROVE ResourceOf(x) \in ids
    <3>1. PICK y \in ResolvedOf(moving) : y.id = ResourceOf(x)
      <4>1. ASSUME NEW ref \in {ResourceOf(y) : y \in moving} PROVE \E y \in ResolvedOf(moving) : y.id = ref
        <5>1. PICK y : y = [id |-> ref, kind |-> "external", identity |-> ref[1], pins |-> UNION {z.pins : z \in {w \in moving : ResourceOf(w) = ref}}]
          OBVIOUS
        <5>2. y \in ResolvedOf(moving)
          BY <4>1, <5>1 DEF ResolvedOf
        <5>. QED BY <5>1, <5>2
      <4>. QED BY <2>1, <4>1
    <3> HIDE DEF moving, graph
    <3>. QED BY <1>1, <3>1
  <2>. QED BY <2>1
<1>12. \A x \in moving : MovedOf(x).edge = TowardOf(x) /\ TowardOf(x).from = x.edge.from /\ TowardOf(x).to = ResourceOf(x)
  BY <1>2, <1>3, <1>4, MovedIs, TowardIs
<1> HIDE DEF moving, edges, graph, before, diagnostics, authored, ids, B, sources
<1>13. CASE e \in edges \ moving
  <2>1. e.id \notin authored
    BY <1>2, <1>13
  <2>2. e.edge.from \in ids /\ (e.edge.to \in ids \/ e.edge.to = << >>)
    BY <1>3, <1>10, <1>13
  <2>3. e.edge.to = << >> <=> B(e.id) \in diagnostics
    BY <1>7, <1>8, <1>9, <1>13, <2>1
  <2>4. \A f \in graph.edges : e.id = f.id => e = f
    BY <1>1, <1>6, <1>7, <1>13
  <2>. QED BY <2>2, <2>3, <2>4 DEF EndsIn, graph, diagnostics, ids, B, sources
<1>14. CASE e \in {MovedOf(x) : x \in moving}
  <2>1. PICK x \in moving : e = MovedOf(x)
    BY <1>14
  <2>2. e.edge.from \in ids /\ e.edge.to \in ids
    <3>1. e.edge.from = x.edge.from /\ e.edge.to = ResourceOf(x)
      BY <1>12, <2>1
    <3>. QED BY <1>2, <1>3, <1>10, <1>11, <3>1
  <2>3. B(e.id) \notin diagnostics
    BY <1>6, <1>8, <1>9, <2>1
  <2>4. \A f \in graph.edges : e.id = f.id => e = f
    BY <1>1, <1>5, <1>6, <2>1
  <2>. QED BY <2>2, <2>3, <2>4 DEF EndsIn, graph, diagnostics, ids, B, sources
<1>. QED BY <1>1, <1>13, <1>14 DEF graph, sources

(* Every reference is pinned, and only by the lock.                        *)
LEMMA FleetReferences ==
  ASSUME NEW fleet, NEW blobs, FleetFits(fleet, blobs), IsFleetOf(fleet, blobs), NEW inventory,
         NEW r \in FleetGraphOf(SourcesOf(fleet, blobs), FleetPins(fleet), inventory).references
  PROVE  /\ r.pins # {} /\ r.pins \subseteq FleetPins(fleet)
         /\ r.kind = "external" => \E s \in ToSet(SourcesOf(fleet, blobs)) : \E i \in InteractionsIn(s) :
              i.target = r.id[2] /\ i.sure /\ i.proven /\ i.transport # "unknown"
<1> DEFINE sources == SourcesOf(fleet, blobs)
           pins == FleetPins(fleet)
           moving == MovingOf(sources, pins)
<1>1. r \in {GraphReference(s, pins) : s \in ToSet(sources)} \cup ResolvedOf(moving)
  BY FleetGraphIs
<1>2. CASE r \in {GraphReference(s, pins) : s \in ToSet(sources)}
  <2>1. PICK s \in ToSet(sources) : r = GraphReference(s, pins)
    BY <1>2
  <2>2. r.pins = PinsOf(s, pins) /\ r.kind # "external"
    BY <2>1 DEF GraphReference
  <2>3. PinsOf(s, pins) # {} /\ PinsOf(s, pins) \subseteq pins
    BY FleetSources, PinsAreGiven
  <2>. QED BY <2>2, <2>3
<1>3. CASE r \in ResolvedOf(moving)
  <2>1. PICK ref \in {ResourceOf(e) : e \in moving} :
          r = [id |-> ref, kind |-> "external", identity |-> ref[1], pins |-> UNION {e.pins : e \in {x \in moving : ResourceOf(x) = ref}}]
    BY <1>3 DEF ResolvedOf
  <2>2. r.id = ref /\ r.pins = UNION {e.pins : e \in {x \in moving : ResourceOf(x) = ref}}
    BY <2>1
  <2>3. PICK e \in moving : ResourceOf(e) = ref
    BY <2>1
  <2>4. e \in GraphEdges(sources, pins) /\ e.id \in AuthoredIn(BuildCatalog(sources))
    BY <2>3 DEF MovingOf
  <2>5. \A x \in moving : x.pins \subseteq pins
    <3>1. ASSUME NEW x \in moving PROVE x.pins \subseteq pins
      <4>1. x \in GraphEdges(sources, pins)
        BY DEF MovingOf
      <4>2. x.pins = UNION {PinsOf(s, pins) : s \in {y \in ToSet(sources) : ReferenceOf(y) \in {x.edge.from, x.edge.to}}}
        BY <4>1, GraphEdgesAre DEF IsFleetOf
      <4>. QED BY <4>2, PinsAreGiven
    <3>. QED BY <3>1
  <2>6. PICK s \in ToSet(sources) : PinsOf(s, pins) \subseteq e.pins
    BY <2>4, GraphEdgesAre DEF IsFleetOf
  <2>7. PinsOf(s, pins) # {}
    BY FleetSources
  <2>8. \E t \in ToSet(sources) : \E i \in InteractionsIn(t) : i.target = ResourceOf(e)[2] /\ i.sure /\ i.proven /\ i.transport # "unknown"
    BY <2>4, MovingIsAuthored
  <2> HIDE DEF moving, sources, pins
  <2>9. r.pins # {} /\ r.pins \subseteq pins
    BY <2>2, <2>3, <2>5, <2>6, <2>7
  <2>. QED BY <2>2, <2>3, <2>8, <2>9 DEF sources, pins
<1>. QED BY <1>1, <1>2, <1>3

(* A published fleet graph rests on its lock alone, whatever the           *)
(* repositories declare (FleetExport.Handle, ResolveFleetExternals).       *)
THEOREM FleetGraphsAreLocked ==
  ASSUME NEW fleet, NEW blobs, NEW request, NEW producer, FleetFits(fleet, blobs)
  PROVE  FleetGraphIsLocked(fleet, request, FleetExport(fleet, blobs, request, producer))
<1> DEFINE export == FleetExport(fleet, blobs, request, producer)
           sources == SourcesOf(fleet, blobs)
           pins == FleetPins(fleet)
<1> SUFFICES ASSUME export.ok PROVE FleetGraphIsLocked(fleet, request, export)
  BY DEF FleetGraphIsLocked
<1>1. PICK inventory :
        LET g == GraphOf(sources, pins, {}, inventory)
            resolved == ResolvedGraph(g.references, g.edges, g.diagnostics, g.inventory, AuthoredIn(BuildCatalog(sources)))
        IN  /\ BuildCatalog(sources).ok
            /\ \A i \in DOMAIN fleet : validFleetRepository(fleet[i]) /\ LockedSource(fleet[i], blobs).ok
            /\ export.sources = sources
            /\ export.graph = [ok |-> TRUE, references |-> resolved.references, edges |-> resolved.edges,
                               diagnostics |-> ScopedTo(request.asked, resolved.diagnostics), inventory |-> resolved.inventory]
  BY FleetExportIs
<1> DEFINE resolved == FleetGraphOf(sources, pins, inventory)
           graph == export.graph
<1>2. /\ IsFleetOf(fleet, blobs) /\ export.sources = sources
      /\ graph = [ok |-> TRUE, references |-> resolved.references, edges |-> resolved.edges,
                  diagnostics |-> ScopedTo(request.asked, resolved.diagnostics), inventory |-> resolved.inventory]
  BY <1>1 DEF IsFleetOf, FleetGraphOf
<1> HIDE DEF resolved
<1>3. /\ graph.references = resolved.references /\ graph.edges = resolved.edges /\ graph.inventory = resolved.inventory
      /\ graph.diagnostics = ScopedTo(request.asked, resolved.diagnostics)
  BY <1>2
<1>4. \A e \in resolved.edges :
        /\ e.edge.from \in {r.id : r \in resolved.references}
        /\ e.edge.to \in {r.id : r \in resolved.references} \/ Blocked("EDGE_TARGET_UNRESOLVED", e.id) \in ScopedTo(request.asked, resolved.diagnostics)
        /\ e.edge.to # << >> => Blocked("EDGE_TARGET_UNRESOLVED", e.id) \notin ScopedTo(request.asked, resolved.diagnostics)
        /\ \A f \in resolved.edges : e.id = f.id => e = f
  <2>1. PICK asked : asked = request.asked
    OBVIOUS
  <2>2. ASSUME NEW e \in resolved.edges PROVE EndsIn(e, resolved, ScopedTo(asked, resolved.diagnostics))
    BY <1>2, FleetEdgesEnd DEF resolved
  <2>. QED BY <2>1, <2>2 DEF EndsIn
<1>5. \A r \in resolved.references :
        /\ r.pins # {} /\ r.pins \subseteq pins
        /\ r.kind = "external" => \E s \in ToSet(sources) : \E i \in InteractionsIn(s) : i.target = r.id[2] /\ i.sure /\ i.proven /\ i.transport # "unknown"
  BY <1>2, FleetReferences DEF resolved
<1>6. request.asked => graph.inventory # {} \/ Blocked("FLEET_SCOPE_UNPROVEN", << >>) \in graph.diagnostics
  <2> DEFINE b == Blocked("FLEET_SCOPE_UNPROVEN", << >>)
             before == GraphOf(sources, pins, {}, inventory)
  <2>1. before.inventory = {} => b \in before.diagnostics
    BY GraphBlocks
  <2>2. b.code = "FLEET_SCOPE_UNPROVEN"
    BY BlockedIs
  <2>3. /\ resolved.diagnostics = {d \in before.diagnostics : ~(d.code = "EDGE_TARGET_UNRESOLVED" /\ d.about \in AuthoredIn(BuildCatalog(sources)))}
        /\ resolved.inventory = before.inventory
    BY FleetGraphIs DEF resolved
  <2> HIDE DEF b, before, sources, pins, graph
  <2>4. request.asked /\ graph.inventory = {} => b \in ScopedTo(request.asked, resolved.diagnostics)
    BY <1>3, <2>1, <2>2, <2>3 DEF ScopedTo
  <2>. QED BY <1>3, <2>4 DEF b
<1> HIDE DEF export, sources, pins
<1>. QED BY <1>2, <1>3, <1>4, <1>5, <1>6 DEF FleetGraphIsLocked, InteractionsIn, FleetPins, pins

-----------------------------------------------------------------------------
(***************************************************************************)
(* A graph without a diagnostic.                                           *)
(***************************************************************************)
(* What was discovered has a manifest of its signature or of its source.   *)
HasManifest(o, manifests) == \E m \in manifests : m.type = o.type /\ (m.key = o.key \/ \E e \in m.evidence : e.source = o.source)
IsTally(a) == /\ a = [with |-> a.with, missing |-> a.missing, blocked |-> a.blocked, matched |-> a.matched]
              /\ a.with \in Nat /\ a.missing \in Nat /\ a.blocked \in Nat

LEMMA ZeroMembers ==
  ASSUME NEW S, Cardinality(S) = 1 PROVE S # {}
BY FS_EmptySet

LEMMA CountIs ==
  ASSUME NEW acc, IsTally(acc), NEW o, NEW manifests, NEW declared, declared \subseteq manifests,
         NEW next, next = CountDiscovered(acc, o, declared)
  PROVE  /\ IsTally(next) /\ next.missing >= acc.missing /\ next.blocked >= acc.blocked
         /\ next.missing = acc.missing /\ next.blocked = acc.blocked => HasManifest(o, manifests)
<1>1. PICK w, x, b, t : acc = [with |-> w, missing |-> x, blocked |-> b, matched |-> t] /\ w \in Nat /\ x \in Nat /\ b \in Nat
  BY DEF IsTally
<1>2. acc.with = w /\ acc.missing = x /\ acc.blocked = b /\ acc.matched = t
  BY <1>1
<1> DEFINE same == {m \in declared : Signature(m) = Signature(o)}
           near == uniqueCatalogSourceOperationManifest(o, declared, acc.matched)
<1>3. CASE ~Normal(o)
  <2>1. next = [acc EXCEPT !.blocked = @ + 1]
    BY <1>3 DEF CountDiscovered
  <2>2. next = [with |-> w, missing |-> x, blocked |-> b + 1, matched |-> t]
    BY <1>1, <2>1
  <2>. QED BY <1>1, <1>2, <2>2 DEF IsTally
<1>4. CASE Normal(o) /\ Cardinality(same) = 1
  <2>1. next = [acc EXCEPT !.with = @ + 1, !.matched = @ \cup {Signature(o)}]
    BY <1>4 DEF CountDiscovered
  <2>2. PICK u : u = t \cup {Signature(o)}
    OBVIOUS
  <2>3. next = [with |-> w + 1, missing |-> x, blocked |-> b, matched |-> u]
    BY <1>1, <1>2, <2>1, <2>2
  <2>4. PICK m \in declared : Signature(m) = Signature(o)
    BY <1>4, ZeroMembers
  <2>5. m.type = o.type /\ m.key = o.key
    BY <2>4 DEF Signature
  <2>. QED BY <1>1, <1>2, <2>3, <2>5 DEF IsTally, HasManifest
<1>5. CASE Normal(o) /\ Cardinality(same) # 1 /\ Cardinality(same) > 1
  <2>1. next = [acc EXCEPT !.blocked = @ + 1, !.matched = @ \cup {Signature(o)}]
    BY <1>5 DEF CountDiscovered
  <2>2. PICK u : u = t \cup {Signature(o)}
    OBVIOUS
  <2>3. next = [with |-> w, missing |-> x, blocked |-> b + 1, matched |-> u]
    BY <1>1, <1>2, <2>1, <2>2
  <2>. QED BY <1>1, <1>2, <2>3 DEF IsTally
<1>6. CASE Normal(o) /\ Cardinality(same) # 1 /\ ~(Cardinality(same) > 1) /\ near = {}
  <2>1. next = [acc EXCEPT !.missing = @ + 1]
    BY <1>6 DEF CountDiscovered
  <2>2. next = [with |-> w, missing |-> x + 1, blocked |-> b, matched |-> t]
    BY <1>1, <2>1
  <2>. QED BY <1>1, <1>2, <2>2 DEF IsTally
<1>7. CASE Normal(o) /\ Cardinality(same) # 1 /\ ~(Cardinality(same) > 1) /\ near # {}
  <2>1. next = [acc EXCEPT !.with = @ + 1, !.matched = @ \cup near]
    BY <1>7 DEF CountDiscovered
  <2>2. PICK u : u = t \cup near
    OBVIOUS
  <2>3. next = [with |-> w + 1, missing |-> x, blocked |-> b, matched |-> u]
    <3> HIDE DEF near
    <3>. QED BY <1>1, <1>2, <2>1, <2>2
  <2>4. \E m \in declared : m.type = o.type /\ \E e \in m.evidence : e.source = o.source
    BY <1>7 DEF uniqueCatalogSourceOperationManifest
  <2>. QED BY <1>1, <1>2, <2>3, <2>4 DEF IsTally, HasManifest
<1>. QED BY <1>3, <1>4, <1>5, <1>6, <1>7

(* Discovered operations one after the other.                              *)
NoTally == [with |-> 0, missing |-> 0, blocked |-> 0, matched |-> {}]
IsCount(done, discovered, declared) ==
  /\ DOMAIN done = 0..Len(discovered) /\ done[0] = NoTally
  /\ \A n \in 1..Len(discovered) : done[n] = CountDiscovered(done[n - 1], discovered[n], declared)

LEMMA CountWalks ==
  ASSUME NEW discovered, Len(discovered) \in Nat, NEW manifests
  PROVE  \E done : /\ IsCount(done, discovered, {m \in manifests : Normal(m)})
                   /\ applyDiscoveredOperations(discovered, manifests).missing = done[Len(discovered)].missing
                   /\ applyDiscoveredOperations(discovered, manifests).blocked = done[Len(discovered)].blocked
<1> DEFINE declared == {m \in manifests : Normal(m)}
           Value(f, n) == IF n = 0 THEN NoTally ELSE CountDiscovered(f[n - 1], discovered[n], declared)
           S == {n \in Nat : \E f : f = [m \in 0..n |-> Value(f, m)]}
<1>1. 0 \in S
  <2> DEFINE f == [m \in 0..0 |-> NoTally]
  <2>1. f = [m \in 0..0 |-> Value(f, m)]
    OBVIOUS
  <2>. QED BY <2>1
<1>2. ASSUME NEW n \in Nat, n \in S PROVE n + 1 \in S
  <2>1. PICK f : f = [m \in 0..n |-> Value(f, m)]
    BY <1>2
  <2> DEFINE g == [m \in 0..(n + 1) |-> IF m = n + 1 THEN CountDiscovered(f[n], discovered[n + 1], declared) ELSE f[m]]
  <2>2. ASSUME NEW m \in 0..(n + 1) PROVE g[m] = Value(g, m)
    <3>1. CASE m = n + 1
      <4>1. g[n] = f[n] /\ m - 1 = n /\ m # 0
        BY <3>1
      <4> HIDE DEF declared
      <4>. QED BY <3>1, <4>1
    <3>2. CASE m = 0
      BY <2>1, <3>2
    <3>3. CASE m \in 1..n
      <4>1. g[m] = f[m] /\ g[m - 1] = f[m - 1] /\ m # 0
        BY <3>3
      <4>2. f[m] = Value(f, m)
        <5>1. m \in 0..n
          BY <3>3
        <5> HIDE DEF Value
        <5>. QED BY <2>1, <5>1
      <4>. QED BY <4>1, <4>2
    <3>. QED BY <3>1, <3>2, <3>3
  <2>3. g = [m \in 0..(n + 1) |-> Value(g, m)]
    <3>1. g = [m \in 0..(n + 1) |-> g[m]]
      OBVIOUS
    <3> HIDE DEF g, Value
    <3>. QED BY <2>2, <3>1
  <2>4. n + 1 \in Nat
    OBVIOUS
  <2> HIDE DEF g, Value
  <2>. QED BY <2>3, <2>4
<1>3. Len(discovered) \in S
  <2> HIDE DEF S
  <2>. QED BY <1>1, <1>2, NumbersFrom
<1> DEFINE done == CHOOSE f : f = [m \in 0..Len(discovered) |-> Value(f, m)]
<1>4. done = [m \in 0..Len(discovered) |-> Value(done, m)]
  BY <1>3
<1>5. /\ applyDiscoveredOperations(discovered, manifests).missing = done[Len(discovered)].missing
      /\ applyDiscoveredOperations(discovered, manifests).blocked = done[Len(discovered)].blocked
  BY DEF applyDiscoveredOperations, NoTally
<1> HIDE DEF done
<1>6. IsCount(done, discovered, declared)
  <2>1. DOMAIN done = 0..Len(discovered)
    BY <1>4
  <2>2. \A m \in 0..Len(discovered) : done[m] = Value(done, m)
    <3> HIDE DEF Value
    <3>. QED BY <1>4
  <2>5. 0 \in 0..Len(discovered)
    OBVIOUS
  <2> HIDE DEF declared
  <2>3. done[0] = NoTally
    BY <2>2, <2>5
  <2>4. \A n \in 1..Len(discovered) : done[n] = CountDiscovered(done[n - 1], discovered[n], declared)
    BY <2>2
  <2>. QED BY <2>1, <2>3, <2>4 DEF IsCount
<1> HIDE DEF declared
<1>. QED BY <1>5, <1>6 DEF declared

LEMMA DiscoveredAreDeclared ==
  ASSUME NEW discovered, Len(discovered) \in Nat, NEW manifests,
         ~(applyDiscoveredOperations(discovered, manifests).missing > 0), ~(applyDiscoveredOperations(discovered, manifests).blocked > 0)
  PROVE  \A i \in 1..Len(discovered) : HasManifest(discovered[i], manifests)
<1> DEFINE declared == {m \in manifests : Normal(m)}
           last == Len(discovered)
<1>1. PICK done : IsCount(done, discovered, declared) /\ ~(done[last].missing > 0) /\ ~(done[last].blocked > 0)
  BY CountWalks
<1>2. declared \subseteq manifests
  OBVIOUS
<1> HIDE DEF declared
<1> DEFINE Told(n) == done[n].missing = 0 /\ done[n].blocked = 0 => \A i \in 1..n : HasManifest(discovered[i], manifests)
           S == {n \in Nat : n <= last => IsTally(done[n]) /\ Told(n)}
<1>3. 0 \in S
  <2>1. IsTally(done[0])
    BY <1>1 DEF IsCount, NoTally, IsTally
  <2>. QED BY <2>1
<1>4. ASSUME NEW n \in Nat, n \in S PROVE n + 1 \in S
  <2>1. SUFFICES ASSUME n + 1 <= last PROVE IsTally(done[n + 1]) /\ Told(n + 1)
    OBVIOUS
  <2>2. IsTally(done[n]) /\ Told(n)
    BY <1>4, <2>1
  <2>3. done[n + 1] = CountDiscovered(done[n], discovered[n + 1], declared)
    <3>1. n + 1 \in 1..last /\ (n + 1) - 1 = n
      BY <2>1
    <3>. QED BY <1>1, <3>1 DEF IsCount
  <2>4. PICK a, o, b : a = done[n] /\ o = discovered[n + 1] /\ b = done[n + 1]
    OBVIOUS
  <2>5. /\ IsTally(b) /\ b.missing >= a.missing /\ b.blocked >= a.blocked
        /\ b.missing = a.missing /\ b.blocked = a.blocked => HasManifest(o, manifests)
    BY <1>2, <2>2, <2>3, <2>4, CountIs
  <2>6. b.missing = 0 /\ b.blocked = 0 => a.missing = 0 /\ a.blocked = 0 /\ HasManifest(o, manifests)
    BY <2>2, <2>4, <2>5 DEF IsTally
  <2>7. \A i \in 1..(n + 1) : i \in 1..n \/ i = n + 1
    OBVIOUS
  <2>. QED BY <2>2, <2>4, <2>5, <2>6, <2>7
<1>5. last \in S
  <2> HIDE DEF S
  <2>. QED BY <1>3, <1>4, NumbersFrom
<1>6. IsTally(done[last]) /\ Told(last)
  BY <1>5
<1>7. done[last].missing = 0 /\ done[last].blocked = 0
  <2>1. PICK x, y : x = done[last].missing /\ y = done[last].blocked
    OBVIOUS
  <2>. QED BY <1>1, <1>6, <2>1 DEF IsTally
<1>. QED BY <1>6, <1>7

(* What a source without a diagnostic is.                                  *)
IsDeclared(s, kind, id) == \E m \in ToSet(s.metadata) : m.kind = kind /\ m.id = id
LEMMA SourceIsClean ==
  ASSUME NEW s, NEW service, NEW pins, DiagnosticsOf(s, service, pins) = {}
  PROVE  /\ s.covered /\ service.current /\ ~s.dirty /\ ~service.incomplete
         /\ IsDeclared(s, "service", ManifestID(s)) /\ \A o \in ToSet(s.operations) : IsDeclared(s, "operation", o.id)
         /\ \A m \in ToSet(s.metadata) : \E p \in PinFor(s, m, pins) : p.content = m.checksum
<1> DEFINE Unless(holds, code, about) == IF holds THEN {} ELSE {Blocked(code, about)}
           Declared(kind) == {m.id : m \in {x \in ToSet(s.metadata) : x.kind = kind}}
           Pinned(m) == IF PinFor(s, m, pins) = {} THEN {Blocked("DECLARATION_PIN_MISSING", m.path)}
                  ELSE Unless(\E p \in PinFor(s, m, pins) : p.content = m.checksum, "DECLARATION_CONTENT_MISMATCH", m.path)
           Described(o) == Unless(o.id \in Declared("operation"), "OPERATION_DECLARATION_METADATA_MISSING", <<o.id>>)
           A1 == Unless(s.covered, "SERVICE_MANIFEST_MISSING", <<s.id>>)
           A2 == Unless(service.current, "SOURCE_NOT_CURRENT", <<s.id>>)
           A3 == Unless(~s.dirty, "SOURCE_DIRTY", <<s.id>>)
           A4 == Unless(s.commit # "", "SOURCE_COMMIT_INVALID", <<s.id>>)
           A5 == Unless(s.covered => s.metadata # <<>>, "DECLARATION_METADATA_MISSING", <<s.id>>)
           B == UNION {Pinned(m) : m \in ToSet(s.metadata)}
           C == Unless(s.covered => ManifestID(s) \in Declared("service"), "SERVICE_DECLARATION_METADATA_MISSING", <<s.id>>)
           D == UNION {Described(o) : o \in ToSet(s.operations)}
           E == Unless(~service.incomplete, "DECLARATION_COVERAGE_INCOMPLETE", <<s.id>>)
<1>1. DiagnosticsOf(s, service, pins) = A1 \cup A2 \cup A3 \cup A4 \cup A5 \cup B \cup C \cup D \cup E
  BY DEF DiagnosticsOf
<1>2. ASSUME NEW kind, NEW id \in Declared(kind) PROVE IsDeclared(s, kind, id)
  BY <1>2 DEF IsDeclared
<1> HIDE DEF Declared
<1>3. A1 = {} /\ A2 = {} /\ A3 = {} /\ B = {} /\ C = {} /\ D = {} /\ E = {}
  <2> HIDE DEF A1, A2, A3, A4, A5, B, C, D, E
  <2>. QED BY <1>1
<1>4. s.covered /\ service.current /\ ~s.dirty /\ ~service.incomplete
  BY <1>3
<1>5. ManifestID(s) \in Declared("service")
  BY <1>3, <1>4
<1>6. \A o \in ToSet(s.operations) : o.id \in Declared("operation")
  <2>1. ASSUME NEW o \in ToSet(s.operations) PROVE o.id \in Declared("operation")
    <3>1. Described(o) = {}
      <4> HIDE DEF Described
      <4>. QED BY <1>3
    <3>. QED BY <3>1
  <2>. QED BY <2>1
<1>7. \A m \in ToSet(s.metadata) : \E p \in PinFor(s, m, pins) : p.content = m.checksum
  <2>1. ASSUME NEW m \in ToSet(s.metadata) PROVE \E p \in PinFor(s, m, pins) : p.content = m.checksum
    <3>1. Pinned(m) = {}
      <4> HIDE DEF Pinned
      <4>. QED BY <1>3
    <3>. QED BY <3>1
  <2>. QED BY <2>1
<1>. QED BY <1>2, <1>4, <1>5, <1>6, <1>7

(* Ids name their projects (LatestSources), and what was read of them are  *)
(* sequences.                                                              *)
ExportFits(latest) ==
  \A id \in DOMAIN latest :
    /\ latest[id].id = id
    /\ latest[id].operations \in Seq(ToSet(latest[id].operations)) /\ latest[id].discovered \in Seq(ToSet(latest[id].discovered))
    /\ latest[id].covered => latest[id].service.declared \in Nat

(* What the export of CURRENT takes as pins.                               *)
WantedOf(sources) ==
  UNION {{[identity |-> s.identity, commit |-> s.commit, path |-> m.path] : m \in ToSet(s.metadata)} : s \in {x \in ToSet(sources) : x.stored}}
StoredPins(sources, blobs) ==
  {[identity |-> k.identity, commit |-> k.commit, path |-> k.path, content |-> blobs[k]] : k \in WantedOf(sources) \cap DOMAIN blobs}
CurrentOf(topology, latest) == [i \in DOMAIN topology |-> latest[topology[i].id]]

LEMMA ExportCurrentIs ==
  ASSUME NEW topology, NEW latest, NEW blobs, NEW request, NEW producer,
         ExportCurrent(topology, latest, blobs, request, producer).ok
  PROVE  LET sources == CurrentOf(topology, latest)
             graph == ExportCurrent(topology, latest, blobs, request, producer)
         IN  /\ \A i \in DOMAIN topology : /\ topology[i].id \in DOMAIN latest
                                           /\ latest[topology[i].id].snapshot = topology[i].snapshot
             /\ BuildCatalog(sources).ok
             /\ \E given, inventory :
                  /\ graph = GraphOf(sources, StoredPins(sources, blobs), given, inventory)
                  /\ inventory # {} => request.asked /\ inventory = {request.scope}
<1> DEFINE sources == CurrentOf(topology, latest)
           current == Sources(topology, latest)
           graph == ExportCurrent(topology, latest, blobs, request, producer)
           verified == request.asked /\ request.read /\ VerifyInventory(request.pin, request.document, producer)
           inventory == IF verified THEN {request.scope} ELSE {}
<1>1. current.ok
  <2>1. ~current.ok => graph = [ok |-> FALSE]
    BY DEF ExportCurrent
  <2> HIDE DEF current, graph
  <2>2. graph.ok
    BY DEF graph
  <2>. QED BY <2>1, <2>2
<1>2. /\ \A i \in DOMAIN topology : topology[i].id \in DOMAIN latest /\ latest[topology[i].id].snapshot = topology[i].snapshot
      /\ current.sources = sources
  BY <1>1 DEF Sources, CurrentOf
<1>3. PICK given : graph = Export(BuildCatalog(sources), sources, StoredPins(sources, blobs), given, inventory)
  <2>1. \E given : graph = Export(BuildCatalog(current.sources), current.sources, StoredPins(current.sources, blobs), given, inventory)
    BY <1>1 DEF ExportCurrent, StoredPins, WantedOf
  <2> HIDE DEF current, graph, sources, inventory
  <2>. QED BY <1>2, <2>1
<1>4. inventory # {} => request.asked /\ inventory = {request.scope}
  OBVIOUS
<1> HIDE DEF inventory, verified, sources
<1>5. BuildCatalog(sources).ok /\ graph = GraphOf(sources, StoredPins(sources, blobs), given, inventory)
  <2>1. PICK pins : pins = StoredPins(sources, blobs)
    OBVIOUS
  <2>2. Export(BuildCatalog(sources), sources, pins, given, inventory).ok
    BY <1>3, <2>1
  <2> HIDE DEF graph
  <2>. QED BY <1>3, <2>1, <2>2, ExportIs
<1>. QED BY <1>2, <1>4, <1>5 DEF sources

(* A graph without a diagnostic has none of any source, edge or scope.     *)
LEMMA GraphIsClean ==
  ASSUME NEW sources, BuildCatalog(sources).ok, NEW pins, NEW given, NEW inventory,
         NEW graph, graph = GraphOf(sources, pins, given, inventory), graph.diagnostics = {}
  PROVE  /\ graph.edges = GraphEdges(sources, pins) /\ graph.references = {GraphReference(s, pins) : s \in ToSet(sources)}
         /\ \A e \in graph.edges : e.edge.to # << >>
         /\ sources # << >> /\ inventory # {} /\ OwnOf(sources) \in inventory
         /\ \A s \in ToSet(sources) : DiagnosticsOf(s, buildCatalogService(s), pins) = {}
<1>1. /\ graph.edges = GraphEdges(sources, pins) /\ graph.references = {GraphReference(s, pins) : s \in ToSet(sources)}
      /\ graph.diagnostics = given \cup SourceBlocks(sources, pins) \cup EdgeBlocks(GraphEdges(sources, pins)) \cup ScopeBlocks(sources, inventory)
  BY DEF GraphOf
<1>2. SourceBlocks(sources, pins) = {} /\ EdgeBlocks(GraphEdges(sources, pins)) = {} /\ ScopeBlocks(sources, inventory) = {}
  BY <1>1
<1>3. \A e \in graph.edges : e.edge.to # << >>
  <2>1. ASSUME NEW e \in graph.edges, e.edge.to = << >> PROVE FALSE
    <3>1. Blocked("EDGE_TARGET_UNRESOLVED", e.id) \in EdgeBlocks(GraphEdges(sources, pins))
      BY <1>1, <2>1 DEF EdgeBlocks
    <3>. QED BY <1>2, <3>1
  <2>. QED BY <2>1
<1>4. sources # << >> /\ inventory # {} /\ OwnOf(sources) \in inventory
  BY <1>2 DEF ScopeBlocks
<1>5. ASSUME NEW s \in ToSet(sources) PROVE DiagnosticsOf(s, buildCatalogService(s), pins) = {}
  <2> DEFINE own == CHOOSE x \in AllOf(sources) : x.id = s.id
  <2>1. DiagnosticsOf(s, own, pins) = {}
    <3> HIDE DEF own
    <3>1. DiagnosticsOf(s, own, pins) \subseteq SourceBlocks(sources, pins)
      BY DEF SourceBlocks, own
    <3>. QED BY <1>2, <3>1
  <2>2. own = buildCatalogService(s)
    <3>1. buildCatalogService(s) \in AllOf(sources) /\ buildCatalogService(s).id = s.id
      BY AllIs
    <3>2. own \in AllOf(sources) /\ own.id = s.id
      BY <3>1
    <3> HIDE DEF own
    <3>3. PICK t \in ToSet(sources) : own = buildCatalogService(t) /\ own.id = t.id
      BY <3>2, AllIs
    <3>4. t = s
      BY <3>2, <3>3, SourcesAreNamed
    <3>. QED BY <3>3, <3>4
  <2>. QED BY <2>1, <2>2
<1>. QED BY <1>1, <1>3, <1>4, <1>5

(* A stored pin is an object of the captured commit.                       *)
PinnedIn(s, blobs, kind, id) ==
  \E m \in ToSet(s.metadata) : LET k == [identity |-> s.identity, commit |-> s.commit, path |-> m.path]
                               IN  m.kind = kind /\ m.id = id /\ k \in DOMAIN blobs /\ blobs[k] = m.checksum
LEMMA StoredPinIs ==
  ASSUME NEW sources, NEW blobs, NEW s, NEW m, NEW p \in PinFor(s, m, StoredPins(sources, blobs)), p.content = m.checksum
  PROVE  LET k == [identity |-> s.identity, commit |-> s.commit, path |-> m.path] IN k \in DOMAIN blobs /\ blobs[k] = m.checksum
<1>1. p \in StoredPins(sources, blobs) /\ KeyOf(p) = [identity |-> s.identity, commit |-> s.commit, path |-> m.path]
  BY DEF PinFor
<1>2. PICK k \in WantedOf(sources) \cap DOMAIN blobs : p = [identity |-> k.identity, commit |-> k.commit, path |-> k.path, content |-> blobs[k]]
  BY <1>1 DEF StoredPins
<1>3. KeyOf(p) = [identity |-> k.identity, commit |-> k.commit, path |-> k.path] /\ p.content = blobs[k]
  BY <1>2 DEF KeyOf
<1>4. k = [identity |-> k.identity, commit |-> k.commit, path |-> k.path]
  <2>1. PICK t, n : k = [identity |-> t.identity, commit |-> t.commit, path |-> n.path]
    BY <1>2 DEF WantedOf
  <2>. QED BY <2>1
<1>5. k = [identity |-> s.identity, commit |-> s.commit, path |-> m.path]
  BY <1>1, <1>3, <1>4
<1>. QED BY <1>2, <1>3, <1>5

(* Whatever was captured, a graph without a diagnostic was proven whole    *)
(* (ExportCurrent.Handle, Export).                                         *)
THEOREM CleanGraphsAreProven ==
  ASSUME NEW topology, NEW latest, NEW blobs, NEW request, NEW producer, ExportFits(latest)
  PROVE  CleanIsProven(topology, latest, blobs, request, ExportCurrent(topology, latest, blobs, request, producer))
<1> DEFINE graph == ExportCurrent(topology, latest, blobs, request, producer)
           sources == CurrentOf(topology, latest)
           pins == StoredPins(sources, blobs)
<1> SUFFICES ASSUME graph.ok, graph.diagnostics = {} PROVE CleanIsProven(topology, latest, blobs, request, graph)
  BY DEF CleanIsProven
<1>1. /\ \A i \in DOMAIN topology : topology[i].id \in DOMAIN latest /\ latest[topology[i].id].snapshot = topology[i].snapshot
      /\ BuildCatalog(sources).ok
      /\ \E given, inventory : graph = GraphOf(sources, pins, given, inventory) /\ (inventory # {} => request.asked /\ inventory = {request.scope})
  BY ExportCurrentIs
<1>2. PICK given, inventory : graph = GraphOf(sources, pins, given, inventory) /\ (inventory # {} => request.asked /\ inventory = {request.scope})
  BY <1>1
<1>3. ToSet(sources) = {latest[topology[i].id] : i \in DOMAIN topology}
  BY DEF ToSet, CurrentOf
<1> HIDE DEF graph, sources
<1>4. /\ graph.edges = GraphEdges(sources, pins) /\ graph.references = {GraphReference(s, pins) : s \in ToSet(sources)}
      /\ \A e \in graph.edges : e.edge.to # << >>
      /\ sources # << >> /\ inventory # {} /\ OwnOf(sources) \in inventory
      /\ \A s \in ToSet(sources) : DiagnosticsOf(s, buildCatalogService(s), pins) = {}
  BY <1>1, <1>2, GraphIsClean
<1>5. request.asked /\ request.scope = {s.identity : s \in {x \in ToSet(sources) : ~x.external}}
  <2>1. request.asked /\ request.scope = OwnOf(sources)
    BY <1>2, <1>4
  <2>. QED BY <2>1 DEF OwnOf
<1>6. ASSUME NEW s \in ToSet(sources)
      PROVE  /\ s.covered /\ buildCatalogService(s).current /\ ~s.dirty /\ ~buildCatalogService(s).incomplete
             /\ IsDeclared(s, "service", ManifestID(s)) /\ \A o \in ToSet(s.operations) : IsDeclared(s, "operation", o.id)
             /\ \A m \in ToSet(s.metadata) : \E p \in PinFor(s, m, pins) : p.content = m.checksum
  <2>1. PICK service : service = buildCatalogService(s)
    OBVIOUS
  <2>. QED BY <1>4, <2>1, SourceIsClean
<1>7. ASSUME NEW s \in ToSet(sources), NEW kind, NEW id, IsDeclared(s, kind, id) PROVE PinnedIn(s, blobs, kind, id)
  <2>1. PICK m \in ToSet(s.metadata) : m.kind = kind /\ m.id = id
    BY <1>7 DEF IsDeclared
  <2>2. PICK p \in PinFor(s, m, pins) : p.content = m.checksum
    BY <1>6
  <2>. QED BY <2>1, <2>2, StoredPinIs DEF PinnedIn
<1> HIDE DEF pins
<1>8. ASSUME NEW s \in ToSet(sources)
      PROVE  /\ \E t \in ToSet(topology) : t.id = s.id /\ t.snapshot = s.snapshot
             /\ s.covered /\ ~s.dirty /\ s.sameCommit /\ s.sameChecksum /\ s.head \in {"", s.commit}
             /\ PinnedIn(s, blobs, "service", s.service.id) /\ \A o \in ToSet(s.operations) : PinnedIn(s, blobs, "operation", o.id)
             /\ s.service.declared <= Len(s.operations)
             /\ \A o \in ToSet(s.discovered) : HasManifest(o, ToSet(s.operations))
  <2>1. PICK i \in DOMAIN topology : s = latest[topology[i].id]
    BY <1>3
  <2>2. /\ s.id = topology[i].id /\ s.snapshot = topology[i].snapshot
        /\ s.operations \in Seq(ToSet(s.operations)) /\ s.discovered \in Seq(ToSet(s.discovered))
        /\ s.covered => s.service.declared \in Nat
    BY <1>1, <2>1 DEF ExportFits
  <2>3. \E t \in ToSet(topology) : t.id = s.id /\ t.snapshot = s.snapshot
    BY <2>2 DEF ToSet
  <2>4. s.sameCommit /\ s.sameChecksum /\ s.head \in {"", s.commit}
    BY <1>6, CatalogServiceIs DEF sourceCurrent
  <2>5. PinnedIn(s, blobs, "service", s.service.id) /\ \A o \in ToSet(s.operations) : PinnedIn(s, blobs, "operation", o.id)
    BY <1>6, <1>7 DEF ManifestID
  <2>6. /\ ~(s.service.declared > Len(s.operations))
        /\ ~(applyDiscoveredOperations(s.discovered, ToSet(s.operations)).missing > 0)
        /\ ~(applyDiscoveredOperations(s.discovered, ToSet(s.operations)).blocked > 0)
    BY <1>6 DEF buildCatalogService
  <2>7. s.service.declared <= Len(s.operations)
    <3>1. PICK d, n : d = s.service.declared /\ n = Len(s.operations)
      OBVIOUS
    <3>2. n \in Nat /\ d \in Nat
      BY <1>6, <2>2, <3>1
    <3>. QED BY <2>6, <3>1, <3>2
  <2>8. \A o \in ToSet(s.discovered) : HasManifest(o, ToSet(s.operations))
    <3>1. PICK found, manifests : found = s.discovered /\ manifests = ToSet(s.operations)
      OBVIOUS
    <3>2. Len(found) \in Nat /\ DOMAIN found = 1..Len(found)
      BY <2>2, <3>1
    <3>3. \A j \in 1..Len(found) : HasManifest(found[j], manifests)
      BY <2>6, <3>1, <3>2, DiscoveredAreDeclared
    <3>. QED BY <3>1, <3>2, <3>3 DEF ToSet
  <2>. QED BY <1>6, <2>3, <2>4, <2>5, <2>7, <2>8
<1>9. ASSUME NEW e \in graph.edges PROVE e.edge.to \in {r.id : r \in graph.references} /\ e.pins # {}
  <2>1. /\ \E s \in ToSet(sources) : e.edge.from = ReferenceOf(s) /\ PinsOf(s, pins) \subseteq e.pins
        /\ \E s \in ToSet(sources) : e.edge.to = ReferenceOf(s)
    BY <1>1, <1>4, GraphEdgesAre
  <2>2. PICK s \in ToSet(sources) : PinsOf(s, pins) \subseteq e.pins
    BY <2>1
  <2>3. PICK t \in ToSet(sources) : e.edge.to = ReferenceOf(t)
    BY <2>1
  <2>4. PinsOf(s, pins) # {}
    <3>1. PICK m \in ToSet(s.metadata) : TRUE
      BY <1>6 DEF IsDeclared
    <3>2. PICK p \in PinFor(s, m, pins) : p.content = m.checksum
      BY <1>6
    <3>. QED BY <3>2 DEF PinsOf
  <2>5. GraphReference(t, pins) \in graph.references /\ GraphReference(t, pins).id = ReferenceOf(t)
    BY <1>4 DEF GraphReference
  <2>. QED BY <2>2, <2>3, <2>4, <2>5
<1>10. sources = [i \in DOMAIN topology |-> latest[topology[i].id]]
  BY DEF sources, CurrentOf
<1>. QED BY <1>4, <1>5, <1>8, <1>9, <1>10 DEF CleanIsProven, HasManifest, PinnedIn, graph

-----------------------------------------------------------------------------
(***************************************************************************)
(* The promises, for every behaviour that asks questions of these shapes.  *)
(***************************************************************************)
(* Whatever is asked about freezing contracts, placeholders, both gates    *)
(* and the recorded baseline agree (materializer.go, verifier.go,          *)
(* baseline.go).                                                           *)
THEOREM ContractsAreAlwaysFrozen ==
  [](About("freeze") => FreezeFits(question.q)) => []ContractsAreFrozen
<1>1. (About("freeze") => FreezeFits(question.q)) => ContractsAreFrozen
  BY FreezesAreSound DEF ContractsAreFrozen
<1>. QED BY <1>1, PTL

(* Whatever is delivered, it is completed over verified work only, and     *)
(* delivering again changes nothing (VerifyTask, TaskWorktree).            *)
THEOREM WorkIsAlwaysVerified ==
  [](About("work") => WorkFits(question.q)) => []WorkIsVerified
<1>1. (About("work") => WorkFits(question.q)) => WorkIsVerified
  BY DeliveriesAreSound DEF WorkIsVerified
<1>. QED BY <1>1, PTL

(* An inspection of a checkout before the owner is asked, when the answer  *)
(* arrives and when it is applied.                                         *)
DistributionFits(q) ==
  Catalogued(q.catalog) /\ \A look \in {q.seen, q.first, q.second} : Inspected(q.catalog, look)

(* No tool loses what a person wrote in a checkout, however its steps,     *)
(* edits, failures and kills mix, and whatever is distributed              *)
(* (applyReconciliation, scaffoldCreateNew, DistributionService.Apply).    *)
THEOREM LocalWorkIsAlwaysKept ==
  ASSUME ChecksOut
  PROVE  Spec /\ [](About("distribute") => DistributionFits(question.q)) => []LocalWorkIsKept
<1>1. (About("distribute") => DistributionFits(question.q)) =>
        (About("distribute") => Assets!DistributionKeepsLocalWork(question.q))
  BY DistributionsAlwaysKeepLocalWork DEF DistributionFits
<1>2. EditsSurvive /\ FailuresUndo /\ (About("distribute") => Assets!DistributionKeepsLocalWork(question.q)) => LocalWorkIsKept
  BY DEF LocalWorkIsKept
<1>. QED BY <1>1, <1>2, EditsAlwaysSurvive, FailuresAlwaysUndo, PTL

(* The questions about Architecture CURRENT are of these shapes.           *)
CurrentFits(q) ==
  /\ About("verify") => IsRoots(q)
  /\ About("maps") => \A s \in ToSet(q) : DeclaresPairs(s)
  /\ About("export") => ExportFits(q.latest)
  /\ About("fleet") => FleetFits(q.fleet, q.blobs)

(* Whatever is said of Architecture CURRENT is so (Verify, Build, Export,  *)
(* FleetExport).                                                           *)
THEOREM CurrentIsAlwaysTrue ==
  []CurrentFits(question.q) => []CurrentIsTrue
<1>1. ASSUME NEW q, CurrentFits(q)
      PROVE  /\ About("verify") => VerifiedIsProven(q)
             /\ About("maps") => DeclarationsAreAccounted(q, BuildCatalog(q))
             /\ About("export") => CleanIsProven(q.topology, q.latest, q.blobs, q.request, ExportCurrent(q.topology, q.latest, q.blobs, q.request, q.producer))
             /\ About("fleet") => FleetGraphIsLocked(q.fleet, q.request, FleetExport(q.fleet, q.blobs, q.request, q.producer))
  BY <1>1, CurrentIsAlwaysProven, DeclarationsAlwaysAccounted, CleanGraphsAreProven, FleetGraphsAreLocked DEF CurrentFits
<1>2. CurrentFits(question.q) => CurrentIsTrue
  BY <1>1 DEF CurrentIsTrue
<1>. QED BY <1>2, PTL
=============================================================================
