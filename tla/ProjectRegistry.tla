---------------------------- MODULE ProjectRegistry ----------------------------
(***************************************************************************)
(* Connected projects, their discovery scans and the topology catalog:     *)
(* usecase/project and usecase/topology over their PostgreSQL repositories.*)
(* A scan spans several transactions around the reading of a checkout that *)
(* its owner keeps changing; archive and restore, other scans, a rebuild   *)
(* of the topology and readers of it happen in between, and a scan may die *)
(* at any of them.  A checkout's content stands for its branch, commit,    *)
(* dirty flag and content checksum, taken together.                        *)
(***************************************************************************)
EXTENDS Naturals, Sequences, FiniteSets, SequencesExt

CONSTANTS
  Projects,    \* source identities
  Contents,    \* what a checkout may hold
  Wired,       \* contents that declare relations to the other services
  Scanners,    \* concurrent connect or scan requests
  Builders,    \* concurrent topology rebuilds
  Readers,     \* concurrent readers of the topology
  MaxEdits,    \* bound: changes of the checkouts
  MaxRevisions \* bound: topology revisions

ASSUME RegistryAssumption == IsFiniteSet(Projects) /\ MaxRevisions \in Nat

VARIABLES
  checkout,  \* what each checkout holds
  project,   \* the project rows
  snapshots, \* the discovery snapshots of each project, by version
  revisions, \* the topology_revision rows: which snapshots each was built of
  rows,      \* the materialized service and relation rows, of one revision
  scan, build, reader, edits

registryVars == <<checkout, project, snapshots, revisions, rows, scan, build, reader, edits>>

Unknown == [status |-> "none", from |-> "none"]
NoScan  == [pc |-> "idle"]
Statuses == {"connected", "scanning", "analyzed", "failed"}

Archived(p) == project[p].status = "archived"

RegistryTypeOK ==
  /\ checkout \in [Projects -> Contents]
  /\ project \in [Projects -> [status : Statuses \cup {"archived", "none"}, from : Statuses \cup {"none"}]]
  /\ \A p \in Projects : snapshots[p] \in Seq(Contents)
  /\ rows.revision \in 0..Len(revisions) /\ Len(revisions) <= MaxRevisions
  /\ \A s \in Scanners : scan[s].pc \in {"idle", "inspect", "mark", "scan", "save", "fail"}

RegistryInit ==
  /\ checkout \in [Projects -> Contents]
  /\ project = [p \in Projects |-> Unknown]
  /\ snapshots = [p \in Projects |-> <<>>]
  /\ revisions = <<>> /\ rows = [revision |-> 0, services |-> {}, relations |-> {}]
  /\ scan = [s \in Scanners |-> NoScan]
  /\ build = [b \in Builders |-> NoScan] /\ reader = [r \in Readers |-> NoScan]
  /\ edits = 0

EditCheckout(p) ==
  /\ edits < MaxEdits /\ edits' = edits + 1
  /\ \E c \in Contents \ {checkout[p]} : checkout' = [checkout EXCEPT ![p] = c]
  /\ UNCHANGED <<project, snapshots, revisions, rows, scan, build, reader>>

-----------------------------------------------------------------------------
(* The table's check constraint: a row has the status it was archived from *)
(* exactly while it is archived.  An update that would break it fails.     *)
Consistent(row) == row.status = "archived" <=> row.from # "none"

At(s, pc) == scan' = [scan EXCEPT ![s].pc = pc]
ScanEnds(s) == scan' = [scan EXCEPT ![s] = NoScan]

(* ConnectProject upserts the row of a source; an archived one is refused. *)
ConnectProject(s, p) ==
  /\ scan[s] = NoScan /\ ~Archived(p)
  /\ project' = IF project[p] = Unknown
                THEN [project EXCEPT ![p].status = "connected"] ELSE project
  /\ scan' = [scan EXCEPT ![s] = [pc |-> "mark", project |-> p]]
  /\ UNCHANGED <<checkout, snapshots, revisions, rows, build, reader, edits>>

(* ScanProject reads the row, then inspects the checkout.                  *)
ScanProject(s, p) ==
  /\ scan[s] = NoScan /\ project[p] # Unknown /\ ~Archived(p)
  /\ scan' = [scan EXCEPT ![s] = [pc |-> "inspect", project |-> p]]
  /\ UNCHANGED <<checkout, project, snapshots, revisions, rows, build, reader, edits>>

Inspect(s) ==
  /\ scan[s].pc = "inspect"
  /\ \/ At(s, "mark") \/ At(s, "fail")
  /\ UNCHANGED <<checkout, project, snapshots, revisions, rows, build, reader, edits>>

(* UpdateSourceState marks the project as scanning unless it is archived.  *)
MarkScanning(s) ==
  /\ scan[s].pc = "mark"
  /\ IF Archived(scan[s].project) THEN ScanEnds(s) /\ UNCHANGED project
     ELSE At(s, "scan") /\ project' = [project EXCEPT ![scan[s].project].status = "scanning"]
  /\ UNCHANGED <<checkout, snapshots, revisions, rows, build, reader, edits>>

(* The scanner reads the checkout.                                         *)
ReadCheckout(s) ==
  /\ scan[s].pc = "scan"
  /\ \/ At(s, "fail")
     \/ scan' = [scan EXCEPT ![s] = [pc |-> "save", project |-> @.project,
                                      found |-> checkout[scan[s].project]]]
  /\ UNCHANGED <<checkout, project, snapshots, revisions, rows, build, reader, edits>>

(* SaveDiscovery, under the project's lock: content that has a snapshot    *)
(* already reuses it, other content becomes the next version; the project  *)
(* is analyzed, or the whole transaction fails.                            *)
SaveDiscovery(s) ==
  /\ scan[s].pc = "save"
  /\ LET p == scan[s].project
         saved == [project[p] EXCEPT !.status = "analyzed"]
     IN IF ~Consistent(saved)
        THEN At(s, "fail") /\ UNCHANGED <<project, snapshots>>
        ELSE /\ project' = [project EXCEPT ![p] = saved]
             /\ snapshots' = IF scan[s].found \in ToSet(snapshots[p]) THEN snapshots
                             ELSE [snapshots EXCEPT ![p] = Append(@, scan[s].found)]
             /\ ScanEnds(s)
  /\ UNCHANGED <<checkout, revisions, rows, build, reader, edits>>

(* UpdateStatus has no condition of its own.                               *)
MarkFailed(s) ==
  /\ scan[s].pc = "fail"
  /\ LET failed == [project[scan[s].project] EXCEPT !.status = "failed"] IN
       project' = IF Consistent(failed) THEN [project EXCEPT ![scan[s].project] = failed]
                  ELSE project
  /\ ScanEnds(s)
  /\ UNCHANGED <<checkout, snapshots, revisions, rows, build, reader, edits>>

(* The request's process dies: the row keeps the status it had.            *)
ScanDies(s) ==
  /\ scan[s] # NoScan /\ ScanEnds(s)
  /\ UNCHANGED <<checkout, project, snapshots, revisions, rows, build, reader, edits>>

ArchiveProject(p) ==
  /\ project[p].status \in Statuses \ {"scanning"}
  /\ project' = [project EXCEPT ![p] = [status |-> "archived", from |-> @.status]]
  /\ UNCHANGED <<checkout, snapshots, revisions, rows, scan, build, reader, edits>>

RestoreProject(p) ==
  /\ Archived(p)
  /\ project' = [project EXCEPT ![p] = [status |-> @.from, from |-> "none"]]
  /\ UNCHANGED <<checkout, snapshots, revisions, rows, scan, build, reader, edits>>

-----------------------------------------------------------------------------
(* Rebuild reads the active projects and the latest snapshot of each, then *)
(* builds the catalog; the fingerprint of a catalog is what it is built of.*)
ServicesOf(sources) == DOMAIN sources
RelationsOf(sources) ==
  {e \in (DOMAIN sources) \X (DOMAIN sources) :
     e[1] # e[2] /\ snapshots[e[1]][sources[e[1]]] \in Wired}

GatherSources(b) ==
  /\ build[b] = NoScan
  /\ LET active == {p \in Projects : project[p].status \in Statuses /\ snapshots[p] # <<>>} IN
       build' = [build EXCEPT ![b] = [pc |-> "replace",
                                       sources |-> [p \in active |-> Len(snapshots[p])]]]
  /\ UNCHANGED <<checkout, project, snapshots, revisions, rows, scan, reader, edits>>

(* Replace, under the catalog's lock: the last revision is kept when it is *)
(* of the same fingerprint, else a new one replaces every row.             *)
ReplaceTopology(b) ==
  /\ build[b].pc = "replace"
  /\ LET new == build[b].sources
         same == revisions # <<>> /\ Last(revisions) = new
     IN \/ same /\ UNCHANGED <<revisions, rows>>
        \/ /\ ~same /\ Len(revisions) < MaxRevisions
           /\ revisions' = Append(revisions, new)
           /\ rows' = [revision |-> Len(revisions) + 1, services |-> ServicesOf(new),
                       relations |-> RelationsOf(new)]
  /\ build' = [build EXCEPT ![b] = NoScan]
  /\ UNCHANGED <<checkout, project, snapshots, scan, reader, edits>>

(* Get reads the revision, then each kind of row, in statements of their   *)
(* own, and compares what it read with the counts of the revision.         *)
RowsOf(revision, kept) == IF rows.revision = revision THEN kept ELSE {}

BeginRead(r) ==
  /\ reader[r] = NoScan /\ revisions # <<>>
  /\ reader' = [reader EXCEPT ![r] = [pc |-> "services", revision |-> Len(revisions)]]
  /\ UNCHANGED <<checkout, project, snapshots, revisions, rows, scan, build, edits>>

ReadServices(r) ==
  /\ reader[r].pc = "services"
  /\ reader' = [reader EXCEPT ![r] =
       [pc |-> "relations", revision |-> @.revision,
        services |-> RowsOf(@.revision, rows.services)]]
  /\ UNCHANGED <<checkout, project, snapshots, revisions, rows, scan, build, edits>>

Uncounted(r, found) == TRUE
Counted(r, found) ==
  LET of == revisions[reader[r].revision] IN
    /\ Cardinality(reader[r].services) = Cardinality(ServicesOf(of))
    /\ Cardinality(found) = Cardinality(RelationsOf(of))

ReadRelations(r) ==
  /\ reader[r].pc = "relations"
  /\ LET found == RowsOf(reader[r].revision, rows.relations) IN
       reader' = [reader EXCEPT ![r] =
         IF Counted(r, found)
         THEN [pc |-> "served", revision |-> @.revision, services |-> @.services,
               relations |-> found]
         ELSE NoScan]
  /\ UNCHANGED <<checkout, project, snapshots, revisions, rows, scan, build, edits>>

EndRead(r) ==
  /\ reader[r].pc = "served" /\ reader' = [reader EXCEPT ![r] = NoScan]
  /\ UNCHANGED <<checkout, project, snapshots, revisions, rows, scan, build, edits>>

RegistryNext ==
  \/ \E p \in Projects : EditCheckout(p) \/ ArchiveProject(p) \/ RestoreProject(p)
  \/ \E s \in Scanners : \/ \E p \in Projects : ConnectProject(s, p) \/ ScanProject(s, p)
                         \/ Inspect(s) \/ MarkScanning(s) \/ ReadCheckout(s)
                         \/ SaveDiscovery(s) \/ MarkFailed(s) \/ ScanDies(s)
  \/ \E b \in Builders : GatherSources(b) \/ ReplaceTopology(b)
  \/ \E r \in Readers : BeginRead(r) \/ ReadServices(r) \/ ReadRelations(r) \/ EndRead(r)

RegistrySpec == RegistryInit /\ [][RegistryNext]_registryVars

-----------------------------------------------------------------------------
(* Archived until restored: scans that were under way when the project was *)
(* archived neither change its status nor lose the one it was archived     *)
(* from, and restoring gives exactly that status back.  SaveDiscovery and  *)
(* UpdateStatus have no condition on the status; the table's constraint    *)
(* refuses them.                                                           *)
ArchivedUntilRestored ==
  [][\A p \in Projects : Archived(p) =>
       \/ project'[p] = project[p]
       \/ project'[p] = [status |-> project[p].from, from |-> "none"]]_registryVars

(* A topology that is served is whole: its services and relations are      *)
(* those of one revision, although they are read in separate statements    *)
(* and a rebuild may delete and replace every row in between.              *)
ServedIsWhole ==
  \A r \in Readers : reader[r].pc = "served" =>
    LET of == revisions[reader[r].revision] IN
      reader[r].services = ServicesOf(of) /\ reader[r].relations = RelationsOf(of)

(* The registry is whole: its rows, and what its readers are served.       *)
RegistryIsWhole == RegistryTypeOK /\ ServedIsWhole

=============================================================================
