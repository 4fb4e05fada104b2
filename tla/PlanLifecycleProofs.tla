-------------------------- MODULE PlanLifecycleProofs --------------------------
(***************************************************************************)
(* Proofs about PlanLifecycle for every number of versions, tasks and      *)
(* connections: what the row locks, the order in which they are taken and  *)
(* the re-read conditions are worth together.                              *)
(***************************************************************************)
EXTENDS PlanLifecycle, TLAPS, FiniteSetTheorems

PlanRec == [status : PlanStatuses, fingerprint : {0, 1},
            approved : SUBSET {0, 1}, supersedes : 0..MaxVersion]
TxRec == [op : {"none", "create", "decide", "start", "retry", "run"},
          at : {"none", "replaced", "approvals", "work", "plans", "insert",
                "approval", "tasks", "commit"},
          v : 0..MaxVersion, to : PlanStatuses, locks : SUBSET Rows]
ApprovalType == {"none", "pending", "approved", "rejected", "cancelled"}
IssueType    == {"none", "proposed", "published", "cancelled"}
TaskType     == {"none", "planned", "blocked"} \cup FinalTask

USE DEF rows, work, At

-----------------------------------------------------------------------------
(* The rows have different names.                                          *)
LEMMA RowNames ==
  /\ CommandRow \in Rows
  /\ \A v \in Versions : /\ PlanRow(v) \in Rows /\ RunRow(v) \in Rows /\ ApprovalRow(v) \in Rows
                         /\ IssueRows(v) \in Rows /\ TaskRows(v) \in Rows
  /\ \A v, w \in Versions : /\ PlanRow(v) = PlanRow(w) => v = w
                            /\ ApprovalRow(v) = ApprovalRow(w) => v = w
                            /\ ApprovalRow(v) # PlanRow(w) /\ ApprovalRow(v) # RunRow(w)
                            /\ ApprovalRow(v) # IssueRows(w) /\ ApprovalRow(v) # TaskRows(w)
  /\ \A v \in Versions : ApprovalRow(v) # CommandRow
  BY DEF Rows, CommandRow, PlanRow, RunRow, ApprovalRow, IssueRows, TaskRows

(* A process without a transaction holds no lock.                          *)
LEMMA IdleIsTx == Idle \in TxRec /\ Idle.op = "none" /\ Idle.locks = {}
  BY LifecycleAssumption DEF Idle, TxRec, PlanStatuses

(* What the statements of a transaction do to its lock set.                *)
LEMMA BeginTx ==
  ASSUME TypeOK, NEW p \in Procs, NEW op, NEW v, NEW to, NEW r, NEW next, Begin(p, op, v, to, r, next)
  PROVE  /\ tx[p] = Idle /\ LockedFor(p, r) /\ UNCHANGED rows
         /\ tx'[p] = [op |-> op, at |-> next, v |-> v, to |-> to, locks |-> r]
         /\ tx'[p].op = op /\ tx'[p].at = next /\ tx'[p].v = v /\ tx'[p].to = to /\ tx'[p].locks = r
         /\ \A q \in Procs \ {p} : tx'[q] = tx[q]
  BY DEF Begin, TypeOK

(* Taking locks adds them to the transaction's own and writes no row.      *)
LEMMA LockTx ==
  ASSUME TypeOK, NEW p \in Procs, NEW r \in SUBSET Rows, NEW next, Lock(p, r, next),
         next \in {"approvals", "work", "plans", "insert", "commit"}
  PROVE  /\ LockedFor(p, r) /\ UNCHANGED <<rows, work>>
         /\ tx'[p].op = tx[p].op /\ tx'[p].at = next /\ tx'[p].v = tx[p].v /\ tx'[p].to = tx[p].to
         /\ tx'[p].locks = tx[p].locks \cup r
         /\ \A q \in Procs \ {p} : tx'[q] = tx[q]
         /\ tx' \in [Procs -> TxRec]
<1>1. tx \in [Procs -> TxRec]
  BY DEF TypeOK, TxRec
<1>2. tx[p] \in TxRec
  BY <1>1
<1> DEFINE new == [tx[p] EXCEPT !.locks = tx[p].locks \cup r, !.at = next]
<1>3. tx' = [tx EXCEPT ![p] = new]
  BY DEF Lock
<1>4. /\ new \in TxRec /\ new.op = tx[p].op /\ new.at = next /\ new.v = tx[p].v
      /\ new.to = tx[p].to /\ new.locks = tx[p].locks \cup r
  BY <1>2 DEF TxRec
<1> HIDE DEF new
<1>. QED BY <1>1, <1>3, <1>4 DEF Lock

(* A transaction that ends leaves the others alone.                        *)
LEMMA EndTx ==
  ASSUME TypeOK, NEW p \in Procs, tx' = [tx EXCEPT ![p] = Idle]
  PROVE  tx'[p] = Idle /\ (\A q \in Procs \ {p} : tx'[q] = tx[q]) /\ tx' \in [Procs -> TxRec]
<1>1. tx \in [Procs -> TxRec]
  BY DEF TypeOK, TxRec
<1>. QED BY <1>1, IdleIsTx

-----------------------------------------------------------------------------
(* Type correctness.                                                       *)
TypesOfRows ==
  /\ command \in CommandStatuses /\ plan \in [Versions -> PlanRec]
  /\ approval \in [Versions -> ApprovalType] /\ issue \in [Versions -> [Tasks -> IssueType]]
  /\ task \in [Versions -> [Tasks -> TaskType]] /\ run \in [Versions -> RunStatuses]
TypesOfWork == drafting \subseteq Drafts /\ publishing \subseteq Versions

(* The type invariant splits into plans, work and transactions.            *)
LEMMA Types == TypeOK <=> TypesOfRows /\ TypesOfWork /\ tx \in [Procs -> TxRec]
  BY DEF TypeOK, TypesOfRows, TypesOfWork, PlanRec, TxRec, ApprovalType, IssueType, TaskType

(* The statuses the statements write are statuses.                         *)
LEMMA Statuses ==
  /\ {"discussion", "awaiting_approval", "approved", "running", "cancelled"} \subseteq PlanStatuses
  /\ {"none", "running", "paused", "completed", "failed", "cancelled"} \subseteq PlanStatuses
  /\ {"pending", "running", "paused", "completed", "failed", "cancelled"} \subseteq RunStatuses
  /\ {"planned", "approved", "cancelled", "running", "completed", "failed"} \subseteq CommandStatuses
  /\ \A s, to : <<s, to>> \in RunMoves =>
        /\ s \in {"pending", "running", "paused"}
        /\ to \in {"running", "paused", "completed", "failed", "cancelled"}
  BY DEF PlanStatuses, RunStatuses, CommandStatuses, RunMoves

(* The first version of a command has its types.                           *)
LEMMA InitTypes == Init => TypeOK
<1> SUFFICES ASSUME Init PROVE TypeOK
  OBVIOUS
<1>1. Plan0 \in PlanRec
  BY LifecycleAssumption DEF Plan0, PlanRec, PlanStatuses
<1>2. TypesOfRows
  BY <1>1 DEF Init, TypesOfRows, CommandStatuses, ApprovalType, IssueType, TaskType, RunStatuses
<1>. QED BY <1>2, IdleIsTx, Types DEF Init, TypesOfWork

(* Writing the status, or the fingerprint, of one version.                 *)
LEMMA PlanWrites ==
  ASSUME TypeOK, NEW v \in Versions, NEW new \in PlanRec, plan' = [plan EXCEPT ![v] = new]
  PROVE  plan' \in [Versions -> PlanRec] /\ plan'[v] = new /\ \A u \in Versions \ {v} : plan'[u] = plan[u]
  BY Types DEF TypesOfRows

(* A plan's status changes alone.                                          *)
LEMMA SetPlanWrites ==
  ASSUME TypeOK, NEW v \in Versions, NEW s \in PlanStatuses, SetPlan(v, s)
  PROVE  /\ plan' \in [Versions -> PlanRec]
         /\ plan'[v].status = s /\ plan'[v].fingerprint = plan[v].fingerprint
         /\ plan'[v].approved = plan[v].approved
         /\ \A u \in Versions \ {v} : plan'[u] = plan[u]
<1>1. plan[v] \in PlanRec
  BY Types DEF TypesOfRows
<1> DEFINE new == [plan[v] EXCEPT !.status = s]
<1>2. /\ new \in PlanRec /\ new.status = s /\ new.fingerprint = plan[v].fingerprint
      /\ new.approved = plan[v].approved
  BY <1>1 DEF PlanRec
<1>3. plan' = [plan EXCEPT ![v] = new]
  BY DEF SetPlan
<1> HIDE DEF new
<1>. QED BY <1>2, <1>3, PlanWrites

-----------------------------------------------------------------------------
(***************************************************************************)
(* The invariant of the plan versions.                                     *)
(***************************************************************************)

(* A row lock has one holder.                                              *)
LocksExclude == \A p, q \in Procs : p # q => tx[p].locks \cap tx[q].locks = {}

(* Versions are numbered in the order of their creation.                   *)
VersionsGrow == \E k \in 0..MaxVersion : Existing = 1..k

(* The plan row follows the run row.                                       *)
RunFits(v) == IF run[v] = "none"
              THEN plan[v].status \notin {"running", "paused", "completed", "failed"}
              ELSE plan[v].status = IF run[v] = "pending" THEN "running" ELSE run[v]

(* What the rows of one version say of each other, whoever wrote them.     *)
VersionOK(v) ==
  /\ plan[v].status = "none" => plan[v].fingerprint = 0 /\ plan[v].approved = {}
  /\ plan[v].status \in {"none", "discussion"} => approval[v] = "none"
  /\ plan[v].fingerprint = 0 => \A t \in Tasks : issue[v][t] = "none"
  /\ plan[v].status = "awaiting_approval" =>
       approval[v] = "pending" /\ \A t \in Tasks : issue[v][t] \in {"proposed", "published"}
  /\ plan[v].status = "approved" \/ run[v] # "none" => approval[v] = "approved" /\ ApprovedAsIs(v)
  /\ run[v] # "none" => IssuesPublished(v)
  /\ RunFits(v)
VersionsAreSound == \A v \in Versions : VersionOK(v)

(* What an open transaction may still rely on: its locks keep what it read. *)
TxOK(p) ==
  LET v == tx[p].v IN
  /\ tx[p].op = "none" => tx[p] = Idle
  /\ tx[p].op = "create" =>
       /\ CommandRow \in tx[p].locks
       /\ \A u \in Versions : ApprovalRow(u) \in tx[p].locks => approval[u] = "pending"
       /\ tx[p].at = "insert" => \A u \in Live : PlanRow(u) \in tx[p].locks
       /\ tx[p].at = "replaced" => v \in Versions
  /\ tx[p].op \in {"decide", "start", "retry", "run"} =>
       v \in Versions /\ PlanRow(v) \in tx[p].locks
  /\ tx[p].op = "decide" =>
       /\ plan[v].status = "awaiting_approval" /\ tx[p].to \in {"approved", "cancelled"}
       /\ tx[p].at = "commit" => ApprovalRow(v) \in tx[p].locks
  /\ tx[p].op = "start" => plan[v].status = "approved" /\ IssuesPublished(v)
  /\ tx[p].op = "retry" => run[v] = "failed"
  /\ tx[p].op = "run" => <<run[v], tx[p].to>> \in RunMoves
TxsAreSound == \A p \in Procs : TxOK(p)

LifecycleInv == LocksExclude /\ VersionsGrow /\ OneLivePlan /\ VersionsAreSound /\ TxsAreSound

(* What is locked, or taken with a lock, are rows.                         *)
LEMMA LockedRows ==
  /\ \A v \in Versions : /\ {PlanRow(v)} \subseteq Rows /\ {PlanRow(v), RunRow(v)} \subseteq Rows
                         /\ {RunRow(v), PlanRow(v)} \subseteq Rows
                         /\ {ApprovalRow(v)} \subseteq Rows /\ {TaskRows(v)} \subseteq Rows
  /\ {CommandRow} \subseteq Rows
  /\ {ApprovalRow(v) : v \in {u \in Versions : approval[u] = "pending"}} \subseteq Rows
  /\ {IssueRows(v) : v \in OpenIssues} \cup {TaskRows(v) : v \in OpenTasks} \subseteq Rows
  /\ {PlanRow(v) : v \in Live} \subseteq Rows
  BY RowNames DEF OpenIssues, OpenTasks, Live

(* The statements of a transaction, by what they do to the rows.           *)
Begins(p) == \/ \E d \in drafting : CreateBegin(p, d)
             \/ \E v \in Versions :
                  \/ \E to \in {"approved", "cancelled"}, seen \in {0, 1} : DecideBegin(p, v, to, seen)
                  \/ StartBegin(p, v) \/ RetryBegin(p, v)
                  \/ \E to \in RunStatuses : RunBegin(p, v, to)
Locks(p) == \/ CreateReplaced(p) \/ CreateApprovals(p) \/ CreateWork(p) \/ CreatePlans(p)
            \/ DecideApproval(p) \/ RetryTasks(p)
Commits(p) == CreateInsert(p) \/ DecideCommit(p) \/ StartCommit(p) \/ RetryCommit(p) \/ RunCommit(p)

(* A statement of a transaction begins it, locks, commits or rolls back.   *)
LEMMA Statements ==
  ASSUME NEW p \in Procs, Transaction(p)
  PROVE  Begins(p) \/ Locks(p) \/ Commits(p) \/ Rollback(p)
  BY DEF Transaction, Begins, Locks, Commits

(* A transaction begins with the rows it locks first and with a cause.     *)
LEMMA BeginsTx ==
  ASSUME TypeOK, NEW p \in Procs, Begins(p)
  PROVE  /\ tx[p] = Idle /\ UNCHANGED rows /\ TypesOfWork' /\ tx' \in [Procs -> TxRec]
         /\ LockedFor(p, tx'[p].locks) /\ \A q \in Procs \ {p} : tx'[q] = tx[q]
         /\ \/ /\ tx'[p].op = "create" /\ tx'[p].locks = {CommandRow} /\ tx'[p].at # "insert"
               /\ tx'[p].at = "replaced" => tx'[p].v \in Versions
            \/ \E v \in Versions :
                 /\ tx'[p].v = v
                 /\ \/ /\ tx'[p].op = "decide" /\ tx'[p].at = "approval" /\ tx'[p].locks = {PlanRow(v)}
                       /\ tx'[p].to \in {"approved", "cancelled"} /\ plan[v].status = "awaiting_approval"
                    \/ /\ tx'[p].op = "start" /\ tx'[p].locks = {PlanRow(v)}
                       /\ plan[v].status = "approved" /\ IssuesPublished(v)
                    \/ /\ tx'[p].op = "retry" /\ tx'[p].locks = {PlanRow(v), RunRow(v)}
                       /\ run[v] = "failed"
                    \/ /\ tx'[p].op = "run" /\ tx'[p].locks = {RunRow(v), PlanRow(v)}
                       /\ <<run[v], tx'[p].to>> \in RunMoves
<1> USE DEF TypesOfWork
(* The new record of a transaction that may begin is one.                  *)
<1>a. ASSUME NEW op \in {"create", "decide", "start", "retry", "run"},
             NEW v \in 0..MaxVersion, NEW to \in PlanStatuses, NEW r \in SUBSET Rows,
             NEW next \in {"replaced", "approvals", "approval", "tasks", "commit"},
             Begin(p, op, v, to, r, next)
      PROVE  tx' \in [Procs -> TxRec]
  <2>1. [op |-> op, at |-> next, v |-> v, to |-> to, locks |-> r] \in TxRec
    BY DEF TxRec
  <2>2. tx \in [Procs -> TxRec]
    BY Types
  <2>. QED BY <1>a, <2>1, <2>2 DEF Begin
<1>b. Versions \subseteq 0..MaxVersion /\ drafting \subseteq Drafts /\ publishing \subseteq Versions
  BY Types, LifecycleAssumption DEF Versions
<1>1. ASSUME NEW d \in drafting, CreateBegin(p, d)
      PROVE  /\ tx[p] = Idle /\ UNCHANGED rows /\ TypesOfWork' /\ tx' \in [Procs -> TxRec]
             /\ LockedFor(p, tx'[p].locks) /\ (\A q \in Procs \ {p} : tx'[q] = tx[q])
             /\ tx'[p].op = "create" /\ tx'[p].locks = {CommandRow} /\ tx'[p].at # "insert"
             /\ tx'[p].at = "replaced" => tx'[p].v \in Versions
  <2>1. d.v \in 0..MaxVersion /\ "none" \in PlanStatuses /\ {CommandRow} \in SUBSET Rows
    BY <1>b, LockedRows, Statuses DEF Drafts
  <2>2. PICK next \in {"approvals", "replaced"} :
          /\ Begin(p, "create", d.v, "none", {CommandRow}, next)
          /\ next = "replaced" => d.v \in Versions
    BY <1>1, <2>1, LifecycleAssumption DEF CreateBegin, Versions
  <2>3. TypesOfWork'
    BY <1>1, <1>b DEF CreateBegin
  <2>4. tx' \in [Procs -> TxRec]
    BY <1>a, <2>1, <2>2
  <2>. QED BY <2>2, <2>3, <2>4, BeginTx
<1>2. ASSUME NEW v \in Versions, NEW to \in {"approved", "cancelled"}, NEW seen \in {0, 1},
             DecideBegin(p, v, to, seen)
      PROVE  /\ tx[p] = Idle /\ UNCHANGED rows /\ TypesOfWork' /\ tx' \in [Procs -> TxRec]
             /\ LockedFor(p, tx'[p].locks) /\ (\A q \in Procs \ {p} : tx'[q] = tx[q])
             /\ tx'[p].v = v
             /\ tx'[p].op = "decide" /\ tx'[p].at = "approval" /\ tx'[p].locks = {PlanRow(v)}
             /\ tx'[p].to \in {"approved", "cancelled"} /\ plan[v].status = "awaiting_approval"
  <2>1. to \in PlanStatuses /\ {PlanRow(v)} \in SUBSET Rows
    BY LockedRows, Statuses
  <2>2. Begin(p, "decide", v, to, {PlanRow(v)}, "approval") /\ plan[v].status = "awaiting_approval"
        /\ UNCHANGED work
    BY <1>2 DEF DecideBegin
  <2>3. tx' \in [Procs -> TxRec]
    BY <1>a, <1>b, <2>1, <2>2
  <2>. QED BY <1>b, <2>2, <2>3, BeginTx
<1>3. ASSUME NEW v \in Versions, StartBegin(p, v)
      PROVE  /\ tx[p] = Idle /\ UNCHANGED rows /\ TypesOfWork' /\ tx' \in [Procs -> TxRec]
             /\ LockedFor(p, tx'[p].locks) /\ (\A q \in Procs \ {p} : tx'[q] = tx[q])
             /\ tx'[p].v = v /\ tx'[p].op = "start" /\ tx'[p].locks = {PlanRow(v)}
             /\ plan[v].status = "approved" /\ IssuesPublished(v)
  <2>1. "running" \in PlanStatuses /\ {PlanRow(v)} \in SUBSET Rows
    BY LockedRows, Statuses
  <2>2. Begin(p, "start", v, "running", {PlanRow(v)}, "commit") /\ UNCHANGED work
        /\ plan[v].status = "approved" /\ IssuesPublished(v)
    BY <1>3 DEF StartBegin
  <2>3. tx' \in [Procs -> TxRec]
    BY <1>a, <1>b, <2>1, <2>2
  <2>. QED BY <1>b, <2>2, <2>3, BeginTx
<1>4. ASSUME NEW v \in Versions, RetryBegin(p, v)
      PROVE  /\ tx[p] = Idle /\ UNCHANGED rows /\ TypesOfWork' /\ tx' \in [Procs -> TxRec]
             /\ LockedFor(p, tx'[p].locks) /\ (\A q \in Procs \ {p} : tx'[q] = tx[q])
             /\ tx'[p].v = v /\ tx'[p].op = "retry" /\ tx'[p].locks = {PlanRow(v), RunRow(v)}
             /\ run[v] = "failed"
  <2>1. "running" \in PlanStatuses /\ {PlanRow(v), RunRow(v)} \in SUBSET Rows
    BY LockedRows, Statuses
  <2>2. Begin(p, "retry", v, "running", {PlanRow(v), RunRow(v)}, "tasks") /\ UNCHANGED work
        /\ run[v] = "failed"
    BY <1>4 DEF RetryBegin
  <2>3. tx' \in [Procs -> TxRec]
    BY <1>a, <1>b, <2>1, <2>2
  <2>. QED BY <1>b, <2>2, <2>3, BeginTx
<1>5. ASSUME NEW v \in Versions, NEW to \in RunStatuses, RunBegin(p, v, to)
      PROVE  /\ tx[p] = Idle /\ UNCHANGED rows /\ TypesOfWork' /\ tx' \in [Procs -> TxRec]
             /\ LockedFor(p, tx'[p].locks) /\ (\A q \in Procs \ {p} : tx'[q] = tx[q])
             /\ tx'[p].v = v /\ tx'[p].op = "run" /\ tx'[p].locks = {RunRow(v), PlanRow(v)}
             /\ <<run[v], tx'[p].to>> \in RunMoves
  <2>1. to \in PlanStatuses /\ {RunRow(v), PlanRow(v)} \in SUBSET Rows
    BY <1>5, LockedRows, Statuses DEF RunBegin
  <2>2. Begin(p, "run", v, to, {RunRow(v), PlanRow(v)}, "commit") /\ UNCHANGED work
        /\ <<run[v], to>> \in RunMoves
    BY <1>5 DEF RunBegin
  <2>3. tx' \in [Procs -> TxRec]
    BY <1>a, <1>b, <2>1, <2>2
  <2>. QED BY <1>b, <2>2, <2>3, BeginTx
<1>. QED BY <1>1, <1>2, <1>3, <1>4, <1>5 DEF Begins

-----------------------------------------------------------------------------
(* While these rows rest, a version stays sound and so does a transaction    *)
(* that does not move either.                                              *)
LEMMA RowsRest ==
  ASSUME UNCHANGED <<plan, approval, issue, run>>
  PROVE  /\ VersionsGrow => VersionsGrow'
         /\ OneLivePlan => OneLivePlan'
         /\ VersionsAreSound => VersionsAreSound'
         /\ \A q \in Procs : TxOK(q) /\ tx'[q] = tx[q] => TxOK(q)'
<1>1. Existing' = Existing /\ Live' = Live
  BY DEF Existing, Live
<1>2. VersionsGrow => VersionsGrow'
  BY <1>1 DEF VersionsGrow
<1>3. OneLivePlan => OneLivePlan'
  BY <1>1 DEF OneLivePlan, Latest
<1>4. VersionsAreSound => VersionsAreSound'
  BY DEF VersionsAreSound, VersionOK, ApprovedAsIs, IssuesPublished, RunFits
<1>5. ASSUME NEW q \in Procs, TxOK(q), tx'[q] = tx[q] PROVE TxOK(q)'
  BY <1>1, <1>5 DEF TxOK, IssuesPublished
<1>. QED BY <1>2, <1>3, <1>4, <1>5

(* One transaction moves and the rows rest: it is its own affair.          *)
LEMMA TxMoves ==
  ASSUME TypeOK, LifecycleInv, NEW p \in Procs, UNCHANGED rows, TypesOfWork',
         tx' \in [Procs -> TxRec], \A q \in Procs \ {p} : tx'[q] = tx[q],
         LockedFor(p, tx'[p].locks \ tx[p].locks), TxOK(p)'
  PROVE  TypeOK' /\ LifecycleInv'
<1>1. TypesOfRows'
  BY Types DEF TypesOfRows
<1>2. TypeOK'
  BY <1>1, Types DEF TypeOK, TypesOfRows, TypesOfWork, PlanRec, TxRec, ApprovalType, IssueType, TaskType
<1>3. LocksExclude'
  <2> SUFFICES ASSUME NEW a \in Procs, NEW b \in Procs, a # b
               PROVE  tx'[a].locks \cap tx'[b].locks = {}
    BY DEF LocksExclude
  <2>1. \A q \in Procs \ {p} : tx'[p].locks \cap tx[q].locks = {}
    BY DEF LifecycleInv, LocksExclude, LockedFor
  <2>2. CASE a = p
    BY <2>1, <2>2
  <2>3. CASE b = p
    BY <2>1, <2>3
  <2>4. CASE a # p /\ b # p
    BY <2>4 DEF LifecycleInv, LocksExclude
  <2>. QED BY <2>2, <2>3, <2>4
<1>4. TxsAreSound'
  <2>1. ASSUME NEW q \in Procs, q # p PROVE TxOK(q)'
    BY <2>1, RowsRest DEF LifecycleInv, TxsAreSound
  <2>. QED BY <2>1 DEF TxsAreSound
<1>. QED BY <1>2, <1>3, <1>4, RowsRest DEF LifecycleInv

(* A transaction that begins has read what it will check again.            *)
LEMMA BeginsStep ==
  ASSUME TypeOK, LifecycleInv, NEW p \in Procs, Begins(p)
  PROVE  TypeOK' /\ LifecycleInv'
<1>1. tx[p].locks = {}
  BY BeginsTx, IdleIsTx
<1>2. UNCHANGED rows
  BY BeginsTx
<1>3. \A v \in Versions : IssuesPublished(v) => IssuesPublished(v)'
  BY <1>2 DEF IssuesPublished
<1>4. TxOK(p)'
  BY BeginsTx, RowNames, <1>3 DEF TxOK
<1>. QED BY <1>1, <1>4, BeginsTx, TxMoves

(* A lock is granted only when nobody holds it.                            *)
LEMMA LocksStep ==
  ASSUME TypeOK, LifecycleInv, NEW p \in Procs, Locks(p)
  PROVE  TypeOK' /\ LifecycleInv'
<1>0. TxOK(p)
  BY DEF LifecycleInv, TxsAreSound
(* Whatever a statement locks, it is enough that its transaction is sound. *)
<1>a. ASSUME NEW r \in SUBSET Rows, NEW next \in {"approvals", "work", "plans", "insert", "commit"},
             Lock(p, r, next), TxOK(p)'
      PROVE  TypeOK' /\ LifecycleInv'
  <2>1. TypesOfWork'
    BY <1>a, Types DEF Lock, TypesOfWork
  <2>2. LockedFor(p, tx'[p].locks \ tx[p].locks)
    BY <1>a, LockTx DEF LockedFor
  <2>. QED BY <1>a, <2>1, <2>2, LockTx, TxMoves
<1>1. CASE CreateReplaced(p)
  <2>1. Lock(p, {PlanRow(tx[p].v)}, "approvals") /\ tx[p].op = "create" /\ tx[p].v \in Versions
    BY <1>0, <1>1 DEF CreateReplaced, TxOK
  <2>2. {PlanRow(tx[p].v)} \in SUBSET Rows
    BY <2>1, LockedRows
  <2>3. /\ approval' = approval /\ tx'[p].op = "create" /\ tx'[p].at = "approvals"
        /\ tx'[p].locks = tx[p].locks \cup {PlanRow(tx[p].v)}
    BY <2>1, <2>2, LockTx
  <2>4. \A u \in Versions : ApprovalRow(u) \notin {PlanRow(tx[p].v)}
    BY <2>1, RowNames
  <2>5. TxOK(p)'
    BY <1>0, <2>1, <2>3, <2>4 DEF TxOK
  <2>. QED BY <1>a, <2>1, <2>2, <2>5
<1>2. CASE CreateApprovals(p)
  <2> DEFINE r == {ApprovalRow(v) : v \in {u \in Versions : approval[u] = "pending"}}
  <2>1. Lock(p, r, "work") /\ tx[p].op = "create" /\ r \in SUBSET Rows
    BY <1>2, LockedRows DEF CreateApprovals
  <2>2. \A u \in Versions : ApprovalRow(u) \in r => approval[u] = "pending"
    BY RowNames
  <2> HIDE DEF r
  <2>3. /\ approval' = approval /\ tx'[p].op = "create" /\ tx'[p].at = "work"
        /\ tx'[p].locks = tx[p].locks \cup r
    BY <2>1, LockTx
  <2>4. TxOK(p)'
    BY <1>0, <2>1, <2>2, <2>3 DEF TxOK
  <2>. QED BY <1>a, <2>1, <2>4
<1>3. CASE CreateWork(p)
  <2> DEFINE r == {IssueRows(v) : v \in OpenIssues} \cup {TaskRows(v) : v \in OpenTasks}
  <2>1. Lock(p, r, "plans") /\ tx[p].op = "create" /\ r \in SUBSET Rows
    BY <1>3, LockedRows DEF CreateWork
  <2>2. \A u \in Versions : ApprovalRow(u) \notin r
    BY RowNames DEF OpenIssues, OpenTasks
  <2> HIDE DEF r
  <2>3. TxOK(p)'
    BY <1>0, <2>1, <2>2, LockTx DEF TxOK
  <2>. QED BY <1>a, <2>1, <2>3
<1>4. CASE CreatePlans(p)
  <2> DEFINE r == {PlanRow(v) : v \in Live}
  <2>1. Lock(p, r, "insert") /\ tx[p].op = "create" /\ r \in SUBSET Rows
    BY <1>4, LockedRows DEF CreatePlans
  <2>2. /\ \A u \in Versions : ApprovalRow(u) \notin r
        /\ \A u \in Live : PlanRow(u) \in r
    BY RowNames DEF Live
  <2> HIDE DEF r
  <2>3. Live' = Live
    BY <2>1, LockTx DEF Live
  <2>4. TxOK(p)'
    BY <1>0, <2>1, <2>2, <2>3, LockTx DEF TxOK
  <2>. QED BY <1>a, <2>1, <2>4
<1>5. CASE DecideApproval(p)
  <2>1. Lock(p, {ApprovalRow(tx[p].v)}, "commit") /\ tx[p].op = "decide" /\ tx[p].v \in Versions
    BY <1>0, <1>5 DEF DecideApproval, TxOK
  <2>2. {ApprovalRow(tx[p].v)} \in SUBSET Rows
    BY <2>1, LockedRows
  <2>3. TxOK(p)'
    BY <1>0, <2>1, <2>2, LockTx DEF TxOK
  <2>. QED BY <1>a, <2>1, <2>2, <2>3
<1>6. CASE RetryTasks(p)
  <2>1. Lock(p, {TaskRows(tx[p].v)}, "commit") /\ tx[p].op = "retry" /\ tx[p].v \in Versions
    BY <1>0, <1>6 DEF RetryTasks, TxOK
  <2>2. {TaskRows(tx[p].v)} \in SUBSET Rows
    BY <2>1, LockedRows
  <2>3. TxOK(p)'
    BY <1>0, <2>1, <2>2, LockTx DEF TxOK
  <2>. QED BY <1>a, <2>1, <2>2, <2>3
<1>. QED BY <1>1, <1>2, <1>3, <1>4, <1>5, <1>6 DEF Locks

-----------------------------------------------------------------------------
(* The parts of the type invariant make it up in the next state too.       *)
LEMMA TypesNext ==
  ASSUME TypesOfRows', TypesOfWork', tx' \in [Procs -> TxRec]
  PROVE  TypeOK'
  BY DEF TypeOK, TypesOfRows, TypesOfWork, PlanRec, TxRec, ApprovalType, IssueType, TaskType

(* One version moves and does not become live: it is enough that its rows  *)
(* agree afterwards and that whoever holds them is not surprised.          *)
LEMMA OneVersionMoves ==
  ASSUME LifecycleInv, NEW v \in Versions,
         \A u \in Versions \ {v} : /\ plan'[u] = plan[u] /\ approval'[u] = approval[u]
                                   /\ run'[u] = run[u] /\ issue'[u] = issue[u],
         plan[v].status # "none", plan'[v].status # "none", v \in Live' => v \in Live,
         IssuesPublished(v) => IssuesPublished(v)', VersionOK(v)',
         \A q \in Procs :
            \/ tx'[q] = Idle
            \/ /\ tx'[q] = tx[q]
               /\ PlanRow(v) \in tx[q].locks => plan'[v].status = plan[v].status /\ run'[v] = run[v]
               /\ ApprovalRow(v) \in tx[q].locks => approval'[v] \in {approval[v], "pending"}
  PROVE  LifecycleInv'
<1>1. Existing' = Existing /\ Live' \subseteq Live
  BY DEF Existing, Live
<1>2. LocksExclude'
  BY IdleIsTx DEF LifecycleInv, LocksExclude
<1>3. VersionsGrow'
  BY <1>1 DEF LifecycleInv, VersionsGrow
<1>4. OneLivePlan'
  BY <1>1 DEF LifecycleInv, OneLivePlan, Latest, Live
<1>5. \A u \in Versions : VersionOK(u)'
  BY DEF LifecycleInv, VersionsAreSound, VersionOK, ApprovedAsIs, IssuesPublished, RunFits
<1>6. \A u \in Versions : IssuesPublished(u) => IssuesPublished(u)'
  BY DEF IssuesPublished
<1>7. ASSUME NEW q \in Procs PROVE TxOK(q)'
  <2>1. CASE tx'[q] = Idle
    BY <2>1 DEF TxOK, Idle
  <2>2. CASE tx'[q] = tx[q]
    <3>0. TxOK(q) /\ ~(tx'[q] = Idle /\ tx[q] # Idle)
      BY <2>2 DEF LifecycleInv, TxsAreSound
    <3>1. CASE tx[q] = Idle
      BY <2>1, <2>2, <3>1
    <3>2. CASE tx[q] # Idle
      <4>1. /\ PlanRow(v) \in tx[q].locks => plan'[v].status = plan[v].status /\ run'[v] = run[v]
            /\ ApprovalRow(v) \in tx[q].locks => approval'[v] \in {approval[v], "pending"}
        BY <2>2, <3>2
      <4>2. \A u \in Versions : PlanRow(u) \in tx[q].locks => plan'[u].status = plan[u].status /\ run'[u] = run[u]
        BY <4>1
      <4>3. \A u \in Versions : ApprovalRow(u) \in tx[q].locks => approval'[u] \in {approval[u], "pending"}
        BY <4>1
      <4>. QED BY <1>1, <1>6, <2>2, <3>0, <4>2, <4>3 DEF TxOK
    <3>. QED BY <3>1, <3>2
  <2>. QED BY <2>1, <2>2
<1>. QED BY <1>2, <1>3, <1>4, <1>5, <1>7 DEF LifecycleInv, VersionsAreSound, TxsAreSound

(* The clients that hold no lock.                                          *)
LEMMA OwnerMoves == ASSUME TypeOK, LifecycleInv, Owner PROVE TypeOK' /\ LifecycleInv'
<1>0. tx' = tx /\ tx' \in [Procs -> TxRec]
  BY Types DEF Owner, AskPlan, AskIssues, SaveIssueProposals, SubmitPlan, AskPublish,
     MarkWorkItemPublished, TaskMoves
<1>a. ASSUME UNCHANGED <<plan, approval, issue, run>> PROVE LifecycleInv'
  BY <1>0, <1>a, RowsRest DEF LifecycleInv, LocksExclude, TxsAreSound
<1>b. ASSUME NEW v \in Versions, Unlocked({PlanRow(v)}) PROVE \A q \in Procs : PlanRow(v) \notin tx[q].locks
  BY <1>b DEF Unlocked
<1>1. ASSUME NEW d \in Drafts, AskPlan(d) PROVE TypeOK' /\ LifecycleInv'
  <2>1. TypesOfWork' /\ UNCHANGED rows
    BY <1>1, Types DEF AskPlan, TypesOfWork
  <2>. QED BY <1>0, <1>a, <2>1, Types, TypesNext DEF TypesOfRows
<1>2. ASSUME NEW v \in Versions, AskIssues(v) \/ AskPublish(v) PROVE TypeOK' /\ LifecycleInv'
  <2>1. [kind |-> "propose", v |-> v] \in Drafts
    BY LifecycleAssumption DEF Drafts, Versions
  <2>2. TypesOfWork' /\ UNCHANGED rows
    BY <1>2, <2>1, Types DEF AskIssues, AskPublish, TypesOfWork
  <2>. QED BY <1>0, <1>a, <2>2, Types, TypesNext DEF TypesOfRows
<1>3. ASSUME NEW v \in Versions, SaveIssueProposals(v) PROVE TypeOK' /\ LifecycleInv'
  <2>0. VersionOK(v) /\ plan[v] \in PlanRec
    BY Types DEF LifecycleInv, VersionsAreSound, TypesOfRows
  <2> DEFINE new == [plan[v] EXCEPT !.fingerprint = 1]
  <2>1. /\ new \in PlanRec /\ new.status = plan[v].status /\ new.approved = plan[v].approved
        /\ new.fingerprint = 1
    BY <2>0 DEF PlanRec
  <2>2. plan' = [plan EXCEPT ![v] = new]
    BY <1>3 DEF SaveIssueProposals
  <2> HIDE DEF new
  <2>3. plan'[v] = new /\ plan' \in [Versions -> PlanRec] /\ \A u \in Versions \ {v} : plan'[u] = plan[u]
    BY <2>1, <2>2, PlanWrites
  <2>4. /\ plan[v].status = "discussion" /\ plan[v].fingerprint = 0 /\ Unlocked({PlanRow(v)})
        /\ UNCHANGED <<command, approval, task, run, publishing>>
        /\ \A t \in Tasks : issue[v][t] = "none"
    BY <1>3 DEF SaveIssueProposals, ForThisPlan
  <2>5. PICK s \in [Tasks -> {"proposed", "published"}] : issue' = [issue EXCEPT ![v] = s]
    BY <1>3 DEF SaveIssueProposals
  <2>6. issue' \in [Versions -> [Tasks -> IssueType]] /\ \A u \in Versions \ {v} : issue'[u] = issue[u]
    BY <2>5, Types DEF TypesOfRows, IssueType
  <2>7. TypesOfRows' /\ TypesOfWork'
    BY <1>3, <2>3, <2>4, <2>6, Types DEF TypesOfRows, TypesOfWork, SaveIssueProposals
  <2>8. run[v] = "none"
    BY <2>0, <2>4, Types DEF VersionOK, RunFits, TypesOfRows, RunStatuses
  <2>9. VersionOK(v)'
    BY <2>0, <2>1, <2>3, <2>4, <2>8 DEF VersionOK, RunFits
  <2>10. ~IssuesPublished(v)
    BY <2>4, LifecycleAssumption DEF IssuesPublished
  <2>11. LifecycleInv'
    BY <1>0, <1>b, <2>1, <2>3, <2>4, <2>6, <2>9, <2>10, OneVersionMoves DEF Live
  <2>. QED BY <1>0, <2>7, <2>11, TypesNext
<1>4. ASSUME NEW v \in Versions, SubmitPlan(v) PROVE TypeOK' /\ LifecycleInv'
  <2>0. VersionOK(v) /\ plan[v] \in PlanRec
    BY Types DEF LifecycleInv, VersionsAreSound, TypesOfRows
  <2>1. /\ plan[v].status = "discussion" /\ Unlocked({PlanRow(v)}) /\ IssuesProposed(v)
        /\ approval' = [approval EXCEPT ![v] = "pending"] /\ SetPlan(v, "awaiting_approval")
        /\ UNCHANGED <<command, issue, task, run, drafting, publishing>>
    BY <1>4 DEF SubmitPlan
  <2>2. /\ plan' \in [Versions -> PlanRec] /\ plan'[v].status = "awaiting_approval"
        /\ plan'[v].fingerprint = plan[v].fingerprint /\ plan'[v].approved = plan[v].approved
        /\ \A u \in Versions \ {v} : plan'[u] = plan[u]
    BY <2>1, Statuses, SetPlanWrites
  <2>3. /\ approval' \in [Versions -> ApprovalType] /\ approval'[v] = "pending"
        /\ \A u \in Versions \ {v} : approval'[u] = approval[u]
    BY <2>1, Types DEF TypesOfRows, ApprovalType
  <2>4. TypesOfRows' /\ TypesOfWork'
    BY <2>1, <2>2, <2>3, Types DEF TypesOfRows, TypesOfWork
  <2>5. run[v] = "none"
    BY <2>0, <2>1, Types DEF VersionOK, RunFits, TypesOfRows, RunStatuses
  <2>6. VersionOK(v)'
    BY <2>0, <2>1, <2>2, <2>3, <2>5 DEF VersionOK, RunFits, IssuesProposed
  <2>7. LifecycleInv'
    BY <1>0, <1>b, <2>1, <2>2, <2>3, <2>6, OneVersionMoves DEF Live, IssuesPublished
  <2>. QED BY <1>0, <2>4, <2>7, TypesNext
<1>5. ASSUME NEW v \in Versions, NEW t \in Tasks, MarkWorkItemPublished(v, t)
      PROVE  TypeOK' /\ LifecycleInv'
  <2>0. VersionOK(v)
    BY DEF LifecycleInv, VersionsAreSound
  <2>1. /\ issue[v][t] = "proposed" /\ UNCHANGED <<command, plan, approval, task, run, work>>
        /\ issue' = [issue EXCEPT ![v] = [issue[v] EXCEPT ![t] = "published"]]
    BY <1>5 DEF MarkWorkItemPublished
  <2>2. issue[v] \in [Tasks -> IssueType] /\ issue \in [Versions -> [Tasks -> IssueType]]
    BY Types DEF TypesOfRows
  <2>3. /\ issue' \in [Versions -> [Tasks -> IssueType]]
        /\ \A u \in Versions \ {v} : issue'[u] = issue[u]
        /\ \A x \in Tasks : issue'[v][x] \in {issue[v][x], "published"}
    BY <2>1, <2>2 DEF IssueType
  <2>4. TypesOfRows' /\ TypesOfWork'
    BY <2>1, <2>3, Types DEF TypesOfRows, TypesOfWork
  <2>5. plan[v].fingerprint # 0 /\ plan[v].status # "none"
    BY <2>0, <2>1 DEF VersionOK
  <2>6. VersionOK(v)' /\ (IssuesPublished(v) => IssuesPublished(v)')
    BY <2>0, <2>1, <2>3, <2>5 DEF VersionOK, RunFits, ApprovedAsIs, IssuesPublished
  <2>7. LifecycleInv'
    BY <1>0, <2>1, <2>3, <2>5, <2>6, OneVersionMoves DEF Live
  <2>. QED BY <1>0, <2>4, <2>7, TypesNext
<1>6. ASSUME NEW v \in Versions, NEW t \in Tasks, TaskMoves(v, t)
      PROVE  TypeOK' /\ LifecycleInv'
  <2>1. UNCHANGED <<command, plan, approval, issue, run, work>>
    BY <1>6 DEF TaskMoves
  <2>2. PICK s \in TaskType : task' = [task EXCEPT ![v] = [task[v] EXCEPT ![t] = s]]
    BY <1>6 DEF TaskMoves, TaskType, FinalTask
  <2>3. task' \in [Versions -> [Tasks -> TaskType]]
    BY <2>2, Types DEF TypesOfRows
  <2>4. TypesOfRows' /\ TypesOfWork'
    BY <2>1, <2>3, Types DEF TypesOfRows, TypesOfWork
  <2>. QED BY <1>0, <1>a, <2>1, <2>4, TypesNext
<1>. QED BY <1>1, <1>2, <1>3, <1>4, <1>5, <1>6 DEF Owner

-----------------------------------------------------------------------------
(* A transaction commits what it wrote to one version whose plan row it    *)
(* holds.                                                                  *)
LEMMA CommitMoves ==
  ASSUME TypeOK, LifecycleInv, NEW p \in Procs, tx' = [tx EXCEPT ![p] = Idle],
         NEW v \in Versions, PlanRow(v) \in tx[p].locks,
         ApprovalRow(v) \in tx[p].locks \/ approval'[v] = approval[v],
         \A u \in Versions \ {v} : plan'[u] = plan[u] /\ approval'[u] = approval[u] /\ run'[u] = run[u],
         issue' = issue, plan[v].status # "none", plan'[v].status # "none",
         v \in Live' => v \in Live, VersionOK(v)'
  PROVE  LifecycleInv'
<1>1. tx'[p] = Idle /\ \A q \in Procs \ {p} : tx'[q] = tx[q]
  BY EndTx
<1>2. \A q \in Procs \ {p} : tx[p].locks \cap tx[q].locks = {}
  BY DEF LifecycleInv, LocksExclude
<1>3. ASSUME NEW q \in Procs
      PROVE  \/ tx'[q] = Idle
             \/ /\ tx'[q] = tx[q]
                /\ PlanRow(v) \in tx[q].locks => plan'[v].status = plan[v].status /\ run'[v] = run[v]
                /\ ApprovalRow(v) \in tx[q].locks => approval'[v] \in {approval[v], "pending"}
  <2>1. CASE q = p
    BY <1>1, <2>1
  <2>2. CASE q # p
    BY <1>1, <1>2, <2>2
  <2>. QED BY <2>1, <2>2
<1>4. IssuesPublished(v) => IssuesPublished(v)'
  BY DEF IssuesPublished
<1>. QED BY <1>3, <1>4, OneVersionMoves

(* The task rows of one version, after a decision, a retry or a run ended. *)
LEMMA TaskWrites ==
  ASSUME TypeOK, NEW v \in Versions, NEW new, \A t \in Tasks : new[t] \in TaskType,
         task' = task \/ task' = [task EXCEPT ![v] = [t \in Tasks |-> new[t]]]
  PROVE  task' \in [Versions -> [Tasks -> TaskType]]
  BY Types DEF TypesOfRows

(* Approving, rejecting and revising commit under the locks of plan,       *)
(* approvals and command.                                                  *)
LEMMA DecideCommits ==
  ASSUME TypeOK, LifecycleInv, NEW p \in Procs, DecideCommit(p)
  PROVE  TypeOK' /\ LifecycleInv'
<1>0. PICK v \in Versions, to \in {"approved", "cancelled"} :
        /\ v = tx[p].v /\ to = tx[p].to /\ plan[v].status = "awaiting_approval"
        /\ PlanRow(v) \in tx[p].locks /\ ApprovalRow(v) \in tx[p].locks /\ VersionOK(v)
  BY DEF DecideCommit, LifecycleInv, TxsAreSound, TxOK, VersionsAreSound
<1> DEFINE new == [plan[v] EXCEPT !.status = to, !.approved = Approving(to = "approved", plan[v])]
<1>1. plan[v] \in PlanRec /\ to \in PlanStatuses
  BY <1>0, Types, Statuses DEF TypesOfRows
<1>2. /\ new \in PlanRec /\ new.status = to /\ new.fingerprint = plan[v].fingerprint
      /\ to = "approved" => new.approved = {plan[v].fingerprint}
  BY <1>1 DEF PlanRec, Approving
<1>3. /\ plan' = [plan EXCEPT ![v] = new] /\ UNCHANGED <<issue, run, work>> /\ command' = to
      /\ tx' = [tx EXCEPT ![p] = Idle]
      /\ approval' = [approval EXCEPT ![v] = IF to = "approved" THEN "approved" ELSE "rejected"]
      /\ task' = task \/ task' = [task EXCEPT ![v] = [t \in Tasks |-> "cancelled"]]
  BY <1>0 DEF DecideCommit, Commit
<1> HIDE DEF new
<1>4. /\ plan' \in [Versions -> PlanRec] /\ plan'[v] = new
      /\ \A u \in Versions \ {v} : plan'[u] = plan[u]
  BY <1>0, <1>2, <1>3, PlanWrites
<1>5. /\ approval' \in [Versions -> ApprovalType]
      /\ approval'[v] = (IF to = "approved" THEN "approved" ELSE "rejected")
      /\ \A u \in Versions \ {v} : approval'[u] = approval[u]
  BY <1>0, <1>3, Types DEF TypesOfRows, ApprovalType
<1>6. task' \in [Versions -> [Tasks -> TaskType]]
  <2>1. [t \in Tasks |-> "cancelled"] \in [Tasks -> TaskType]
    BY DEF TaskType, FinalTask
  <2>. QED BY <1>3, <2>1, Types DEF TypesOfRows
<1>7. TypesOfRows' /\ TypesOfWork'
  BY <1>0, <1>3, <1>4, <1>5, <1>6, Types, Statuses DEF TypesOfRows, TypesOfWork
<1>8. run[v] = "none"
  BY <1>0, Types DEF VersionOK, RunFits, TypesOfRows, RunStatuses
<1>9. VersionOK(v)'
  BY <1>0, <1>2, <1>3, <1>4, <1>5, <1>8 DEF VersionOK, RunFits, ApprovedAsIs
<1>10. LifecycleInv'
  <2>1. v \in Live
    BY <1>0 DEF Live
  <2>2. plan'[v].status # "none"
    BY <1>0, <1>2, <1>4
  <2>. QED BY <1>0, <1>3, <1>4, <1>5, <1>9, <2>1, <2>2, CommitMoves
<1>. QED BY <1>3, <1>7, <1>10, EndTx, TypesNext

(* A run starts for the approved plan whose row and work it has locked.    *)
LEMMA StartCommits ==
  ASSUME TypeOK, LifecycleInv, NEW p \in Procs, StartCommit(p)
  PROVE  TypeOK' /\ LifecycleInv'
<1>0. PICK v \in Versions :
        /\ v = tx[p].v /\ plan[v].status = "approved" /\ IssuesPublished(v)
        /\ PlanRow(v) \in tx[p].locks /\ VersionOK(v)
  BY DEF StartCommit, LifecycleInv, TxsAreSound, TxOK, VersionsAreSound
<1>1. /\ SetPlan(v, "running") /\ UNCHANGED <<approval, issue, task, work>> /\ command' = "running"
      /\ tx' = [tx EXCEPT ![p] = Idle] /\ run' = [run EXCEPT ![v] = "pending"]
  BY <1>0 DEF StartCommit, Commit
<1>2. /\ plan' \in [Versions -> PlanRec] /\ plan'[v].status = "running"
      /\ plan'[v].fingerprint = plan[v].fingerprint /\ plan'[v].approved = plan[v].approved
      /\ \A u \in Versions \ {v} : plan'[u] = plan[u]
  BY <1>0, <1>1, Statuses, SetPlanWrites
<1>3. /\ run' \in [Versions -> RunStatuses] /\ run'[v] = "pending"
      /\ \A u \in Versions \ {v} : run'[u] = run[u]
  BY <1>0, <1>1, Types, Statuses DEF TypesOfRows
<1>4. TypesOfRows' /\ TypesOfWork'
  BY <1>1, <1>2, <1>3, Types, Statuses DEF TypesOfRows, TypesOfWork
<1>5. VersionOK(v)'
  BY <1>0, <1>1, <1>2, <1>3 DEF VersionOK, RunFits, ApprovedAsIs, IssuesPublished
<1>6. LifecycleInv'
  BY <1>0, <1>1, <1>2, <1>3, <1>5, CommitMoves DEF Live
<1>. QED BY <1>1, <1>4, <1>6, EndTx, TypesNext

(* A retry reopens the tasks and the run it has locked.                    *)
LEMMA RetryCommits ==
  ASSUME TypeOK, LifecycleInv, NEW p \in Procs, RetryCommit(p)
  PROVE  TypeOK' /\ LifecycleInv'
<1>0. PICK v \in Versions :
        /\ v = tx[p].v /\ run[v] = "failed" /\ PlanRow(v) \in tx[p].locks /\ VersionOK(v)
  BY DEF RetryCommit, LifecycleInv, TxsAreSound, TxOK, VersionsAreSound
<1>1. /\ SetPlan(v, "running") /\ UNCHANGED <<approval, issue, work>> /\ command' = "running"
      /\ tx' = [tx EXCEPT ![p] = Idle] /\ run' = [run EXCEPT ![v] = "pending"]
      /\ task' = [task EXCEPT ![v] = [t \in Tasks |->
                    IF task[v][t] = "completed" THEN task[v][t] ELSE "planned"]]
  BY <1>0 DEF RetryCommit, Commit
<1>2. /\ plan' \in [Versions -> PlanRec] /\ plan'[v].status = "running"
      /\ plan'[v].fingerprint = plan[v].fingerprint /\ plan'[v].approved = plan[v].approved
      /\ \A u \in Versions \ {v} : plan'[u] = plan[u]
  BY <1>0, <1>1, Statuses, SetPlanWrites
<1>3. /\ run' \in [Versions -> RunStatuses] /\ run'[v] = "pending"
      /\ \A u \in Versions \ {v} : run'[u] = run[u]
  BY <1>0, <1>1, Types, Statuses DEF TypesOfRows
<1>4. task' \in [Versions -> [Tasks -> TaskType]]
  BY <1>0, <1>1, Types DEF TypesOfRows, TaskType, FinalTask
<1>5. TypesOfRows' /\ TypesOfWork'
  BY <1>1, <1>2, <1>3, <1>4, Types, Statuses DEF TypesOfRows, TypesOfWork
<1>6. plan[v].status = "failed"
  BY <1>0 DEF VersionOK, RunFits
<1>7. VersionOK(v)'
  BY <1>0, <1>1, <1>2, <1>3 DEF VersionOK, RunFits, ApprovedAsIs, IssuesPublished
<1>8. LifecycleInv'
  BY <1>0, <1>1, <1>2, <1>3, <1>6, <1>7, CommitMoves DEF Live
<1>. QED BY <1>1, <1>5, <1>8, EndTx, TypesNext

(* The workflow's writes to the run commit under the locks of run and      *)
(* plan.                                                                   *)
LEMMA RunCommits ==
  ASSUME TypeOK, LifecycleInv, NEW p \in Procs, RunCommit(p)
  PROVE  TypeOK' /\ LifecycleInv'
<1>0. PICK v \in Versions, to \in {"running", "paused", "completed", "failed", "cancelled"} :
        /\ v = tx[p].v /\ to = tx[p].to /\ <<run[v], to>> \in RunMoves
        /\ PlanRow(v) \in tx[p].locks /\ VersionOK(v) /\ run[v] \in {"pending", "running", "paused"}
  <2>1. tx[p].op = "run" /\ TxOK(p)
    BY DEF RunCommit, LifecycleInv, TxsAreSound
  <2>2. /\ tx[p].v \in Versions /\ <<run[tx[p].v], tx[p].to>> \in RunMoves
        /\ PlanRow(tx[p].v) \in tx[p].locks
    BY <2>1 DEF TxOK
  <2>3. /\ run[tx[p].v] \in {"pending", "running", "paused"}
        /\ tx[p].to \in {"running", "paused", "completed", "failed", "cancelled"}
    BY <2>2, Statuses
  <2>. QED BY <2>2, <2>3 DEF LifecycleInv, VersionsAreSound
<1>1. /\ SetPlan(v, to) /\ UNCHANGED <<approval, issue, work>> /\ command' = StatusForCommand(to)
      /\ tx' = [tx EXCEPT ![p] = Idle] /\ run' = [run EXCEPT ![v] = to]
  BY <1>0 DEF RunCommit, Commit
<1>2. task' = [task EXCEPT ![v] = [t \in Tasks |->
          CASE to = "cancelled" /\ task[v][t] \notin FinalTask -> "cancelled"
            [] to = "failed" /\ task[v][t] = "planned" -> "failed"
            [] OTHER -> task[v][t]]]
  BY <1>0 DEF RunCommit
<1>3. /\ plan' \in [Versions -> PlanRec] /\ plan'[v].status = to
      /\ plan'[v].fingerprint = plan[v].fingerprint /\ plan'[v].approved = plan[v].approved
      /\ \A u \in Versions \ {v} : plan'[u] = plan[u]
  BY <1>0, <1>1, Statuses, SetPlanWrites
<1>4. /\ run' \in [Versions -> RunStatuses] /\ run'[v] = to
      /\ \A u \in Versions \ {v} : run'[u] = run[u]
  BY <1>0, <1>1, Types, Statuses DEF TypesOfRows
<1>5. task' \in [Versions -> [Tasks -> TaskType]]
  <2>1. ASSUME NEW t \in Tasks
        PROVE  (CASE to = "cancelled" /\ task[v][t] \notin FinalTask -> "cancelled"
                  [] to = "failed" /\ task[v][t] = "planned" -> "failed"
                  [] OTHER -> task[v][t]) \in TaskType
    BY <1>0, Types DEF TypesOfRows, TaskType, FinalTask
  <2>. QED BY <1>0, <1>2, <2>1, Types DEF TypesOfRows
<1>6. TypesOfRows' /\ TypesOfWork'
  BY <1>0, <1>1, <1>3, <1>4, <1>5, Types, Statuses DEF TypesOfRows, TypesOfWork, StatusForCommand
<1>7. plan[v].status \in {"running", "paused"}
  BY <1>0 DEF VersionOK, RunFits
<1>8. VersionOK(v)'
  BY <1>0, <1>1, <1>3, <1>4 DEF VersionOK, RunFits, ApprovedAsIs, IssuesPublished
<1>9. LifecycleInv'
  BY <1>0, <1>1, <1>3, <1>4, <1>7, <1>8, CommitMoves DEF Live
<1>. QED BY <1>1, <1>6, <1>9, EndTx, TypesNext

(* A new version: every live one is held, so it becomes the only one.      *)
LEMMA CreateCommits ==
  ASSUME TypeOK, LifecycleInv, NEW p \in Procs, CreateInsert(p)
  PROVE  TypeOK' /\ LifecycleInv'
<1>n. PICK n \in Versions : n = Cardinality(Existing) + 1
  BY DEF CreateInsert
<1> DEFINE held(r) == r \in tx[p].locks
           cancelled(v) == IF held(PlanRow(v)) /\ v \in Live THEN "cancelled" ELSE plan[v].status
           first == [Plan0 EXCEPT !.status = "discussion", !.supersedes = tx[p].v]
<1>0. /\ TxOK(p) /\ tx[p].op = "create" /\ tx[p].at = "insert" /\ tx[p] \in TxRec
      /\ \A u \in Versions : VersionOK(u)
  BY Types DEF CreateInsert, LifecycleInv, TxsAreSound, VersionsAreSound
<1>1. /\ plan' = [v \in Versions |-> IF v = n THEN first ELSE [plan[v] EXCEPT !.status = cancelled(v)]]
      /\ approval' = [v \in Versions |-> IF held(ApprovalRow(v)) THEN "cancelled" ELSE approval[v]]
      /\ issue' = [v \in Versions |-> [t \in Tasks |->
           IF held(IssueRows(v)) /\ issue[v][t] = "proposed" THEN "cancelled" ELSE issue[v][t]]]
      /\ task' = [v \in Versions |-> [t \in Tasks |->
           IF v = n THEN "planned"
           ELSE IF held(TaskRows(v)) /\ task[v][t] \notin FinalTask THEN "cancelled"
           ELSE task[v][t]]]
      /\ command' = "planned" /\ tx' = [tx EXCEPT ![p] = Idle] /\ UNCHANGED <<run, work>>
  BY <1>n DEF CreateInsert, Commit
<1>2. PICK k \in 0..MaxVersion : Existing = 1..k /\ n = k + 1
  <2>1. PICK k \in 0..MaxVersion : Existing = 1..k
    BY DEF LifecycleInv, VersionsGrow
  <2>2. Cardinality(1..k) = k
    BY LifecycleAssumption, FS_Interval
  <2>. QED BY <1>n, <2>1, <2>2
<1>3. plan[n].status = "none" /\ n \notin Live
  BY <1>0, <1>2, LifecycleAssumption DEF Existing, Live, Versions
<1>4. \A v \in Live : held(PlanRow(v)) /\ v # n
  BY <1>0, <1>3 DEF TxOK
<1>5. /\ first \in PlanRec /\ first.status = "discussion" /\ first.fingerprint = 0 /\ first.approved = {}
  BY <1>0, Statuses DEF TxRec, PlanRec, Plan0
<1>6. ASSUME NEW v \in Versions \ {n}
      PROVE  /\ plan'[v] \in PlanRec /\ plan'[v].fingerprint = plan[v].fingerprint
             /\ plan'[v].approved = plan[v].approved
             /\ plan'[v].status = (IF v \in Live THEN "cancelled" ELSE plan[v].status)
  <2>1. plan[v] \in PlanRec /\ cancelled(v) \in PlanStatuses
    BY Types, Statuses DEF TypesOfRows, PlanRec
  <2>2. plan'[v] = [plan[v] EXCEPT !.status = cancelled(v)]
    BY <1>1
  <2>3. cancelled(v) = (IF v \in Live THEN "cancelled" ELSE plan[v].status)
    BY <1>4
  <2> HIDE DEF cancelled
  <2>. QED BY <2>1, <2>2, <2>3 DEF PlanRec
<1>7. plan'[n] = first
  BY <1>0, <1>1
<1> HIDE DEF first
<1>8. TypesOfRows' /\ TypesOfWork'
  <2>1. plan' \in [Versions -> PlanRec]
    <3>1. \A v \in Versions : plan'[v] \in PlanRec
      BY <1>5, <1>6, <1>7
    <3>. QED BY <1>1, <3>1
  <2>2. approval' \in [Versions -> ApprovalType]
    BY <1>1, Types DEF TypesOfRows, ApprovalType
  <2>3. issue' \in [Versions -> [Tasks -> IssueType]]
    BY <1>1, Types DEF TypesOfRows, IssueType
  <2>4. task' \in [Versions -> [Tasks -> TaskType]]
    <3>1. ASSUME NEW v \in Versions, NEW t \in Tasks
          PROVE  (IF v = n THEN "planned"
                  ELSE IF held(TaskRows(v)) /\ task[v][t] \notin FinalTask THEN "cancelled"
                  ELSE task[v][t]) \in TaskType
      BY Types DEF TypesOfRows, TaskType, FinalTask
    <3>. QED BY <1>1, <3>1
  <2>. QED BY <1>1, <2>1, <2>2, <2>3, <2>4, Types, Statuses DEF TypesOfRows, TypesOfWork
<1>9. /\ Existing' = 1..(k + 1) /\ Live' = {n}
  <2>1. \A v \in Versions : v \in Existing' <=> v \in Existing \/ v = n
    BY <1>5, <1>6, <1>7 DEF Existing, Live
  <2>2. \A v \in Versions : v \in Live' <=> v = n
    BY <1>5, <1>6, <1>7 DEF Live
  <2>3. Existing' \subseteq Versions /\ Live' \subseteq Versions
    BY DEF Existing, Live
  <2>4. k \in Nat /\ MaxVersion \in Nat /\ n \in 1..MaxVersion /\ n = k + 1
    BY <1>2, LifecycleAssumption DEF Versions
  <2>5. \A v \in 1..MaxVersion : v \in Existing' <=> v \in 1..k \/ v = k + 1
    BY <1>2, <2>1 DEF Versions
  <2>6. 1..(k + 1) \subseteq 1..MaxVersion /\ \A v \in 1..(k + 1) : v \in 1..k \/ v = k + 1
    BY <2>4
  <2>7. Existing' \subseteq 1..MaxVersion /\ 1..k \subseteq 1..(k + 1)
    BY <2>3, <2>4 DEF Versions
  <2>8. Existing' = 1..(k + 1)
    <3>1. ASSUME NEW v \in Existing' PROVE v \in 1..(k + 1)
      <4>1. v \in 1..k \/ v = k + 1
        BY <2>5, <2>7
      <4>. QED BY <2>4, <4>1
    <3>2. ASSUME NEW v \in 1..(k + 1) PROVE v \in Existing'
      BY <2>5, <2>6
    <3>. QED BY <3>1, <3>2
  <2>. QED BY <2>2, <2>3, <2>8
<1>10. VersionsGrow'
  BY <1>0, <1>2, <1>9, LifecycleAssumption DEF VersionsGrow, Versions
<1>11. OneLivePlan'
  <2>1. Latest(n)'
    BY <1>2, <1>9 DEF Latest
  <2>. QED BY <1>9, <2>1 DEF OneLivePlan, Live
<1>12. ASSUME NEW v \in Versions PROVE VersionOK(v)'
  <2>0. VersionOK(v) /\ (held(ApprovalRow(v)) => approval[v] = "pending")
    BY <1>0 DEF TxOK
  <2>1. approval'[v] = (IF held(ApprovalRow(v)) THEN "cancelled" ELSE approval[v])
    BY <1>1
  <2>2. \A t \in Tasks : issue'[v][t] = issue[v][t] \/ (issue[v][t] = "proposed" /\ issue'[v][t] = "cancelled")
    BY <1>1
  <2>3. run'[v] = run[v] /\ run[v] \in RunStatuses
    BY <1>1, Types DEF TypesOfRows
  <2>4. CASE v = n
    BY <1>3, <1>5, <1>7, <2>0, <2>1, <2>2, <2>3, <2>4 DEF VersionOK, RunFits
  <2>5. CASE v # n /\ v \in Live
    <3>1. run[v] = "none"
      BY <2>0, <2>3, <2>5 DEF VersionOK, RunFits, Live, RunStatuses
    <3>. QED BY <1>6, <2>0, <2>1, <2>2, <2>3, <2>5, <3>1 DEF VersionOK, RunFits
  <2>6. CASE v # n /\ v \notin Live
    <3>1. /\ plan'[v].status = plan[v].status /\ plan'[v].fingerprint = plan[v].fingerprint
          /\ plan'[v].approved = plan[v].approved /\ plan[v].status # "awaiting_approval"
      BY <1>6, <2>6 DEF Live
    <3>. QED BY <2>0, <2>1, <2>2, <2>3, <3>1 DEF VersionOK, RunFits, ApprovedAsIs, IssuesPublished
  <2>. QED BY <2>4, <2>5, <2>6
<1>13. tx'[p] = Idle /\ \A q \in Procs \ {p} : tx'[q] = tx[q]
  BY <1>1, EndTx
<1>14. LocksExclude'
  BY <1>13, IdleIsTx DEF LifecycleInv, LocksExclude
(* A decision or a start holds the live version it is about, another       *)
(* creation holds the command: none of them is open beside this one.       *)
<1>15. ASSUME NEW q \in Procs PROVE TxOK(q)'
  <2>1. CASE q = p
    BY <1>13, <2>1 DEF TxOK, Idle
  <2>2. CASE q # p
    <3>0. tx'[q] = tx[q] /\ TxOK(q) /\ tx[p].locks \cap tx[q].locks = {} /\ CommandRow \in tx[p].locks
      BY <1>0, <1>13, <2>2 DEF LifecycleInv, TxsAreSound, LocksExclude, TxOK
    <3>1. tx[q].op # "create"
      BY <3>0 DEF TxOK
    <3>2. tx[q].op \notin {"decide", "start"}
      BY <1>4, <3>0 DEF TxOK, Live
    <3>. QED BY <1>1, <3>0, <3>1, <3>2 DEF TxOK
  <2>. QED BY <2>1, <2>2
<1>16. LifecycleInv'
  BY <1>10, <1>11, <1>12, <1>14, <1>15 DEF LifecycleInv, VersionsAreSound, TxsAreSound
<1>. QED BY <1>1, <1>8, <1>16, EndTx, TypesNext

-----------------------------------------------------------------------------
(* There is no run and no approval at first.                               *)
LEMMA InitLifecycle == Init => LifecycleInv
<1> SUFFICES ASSUME Init PROVE LifecycleInv
  OBVIOUS
<1>1. /\ \A v \in Versions : /\ plan[v].status = "none" /\ plan[v].fingerprint = 0
                             /\ plan[v].approved = {} /\ run[v] = "none"
      /\ \A p \in Procs : tx[p] = Idle
  BY DEF Init, Plan0
<1>2. Existing = {} /\ 0 \in 0..MaxVersion
  BY <1>1, LifecycleAssumption DEF Existing
<1>3. VersionsGrow
  BY <1>2 DEF VersionsGrow
<1>4. OneLivePlan
  BY <1>1 DEF OneLivePlan
<1>5. VersionsAreSound
  BY <1>1 DEF Init, VersionsAreSound, VersionOK, RunFits
<1>6. LocksExclude /\ TxsAreSound
  BY <1>1 DEF LocksExclude, TxsAreSound, TxOK, Idle
<1>. QED BY <1>3, <1>4, <1>5, <1>6 DEF LifecycleInv

(* A rollback gives the locks back and writes nothing.                     *)
LEMMA RollbackStep ==
  ASSUME TypeOK, LifecycleInv, NEW p \in Procs, Rollback(p)
  PROVE  TypeOK' /\ LifecycleInv'
<1>1. /\ tx'[p] = Idle /\ (\A q \in Procs \ {p} : tx'[q] = tx[q]) /\ tx' \in [Procs -> TxRec]
      /\ UNCHANGED <<rows, work>>
  BY EndTx DEF Rollback
<1>2. TypesOfWork' /\ LockedFor(p, tx'[p].locks \ tx[p].locks)
  BY <1>1, Types, IdleIsTx DEF TypesOfWork, LockedFor
<1>3. TxOK(p)'
  BY <1>1 DEF TxOK, Idle
<1>. QED BY <1>1, <1>2, <1>3, TxMoves

(* Every step keeps types and invariant: one lemma per kind of statement.  *)
LEMMA LifecycleStep == TypeOK /\ LifecycleInv /\ [Next]_vars => TypeOK' /\ LifecycleInv'
<1> SUFFICES ASSUME TypeOK, LifecycleInv, [Next]_vars PROVE TypeOK' /\ LifecycleInv'
  OBVIOUS
<1>1. CASE UNCHANGED vars
  <2>1. TypeOK'
    BY <1>1 DEF vars, TypeOK
  <2>2. LifecycleInv'
    BY <1>1, RowsRest DEF vars, LifecycleInv, LocksExclude, TxsAreSound
  <2>. QED BY <2>1, <2>2
<1>2. ASSUME NEW p \in Procs, Commits(p) PROVE TypeOK' /\ LifecycleInv'
  BY <1>2, CreateCommits, DecideCommits, StartCommits, RetryCommits, RunCommits DEF Commits
<1>3. CASE Owner
  BY <1>3, OwnerMoves
<1>4. ASSUME NEW p \in Procs, Transaction(p) PROVE TypeOK' /\ LifecycleInv'
  BY <1>2, <1>4, Statements, BeginsStep, LocksStep, RollbackStep
<1>. QED BY <1>1, <1>3, <1>4 DEF Next

(* The locks keep the rows of every version and of every open transaction  *)
(* together, for any number of versions, tasks and connections.            *)
THEOREM LifecycleKept == Spec => [](TypeOK /\ LifecycleInv)
<1>1. Init => TypeOK /\ LifecycleInv
  BY InitTypes, InitLifecycle
<1>. QED BY <1>1, LifecycleStep, PTL DEF Spec

(* Whatever overlaps, a version runs only with the content that was        *)
(* approved and with an issue published for every one of its tasks.        *)
THEOREM OnlyApprovedRuns == Spec => []RunIsApproved
<1>1. LifecycleInv => RunIsApproved
  BY DEF LifecycleInv, VersionsAreSound, VersionOK, RunIsApproved, ApprovedAsIs, IssuesPublished
<1>. QED BY <1>1, LifecycleKept, PTL

(* There is one live version at most, the latest, and one that awaits the  *)
(* owner can be decided.                                                   *)
THEOREM OwnerIsAskedOnce == Spec => []OwnerCanDecide
<1>1. TypeOK /\ LifecycleInv => OwnerCanDecide
  <2> SUFFICES ASSUME TypeOK, LifecycleInv PROVE OwnerCanDecide
    OBVIOUS
  <2>1. AwaitingIsDecidable
    <3> SUFFICES ASSUME NEW v \in Versions, plan[v].status = "awaiting_approval"
                 PROVE  /\ approval[v] = "pending" /\ plan[v].fingerprint = 1
                        /\ \A t \in Tasks : issue[v][t] \in {"proposed", "published"}
      BY DEF AwaitingIsDecidable
    <3>1. VersionOK(v) /\ plan[v].fingerprint \in {0, 1}
      BY Types DEF LifecycleInv, VersionsAreSound, TypesOfRows, PlanRec
    <3>. QED BY <3>1, LifecycleAssumption DEF VersionOK
  <2>. QED BY <2>1 DEF OwnerCanDecide, LifecycleInv
<1>. QED BY <1>1, LifecycleKept, PTL

-----------------------------------------------------------------------------
(***************************************************************************)
(* The plan rows implement PlanVersion.                                    *)
(***************************************************************************)
VersionVars == <<[v \in Versions |-> plan[v].status], [v \in Versions |-> plan[v].fingerprint],
                 [v \in Versions |-> plan[v].approved]>>

(* One step of one version, in terms of its plan row.                      *)
Kept(v) == plan'[v].fingerprint = plan[v].fingerprint /\ plan'[v].approved = plan[v].approved
VersionStep(v) ==
  \/ plan'[v].status = plan[v].status /\ Kept(v)
  \/ plan[v].status = "none" /\ plan'[v].status = "discussion" /\ Kept(v)
  \/ /\ plan[v].status = "discussion" /\ plan'[v].status = "discussion"
     /\ plan[v].fingerprint = 0 /\ plan'[v].fingerprint = 1 /\ plan'[v].approved = plan[v].approved
  \/ /\ plan[v].status = "discussion" /\ plan'[v].status = "awaiting_approval"
     /\ plan[v].fingerprint = 1 /\ Kept(v)
  \/ /\ plan[v].status = "awaiting_approval" /\ plan'[v].status = "approved"
     /\ plan'[v].approved = {plan[v].fingerprint} /\ plan'[v].fingerprint = plan[v].fingerprint
  \/ v \in Live /\ plan'[v].status = "cancelled" /\ Kept(v)
  \/ /\ plan[v].status \in {"approved", "failed"} /\ plan'[v].status = "running"
     /\ plan[v].approved = {plan[v].fingerprint} /\ Kept(v)
  \/ /\ plan[v].status \in {"running", "paused"} /\ Kept(v)
     /\ plan'[v].status \in {"running", "paused", "completed", "failed", "cancelled"}

(* A step in which every version makes its own step or none is a step of   *)
(* all versions.                                                           *)
LEMMA VersionNext == (\A v \in Versions : VersionStep(v)) => Version!Next
<1> SUFFICES ASSUME NEW v \in Versions, VersionStep(v)
             PROVE  \/ Version!Draft(v) \/ Version!Bind(v) \/ Version!Submit(v) \/ Version!Approve(v)
                    \/ Version!Withdraw(v) \/ Version!Run(v) \/ Version!Work(v) \/ Version!Rest(v)
  BY DEF Version!Next
<1> USE DEF Kept, Version!Move, Version!SameContent, Version!SameApproval
<1>1. CASE plan'[v].status = plan[v].status /\ Kept(v)
  BY <1>1 DEF Version!Rest
<1>2. CASE plan[v].status = "none" /\ plan'[v].status = "discussion" /\ Kept(v)
  BY <1>2 DEF Version!Draft
<1>3. CASE /\ plan[v].status = "discussion" /\ plan'[v].status = "discussion"
           /\ plan[v].fingerprint = 0 /\ plan'[v].fingerprint = 1 /\ plan'[v].approved = plan[v].approved
  BY <1>3 DEF Version!Bind
<1>4. CASE /\ plan[v].status = "discussion" /\ plan'[v].status = "awaiting_approval"
           /\ plan[v].fingerprint = 1 /\ Kept(v)
  BY <1>4 DEF Version!Submit
<1>5. CASE /\ plan[v].status = "awaiting_approval" /\ plan'[v].status = "approved"
           /\ plan'[v].approved = {plan[v].fingerprint} /\ plan'[v].fingerprint = plan[v].fingerprint
  BY <1>5 DEF Version!Approve
<1>6. CASE v \in Live /\ plan'[v].status = "cancelled" /\ Kept(v)
  BY <1>6 DEF Version!Withdraw, Live
<1>7. CASE /\ plan[v].status \in {"approved", "failed"} /\ plan'[v].status = "running"
           /\ plan[v].approved = {plan[v].fingerprint} /\ Kept(v)
  BY <1>7 DEF Version!Run
<1>8. CASE /\ plan[v].status \in {"running", "paused"} /\ Kept(v)
           /\ plan'[v].status \in {"running", "paused", "completed", "failed", "cancelled"}
  BY <1>8 DEF Version!Work
<1>. QED BY <1>1, <1>2, <1>3, <1>4, <1>5, <1>6, <1>7, <1>8 DEF VersionStep

(* Every writer of a plan row makes a step that its version may make.      *)
LEMMA VersionSteps ==
  ASSUME TypeOK, LifecycleInv, Next
  PROVE  UNCHANGED plan \/ \A v \in Versions : VersionStep(v)
<1>0. \A v \in Versions : VersionOK(v) /\ plan[v] \in PlanRec /\ run[v] \in RunStatuses
  BY Types DEF LifecycleInv, VersionsAreSound, TypesOfRows
<1>a. ASSUME NEW v \in Versions, VersionStep(v), \A u \in Versions \ {v} : plan'[u] = plan[u]
      PROVE  \A u \in Versions : VersionStep(u)
  BY <1>a DEF VersionStep, Kept
<1>1. ASSUME NEW v \in Versions, SaveIssueProposals(v) PROVE \A u \in Versions : VersionStep(u)
  <2> DEFINE new == [plan[v] EXCEPT !.fingerprint = 1]
  <2>1. /\ new \in PlanRec /\ new.status = plan[v].status /\ new.approved = plan[v].approved
        /\ new.fingerprint = 1
    BY <1>0 DEF PlanRec
  <2>2. plan' = [plan EXCEPT ![v] = new] /\ plan[v].status = "discussion" /\ plan[v].fingerprint = 0
    BY <1>1 DEF SaveIssueProposals, ForThisPlan
  <2> HIDE DEF new
  <2>3. plan'[v] = new /\ \A u \in Versions \ {v} : plan'[u] = plan[u]
    BY <2>1, <2>2, PlanWrites
  <2>. QED BY <1>a, <2>1, <2>2, <2>3 DEF VersionStep
<1>2. ASSUME NEW v \in Versions, SubmitPlan(v) PROVE \A u \in Versions : VersionStep(u)
  <2>1. plan[v].status = "discussion" /\ IssuesProposed(v) /\ SetPlan(v, "awaiting_approval")
    BY <1>2 DEF SubmitPlan
  <2>2. plan[v].fingerprint = 1
    BY <1>0, <2>1, LifecycleAssumption DEF VersionOK, IssuesProposed, PlanRec
  <2>. QED BY <1>a, <2>1, <2>2, Statuses, SetPlanWrites DEF VersionStep, Kept
<1>3. ASSUME NEW p \in Procs, DecideCommit(p) PROVE \A u \in Versions : VersionStep(u)
  <2>1. PICK v \in Versions, to \in {"approved", "cancelled"} :
          v = tx[p].v /\ to = tx[p].to /\ plan[v].status = "awaiting_approval"
    BY <1>3 DEF DecideCommit, LifecycleInv, TxsAreSound, TxOK
  <2> DEFINE new == [plan[v] EXCEPT !.status = to, !.approved = Approving(to = "approved", plan[v])]
  <2>2. /\ new \in PlanRec /\ new.status = to /\ new.fingerprint = plan[v].fingerprint
        /\ new.approved = (IF to = "approved" THEN {plan[v].fingerprint} ELSE plan[v].approved)
    BY <1>0, Statuses DEF PlanRec, Approving
  <2>3. plan' = [plan EXCEPT ![v] = new]
    BY <1>3, <2>1 DEF DecideCommit
  <2> HIDE DEF new
  <2>4. plan'[v] = new /\ \A u \in Versions \ {v} : plan'[u] = plan[u]
    BY <2>2, <2>3, PlanWrites
  <2>. QED BY <1>a, <2>1, <2>2, <2>4 DEF VersionStep, Kept, Live
<1>4. ASSUME NEW p \in Procs, StartCommit(p) \/ RetryCommit(p) PROVE \A u \in Versions : VersionStep(u)
  <2>1. PICK v \in Versions : /\ SetPlan(v, "running")
                              /\ plan[v].status = "approved" \/ run[v] = "failed"
    BY <1>4 DEF StartCommit, RetryCommit, LifecycleInv, TxsAreSound, TxOK
  <2>2. plan[v].status \in {"approved", "failed"} /\ plan[v].approved = {plan[v].fingerprint}
    BY <1>0, <2>1 DEF VersionOK, RunFits, ApprovedAsIs
  <2>. QED BY <1>a, <2>1, <2>2, Statuses, SetPlanWrites DEF VersionStep, Kept
<1>5. ASSUME NEW p \in Procs, RunCommit(p) PROVE \A u \in Versions : VersionStep(u)
  <2>1. tx[p].v \in Versions /\ <<run[tx[p].v], tx[p].to>> \in RunMoves /\ SetPlan(tx[p].v, tx[p].to)
    BY <1>5 DEF RunCommit, LifecycleInv, TxsAreSound, TxOK
  <2>2. PICK v \in Versions, to \in {"running", "paused", "completed", "failed", "cancelled"} :
          SetPlan(v, to) /\ run[v] \in {"pending", "running", "paused"}
    BY <2>1, Statuses
  <2>3. plan[v].status \in {"running", "paused"}
    BY <1>0, <2>2 DEF VersionOK, RunFits
  <2>. QED BY <1>a, <2>2, <2>3, Statuses, SetPlanWrites DEF VersionStep, Kept
<1>6. ASSUME NEW p \in Procs, CreateInsert(p) PROVE \A u \in Versions : VersionStep(u)
  <2>1. PICK n \in Versions : n = Cardinality(Existing) + 1
    BY <1>6 DEF CreateInsert
  <2>2. plan[n].status = "none" /\ plan[n].fingerprint = 0 /\ plan[n].approved = {}
    <3>1. PICK k \in 0..MaxVersion : Existing = 1..k
      BY DEF LifecycleInv, VersionsGrow
    <3>2. Cardinality(1..k) = k
      BY LifecycleAssumption, FS_Interval
    <3>3. n \notin Existing
      BY <2>1, <3>1, <3>2
    <3>. QED BY <1>0, <3>3 DEF Existing, VersionOK
  <2>3. ASSUME NEW u \in Versions PROVE VersionStep(u)
    <3>1. CASE u = n
      <4>1. plan'[n] = [Plan0 EXCEPT !.status = "discussion", !.supersedes = tx[p].v]
        BY <1>6, <2>1 DEF CreateInsert
      <4>. QED BY <2>2, <3>1, <4>1 DEF VersionStep, Kept, Plan0
    <3>2. CASE u # n
      <4> DEFINE s == IF PlanRow(u) \in tx[p].locks /\ u \in Live THEN "cancelled" ELSE plan[u].status
      <4>1. plan'[u] = [plan[u] EXCEPT !.status = s]
        BY <1>6, <2>1, <3>2 DEF CreateInsert
      <4>2. /\ plan'[u].status = s /\ plan'[u].fingerprint = plan[u].fingerprint
            /\ plan'[u].approved = plan[u].approved
        BY <1>0, <4>1 DEF PlanRec
      <4>. QED BY <4>2 DEF VersionStep, Kept
    <3>. QED BY <3>1, <3>2
  <2>. QED BY <2>3
<1>7. ASSUME NEW p \in Procs, Begins(p) \/ Locks(p) \/ Rollback(p) PROVE UNCHANGED plan
  BY <1>7 DEF Begins, Locks, Rollback, CreateBegin, DecideBegin, StartBegin, RetryBegin, RunBegin,
     Begin, CreateReplaced, CreateApprovals, CreateWork, CreatePlans, DecideApproval, RetryTasks, Lock
<1>8. CASE Owner
  <2>1. ASSUME NEW v \in Versions, NEW t \in Tasks, MarkWorkItemPublished(v, t) \/ TaskMoves(v, t)
        PROVE  UNCHANGED plan
    BY <2>1 DEF MarkWorkItemPublished, TaskMoves
  <2>2. ASSUME NEW v \in Versions, AskIssues(v) \/ AskPublish(v) PROVE UNCHANGED plan
    BY <2>2 DEF AskIssues, AskPublish
  <2>3. ASSUME NEW d \in Drafts, AskPlan(d) PROVE UNCHANGED plan
    BY <2>3 DEF AskPlan
  <2>. QED BY <1>1, <1>2, <1>8, <2>1, <2>2, <2>3 DEF Owner
<1>. QED BY <1>3, <1>4, <1>5, <1>6, <1>7, <1>8, Statements DEF Next, Commits

(* What the owner may rely on about a version holds of the plan rows: its  *)
(* content is fixed when it is submitted, and only approved content runs.  *)
THEOREM LifecycleKeepsVersions == Spec => VersionsKept
<1>1. Init => Version!Init
  BY DEF Init, Version!Init, Plan0
<1>2. TypeOK /\ LifecycleInv /\ [Next]_vars => [Version!Next]_VersionVars
  <2> SUFFICES ASSUME TypeOK, LifecycleInv, [Next]_vars
               PROVE  Version!Next \/ UNCHANGED VersionVars
    OBVIOUS
  <2>1. CASE UNCHANGED plan
    BY <2>1 DEF VersionVars
  <2>2. CASE ~UNCHANGED plan
    BY <2>2, VersionSteps, VersionNext DEF vars
  <2>. QED BY <2>1, <2>2
<1>. QED BY <1>1, <1>2, LifecycleKept, PTL DEF Spec, VersionsKept, Version!Spec, VersionVars
=============================================================================
