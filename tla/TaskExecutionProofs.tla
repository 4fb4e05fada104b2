------------------------- MODULE TaskExecutionProofs -------------------------
(***************************************************************************)
(* Proofs about TaskExecution for any files, workers, attempts, reviews,   *)
(* deliveries and faults.                                                  *)
(*                                                                         *)
(* There are two invariants.  OverlapInv holds also when a delivery that   *)
(* missed its heartbeat goes on beside its successor: it is about the rows *)
(* alone, which every delivery reads before it goes on.  ExecutionInv adds *)
(* what holds when deliveries follow each other: the one delivery at work  *)
(* is the only writer, so what it knows stays true until it reports.       *)
(***************************************************************************)
EXTENDS TaskExecution, TLAPS, FiniteSetTheorems, WellFoundedInduction

AtWork(k) == w[k].at \notin {"idle", "report"}

(* A delivery at work has begun the attempt of its execution; only one is  *)
(* the current delivery, and only while the activity runs.                 *)
Known(k) ==
  /\ w[k].at # "idle" => w[k].ex \in 1..cur
  /\ w[k].live => w[k].at # "idle" /\ w[k].ex = cur /\ job = "running"
  /\ AtWork(k) \/ (w[k].at = "report" /\ w[k].to # "error") => att[w[k].ex].status # "none"
  /\ w[k].at = "fail" => w[k].to \in {"failed", "blocked", "changes_requested"}
WorkersAreKnown ==
  /\ \A k \in Workers : Known(k)
  /\ \A k, l \in Workers : w[k].live /\ w[l].live => k = l

(* A delivery never thinks more reviews are open than the rows say.        *)
InOrder(k) ==
  /\ AtWork(k) => w[k].next <= att[w[k].ex].reviews + 1
  /\ w[k].at \in {"reviewing", "changes"} => w[k].next <= att[w[k].ex].reviews
  /\ w[k].at = "review" => w[k].next <= MaxReviews
ReviewsInOrder == \A k \in Workers : InOrder(k)

(* Executions begin one after the other, each with its own attempt row.    *)
History ==
  /\ \A e \in Executions : /\ e < cur => att[e].status # "none"
                           /\ e > cur => att[e].status = "none"
                           /\ att[e].status = "none" => att[e].reviews = 0
  /\ job = "queued" => tries < MaxDeliveries
  /\ job = "done" /\ outcome # "error" => outcome # "none" /\ att[cur].status # "none"

OverlapInv == TypeOK /\ WorkersAreKnown /\ ReviewsInOrder /\ History /\ ReviewBudget

(* When no delivery is forgotten, nobody works beside the current one.     *)
NobodyElse == \A k \in Workers : w[k].at # "idle" => w[k].live

(* While it works the rows are open; once they are closed the task row     *)
(* shows what the attempt row shows and what the delivery will answer.     *)
RowsAgree ==
  /\ \A k \in Workers :
       /\ AtWork(k) => att[cur].status \notin Finished
       /\ w[k].at = "report" /\ w[k].to # "error" => att[cur].status = w[k].to /\ task = w[k].to
  /\ job # "done" /\ att[cur].status \in Finished => task = att[cur].status
  /\ task = "completed" => att[cur].status = "completed"

(* From an approval to its commit the worktree stays what was approved.    *)
Reviewed(k) ==
  /\ w[k].at = "commit" => tree = approved /\ \A f \in Files : <<f, tree[f]>> \in accepted
  /\ w[k].at \in {"gate", "complete"} => \A f \in Files : approved[f] # 0 => head[f] = approved[f]
HeadIsReviewed ==
  /\ \A f \in Files : head[f] # 0 => <<f, head[f]>> \in accepted
  /\ \A k \in Workers : Reviewed(k)

ExecutionInv == /\ OverlapInv /\ NobodyElse /\ RowsAgree /\ OutcomeIsDurable
                /\ HeadIsReviewed /\ CommitWasReviewed

(* The steps of a delivery between the first read and the last answer.     *)
Work(k) == \/ StartCoder(k) \/ CoderResult(k) \/ BeginVerification(k) \/ Verify(k)
           \/ BeginReview(k) \/ CreateReview(k) \/ AgentFails(k) \/ Revise(k) \/ Commit(k)
           \/ TestingPolicy(k) \/ CompleteAttempt(k) \/ FailAttempt(k)

(* What such a step leaves alone: other deliveries, other executions, the  *)
(* activity, and which execution the delivery is for.                      *)
Kept(k) ==
  /\ \A l \in Workers \ {k} : w'[l] = w[l]
  /\ w'[k].ex = w[k].ex /\ w'[k].live = w[k].live
Aside(k) ==
  /\ \A e \in Executions \ {w[k].ex} : att'[e] = att[e] /\ review'[e] = review[e]
  /\ UNCHANGED activity

(* A step of the only delivery leaves its rows open, or closes them with   *)
(* the outcome it is about to report.                                      *)
Continues(k) == /\ att[cur].status \notin Finished /\ task # "completed"
                /\ w[k].at = "report" => w[k].to = "error"
Answers(k) == /\ w[k].at = "report" /\ w[k].to = task /\ att[cur].status = task
              /\ task \in {"completed", "failed", "blocked", "changes_requested"}

(* The reviews of one attempt row, as ReviewBudget has them.               *)
Budget(e) == /\ att[e].reviews <= MaxReviews
             /\ \A n \in ReviewNumbers : review[e][n].status # "none" <=> n <= att[e].reviews

-----------------------------------------------------------------------------
(* A set of numbers up to N has a greatest element.                        *)
LEMMA Greatest ==
  ASSUME NEW N \in Nat, NEW S \in SUBSET (1..N), S # {}
  PROVE  \E e \in S : \A o \in S : o <= e
<1> DEFINE T == {N - e : e \in S}
<1>1. \A e \in S : e \in Nat /\ e <= N
  OBVIOUS
<1>2. \A e \in S : N - e \in Nat
  BY <1>1
<1>3. \A e \in S : N - e \in T
  OBVIOUS
<1>4. T \subseteq Nat /\ T # {}
  BY <1>2, <1>3
<1>5. \A y \in T : \E e \in S : y = N - e
  OBVIOUS
<1> HIDE DEF T
<1>6. PICK x \in T : \A y \in T : ~ (<<y, x>> \in OpToRel(<, Nat))
  BY <1>4, WFMin, NatLessThanWellFounded, Zenon
<1>7. \A y \in T : ~ (y < x)
  BY <1>4, <1>6 DEF OpToRel
<1>8. PICK e \in S : x = N - e
  BY <1>5
<1>9. ASSUME NEW o \in S PROVE o <= e
  <2>1. N - o \in T
    BY <1>3
  <2>2. ~ (N - o < x)
    BY <1>7, <2>1, Zenon
  <2>3. ~ (N - o < N - e)
    BY <1>8, <2>2, Zenon
  <2>4. o \in Nat /\ e \in Nat
    BY <1>1, Zenon
  <2>. QED BY <2>3, <2>4
<1>. QED BY <1>9

USE ExecutionAssumption
USE DEF taskRows, worktree, activity, ghosts

(* A delivery that moves, learns or is lost is still one.                  *)
LEMMA DeliveryUpdates ==
  ASSUME NEW m \in Nat, NEW d \in Delivery(m)
  PROVE  /\ \A at \in Points : [d EXCEPT !.at = at] \in Delivery(m)
         /\ \A to \in Outcomes : [d EXCEPT !.to = to] \in Delivery(m)
         /\ \A b \in BOOLEAN : [d EXCEPT !.live = b] \in Delivery(m)
         /\ \A seen \in SUBSET Files : [d EXCEPT !.seen = seen] \in Delivery(m)
         /\ \A n \in ReviewNumbers : [d EXCEPT !.next = n] \in Delivery(m)
         /\ \A t \in 0..m : /\ [d EXCEPT !.thread = t] \in Delivery(m)
                            /\ [d EXCEPT !.replace = t] \in Delivery(m)
                            /\ [d EXCEPT !.reviewer = t] \in Delivery(m)
         /\ \A e \in Executions : [d EXCEPT !.ex = e] \in Delivery(m)
<1>1. ASSUME NEW t \in 0..m
      PROVE  /\ [d EXCEPT !.thread = t] \in Delivery(m)
             /\ [d EXCEPT !.replace = t] \in Delivery(m)
             /\ [d EXCEPT !.reviewer = t] \in Delivery(m)
  BY DEF Delivery
<1>2. ASSUME NEW e \in Executions PROVE [d EXCEPT !.ex = e] \in Delivery(m)
  BY DEF Delivery, Executions
<1>3. /\ \A at \in Points : [d EXCEPT !.at = at] \in Delivery(m)
      /\ \A to \in Outcomes : [d EXCEPT !.to = to] \in Delivery(m)
      /\ \A b \in BOOLEAN : [d EXCEPT !.live = b] \in Delivery(m)
      /\ \A seen \in SUBSET Files : [d EXCEPT !.seen = seen] \in Delivery(m)
      /\ \A n \in ReviewNumbers : [d EXCEPT !.next = n] \in Delivery(m)
  BY DEF Delivery
<1>. QED BY <1>1, <1>2, <1>3

(* Updates of three and four fields, one after the other.                  *)
LEMMA DeliveryThreads ==
  ASSUME NEW m \in Nat, NEW d \in Delivery(m), NEW at \in Points, NEW t \in 0..m
  PROVE  /\ [d EXCEPT !.at = at, !.thread = t, !.replace = 0] \in Delivery(m)
         /\ \A n \in ReviewNumbers :
              [d EXCEPT !.at = at, !.replace = t, !.thread = 0, !.next = n] \in Delivery(m)
<1>0. 0 \in 0..m
  OBVIOUS
<1>1. PICK d1 \in Delivery(m) : d1 = [d EXCEPT !.at = at]
  BY DeliveryUpdates
<1>2. PICK d2 \in Delivery(m) : d2 = [d1 EXCEPT !.thread = t]
  BY DeliveryUpdates
<1>3. [d2 EXCEPT !.replace = 0] \in Delivery(m)
  BY <1>0, DeliveryUpdates
<1>4. PICK d3 \in Delivery(m) : d3 = [d1 EXCEPT !.replace = t]
  BY DeliveryUpdates
<1>5. PICK d4 \in Delivery(m) : d4 = [d3 EXCEPT !.thread = 0]
  BY <1>0, DeliveryUpdates
<1>6. \A n \in ReviewNumbers : [d4 EXCEPT !.next = n] \in Delivery(m)
  BY DeliveryUpdates
<1>. QED BY <1>1, <1>2, <1>3, <1>4, <1>5, <1>6

(* No delivery is a delivery record too.                                   *)
LEMMA IdleIsDelivery == \A n \in Nat : NoDelivery \in Delivery(n)
  BY DEF NoDelivery, Delivery, Points, Outcomes, ReviewNumbers

(* An attempt row keeps its type when its status, thread or reviews change. *)
LEMMA RowUpdates ==
  ASSUME NEW m \in Nat, NEW a \in AttemptRow(m)
  PROVE  /\ \A s \in AttemptStatuses : [a EXCEPT !.status = s] \in AttemptRow(m)
         /\ \A t \in 0..m : [a EXCEPT !.thread = t] \in AttemptRow(m)
         /\ \A n \in ReviewNumbers : [a EXCEPT !.reviews = n] \in AttemptRow(m)
  BY DEF AttemptRow

(* Rows and deliveries stay what they are when new threads start.          *)
LEMMA MoreThreads ==
  ASSUME NEW m \in Nat, NEW n \in Nat, m <= n
  PROVE  /\ Delivery(m) \subseteq Delivery(n)
         /\ AttemptRow(m) \subseteq AttemptRow(n) /\ ReviewRow(m) \subseteq ReviewRow(n)
<1>1. 0..m \subseteq 0..n
  OBVIOUS
<1>. QED BY <1>1 DEF Delivery, AttemptRow, ReviewRow

(* What a step does to its own delivery and its own attempt is well typed. *)
LEMMA MovesTyped ==
  ASSUME TypeOK, NEW k \in Workers
  PROVE  /\ \A at \in Points : Goto(k, at) => w' \in [Workers -> Delivery(threads)]
         /\ \A to \in Outcomes : FailWith(k, to) => w' \in [Workers -> Delivery(threads)]
         /\ ReturnError(k) => w' \in [Workers -> Delivery(threads)]
<1>1. w[k] \in Delivery(threads) /\ threads \in Nat
  BY DEF TypeOK
<1>2. \A at \in Points : [w[k] EXCEPT !.at = at] \in Delivery(threads)
  BY <1>1, DeliveryUpdates
<1>3. \A at \in Points, to \in Outcomes : [w[k] EXCEPT !.at = at, !.to = to] \in Delivery(threads)
  BY <1>1, DeliveryUpdates
<1>4. \A to \in Outcomes : [w[k] EXCEPT !.at = "fail", !.to = to] \in Delivery(threads)
  BY <1>3 DEF Points
<1>5. [w[k] EXCEPT !.at = "report", !.to = "error"] \in Delivery(threads)
  BY <1>3 DEF Points, Outcomes
<1>6. ASSUME NEW d \in Delivery(threads)
      PROVE  [w EXCEPT ![k] = d] \in [Workers -> Delivery(threads)]
  BY DEF TypeOK
<1>. QED BY <1>2, <1>4, <1>5, <1>6 DEF Goto, FailWith, ReturnError

(* Setting a status keeps the attempt rows' type.                          *)
LEMMA StatusTyped ==
  ASSUME TypeOK, NEW e \in Executions
  PROVE  \A s \in AttemptStatuses : SetStatus(e, s) => att' \in [Executions -> AttemptRow(threads)]
<1>1. att \in [Executions -> AttemptRow(threads)] /\ threads \in Nat
  BY DEF TypeOK
<1>2. \A s \in AttemptStatuses : [att[e] EXCEPT !.status = s] \in AttemptRow(threads)
  BY <1>1, RowUpdates
<1>. QED BY <1>1, <1>2 DEF SetStatus

(* Every statement of a delivery, its loss and a missed heartbeat keep the *)
(* types.                                                                  *)
LEMMA TypeStep ==
  ASSUME OverlapInv, NEW k \in Workers, Execute(k) \/ LoseDelivery(k) \/ MissHeartbeat(k)
  PROVE  TypeOK'
<1> DEFINE d == w[k]
<1>0. /\ TypeOK /\ d \in Delivery(threads) /\ d.to \in Outcomes /\ d.next \in ReviewNumbers
      /\ d.thread \in 0..threads /\ threads \in Nat
      /\ d.at # "idle" => /\ d.ex \in Executions /\ att[d.ex] \in AttemptRow(threads)
                          /\ review[d.ex] \in [ReviewNumbers -> ReviewRow(threads)]
      /\ cur \in Executions /\ att[cur] \in AttemptRow(threads)
  <2>1. TypeOK /\ d \in Delivery(threads) /\ threads \in Nat /\ cur \in Executions
    BY DEF OverlapInv, TypeOK
  <2>2. d.at # "idle" => d.ex \in Executions
    BY <2>1 DEF OverlapInv, WorkersAreKnown, Known, Executions
  <2>. QED BY <2>1, <2>2 DEF Delivery, TypeOK
<1> USE <1>0
<1>1. CASE BeginAttempt(k)
  <2>1. PreviousThread \in 0..threads
    <3>1. ASSUME Resumable # {} PROVE \E e \in Resumable : \A o \in Resumable : o <= e
      BY <3>1, Greatest, ExecutionAssumption DEF Resumable, Executions
    <3>2. \A e \in Resumable : att[e].thread \in 0..threads
      BY DEF Resumable, TypeOK, AttemptRow
    <3>. QED BY <3>1, <3>2 DEF PreviousThread
  <2>2. 0 + 1 \in ReviewNumbers /\ att[cur].reviews + 1 \in ReviewNumbers
    BY ExecutionAssumption DEF OverlapInv, ReviewBudget, ReviewNumbers, AttemptRow
  <2>3. ASSUME NEW t \in 0..threads, NEW n \in Nat, n+1 \in ReviewNumbers, Start(k, t, n)
        PROVE  w' \in [Workers -> Delivery(threads)]
    BY <2>3, IdleIsDelivery, DeliveryUpdates DEF Start, TypeOK, Points, Outcomes
  <2>4. ASSUME NEW to \in Outcomes, Return(k, to)
        PROVE  w' \in [Workers -> Delivery(threads)]
    BY <2>4, IdleIsDelivery, DeliveryUpdates DEF Return, TypeOK, Points, Outcomes
  <2>5. w' \in [Workers -> Delivery(threads)]
    <3>1. Repeats => PersistedOutcome \in Outcomes
      BY DEF Repeats, PersistedOutcome, Finished, Outcomes
    <3>2. "error" \in Outcomes /\ att[cur].thread \in 0..threads
      BY DEF Outcomes, AttemptRow
    <3>3. att[cur].reviews \in Nat /\ 0 \in Nat
      BY <2>2 DEF AttemptRow, ReviewNumbers
    <3>. QED BY <1>1, <2>1, <2>2, <2>3, <2>4, <3>1, <3>2, <3>3 DEF BeginAttempt
  <2>6. att' \in [Executions -> AttemptRow(threads)]
    BY <1>1, <2>1 DEF BeginAttempt, AttemptRow, AttemptStatuses, ReviewNumbers, TypeOK
  <2>7. tries' \in 0..MaxDeliveries
    BY <1>1 DEF BeginAttempt, TypeOK, OverlapInv, History
  <2>. QED BY <1>1, <2>5, <2>6, <2>7 DEF BeginAttempt, TypeOK, TaskStatuses
<1>2. CASE StartCoder(k)
  <2>1. PICK id \in 1..(threads + 1) : threads' = (IF id > threads THEN id ELSE threads)
                /\ (att' = [att EXCEPT ![d.ex].thread = id] \/ att' = att)
                /\ (w' = [w EXCEPT ![k] = [d EXCEPT !.at = "coding", !.thread = id, !.replace = 0]]
                     \/ w' = [w EXCEPT ![k] = [d EXCEPT !.at = "fail", !.to = "failed"]])
    BY <1>2 DEF StartCoder, FailWith
  <2>2. threads' \in Nat /\ threads <= threads' /\ id \in 0..threads'
    BY <2>1
  <2>3. d \in Delivery(threads') /\ att[d.ex] \in AttemptRow(threads')
    BY <1>2, <2>2, MoreThreads DEF StartCoder
  <2>4. w' \in [Workers -> Delivery(threads')]
    <3>1. /\ [d EXCEPT !.at = "coding", !.thread = id, !.replace = 0] \in Delivery(threads')
          /\ [d EXCEPT !.at = "fail", !.to = "failed"] \in Delivery(threads')
      BY <2>2, <2>3, DeliveryThreads, DeliveryUpdates DEF Points, Outcomes
    <3>2. w \in [Workers -> Delivery(threads')]
      BY <2>2, MoreThreads DEF TypeOK
    <3>. QED BY <2>1, <3>1, <3>2
  <2>5. att' \in [Executions -> AttemptRow(threads')]
    <3>1. [att[d.ex] EXCEPT !.thread = id] \in AttemptRow(threads')
      BY <2>2, <2>3, RowUpdates
    <3>2. att \in [Executions -> AttemptRow(threads')]
      BY <2>2, MoreThreads DEF TypeOK
    <3>. QED BY <2>1, <3>1, <3>2
  <2>6. review' \in [Executions -> [ReviewNumbers -> ReviewRow(threads')]]
    BY <1>2, <2>2, MoreThreads DEF TypeOK, StartCoder
  <2>. QED BY <1>2, <2>2, <2>4, <2>5, <2>6 DEF StartCoder, TypeOK
<1>3. CASE CoderResult(k)
  <2>1. w' \in [Workers -> Delivery(threads)]
    BY <1>3, MovesTyped DEF CoderResult, Points, Outcomes
  <2>2. tree' \in Content /\ written' \in Nat
    BY <1>3 DEF CoderResult, Content, TypeOK
  <2>. QED BY <1>3, <2>1, <2>2 DEF CoderResult, TypeOK
<1>4. CASE BeginVerification(k)
  <2>1. w' \in [Workers -> Delivery(threads)]
    BY <1>4, MovesTyped DEF BeginVerification, Points
  <2>2. att' \in [Executions -> AttemptRow(threads)]
    BY <1>4, StatusTyped DEF BeginVerification, AttemptStatuses, TypeOK
  <2>. QED BY <1>4, <2>1, <2>2 DEF BeginVerification, TypeOK, TaskStatuses
<1>5. CASE Verify(k)
  <2>1. w' \in [Workers -> Delivery(threads)]
    <3>1. Changed \in SUBSET Files
      BY DEF Changed
    <3>2. [d EXCEPT !.at = "review", !.seen = Changed] \in Delivery(threads)
      BY <3>1, DeliveryUpdates DEF Points
    <3>3. CASE FailWith(k, "changes_requested")
      BY <3>3, MovesTyped DEF Outcomes
    <3>4. CASE w' = [w EXCEPT ![k] = [d EXCEPT !.at = "review", !.seen = Changed]]
      BY <3>2, <3>4 DEF TypeOK
    <3>. QED BY <1>5, <3>3, <3>4 DEF Verify
  <2>. QED BY <1>5, <2>1 DEF Verify, TypeOK
<1>6. CASE BeginReview(k)
  <2>1. threads' = threads + 1 /\ threads' \in Nat /\ threads <= threads' /\ threads' \in 0..threads'
    BY <1>6 DEF BeginReview
  <2>2. d \in Delivery(threads') /\ att[d.ex] \in AttemptRow(threads')
        /\ review \in [Executions -> [ReviewNumbers -> ReviewRow(threads')]]
    BY <1>6, <2>1, MoreThreads DEF BeginReview, TypeOK
  <2>3. w' \in [Workers -> Delivery(threads')]
    <3>1. /\ [d EXCEPT !.at = "reviewing", !.reviewer = threads'] \in Delivery(threads')
          /\ [d EXCEPT !.at = "fail", !.to = "failed"] \in Delivery(threads')
      BY <2>1, <2>2, DeliveryUpdates DEF Points, Outcomes
    <3>2. w \in [Workers -> Delivery(threads')]
      BY <2>1, MoreThreads DEF TypeOK
    <3>. QED BY <1>6, <3>1, <3>2 DEF BeginReview, FailWith
  <2>4. att' \in [Executions -> AttemptRow(threads')]
    <3>1. \A n \in ReviewNumbers \cup {0} :
            [att[d.ex] EXCEPT !.status = "review", !.reviews = n] \in AttemptRow(threads')
      BY <2>2 DEF AttemptRow, AttemptStatuses
    <3>3. att[d.ex].reviews \in ReviewNumbers \cup {0}
      BY <1>6 DEF BeginReview, AttemptRow
    <3>2. att \in [Executions -> AttemptRow(threads')]
      BY <2>1, MoreThreads DEF TypeOK
    <3>4. CASE att' = att
      BY <3>2, <3>4
    <3>5. CASE att' = [att EXCEPT ![d.ex] = [@ EXCEPT !.status = "review",
                                                    !.reviews = Opened(d.ex, d.next)]]
      <4>1. PICK n \in ReviewNumbers \cup {0} :
              n = Opened(d.ex, d.next)
        BY <3>3 DEF Opened
      <4>2. [att[d.ex] EXCEPT !.status = "review", !.reviews = n] \in AttemptRow(threads')
        BY <3>1
      <4>. QED BY <3>2, <3>5, <4>1, <4>2
    <3>. QED BY <1>6, <3>4, <3>5 DEF BeginReview
  <2>5. review' \in [Executions -> [ReviewNumbers -> ReviewRow(threads')]]
    <3>1. [status |-> "running", thread |-> threads'] \in ReviewRow(threads')
      BY <2>1 DEF ReviewRow
    <3>. QED BY <1>6, <2>2, <3>1 DEF BeginReview
  <2>. QED BY <1>6, <2>1, <2>3, <2>4, <2>5 DEF BeginReview, TypeOK
<1>7. CASE CreateReview(k)
  <2>1. w' \in [Workers -> Delivery(threads)]
    BY <1>7, MovesTyped DEF CreateReview, Points
  <2>2. att' \in [Executions -> AttemptRow(threads)]
    BY <1>7, StatusTyped DEF CreateReview, AttemptStatuses
  <2>3. review' \in [Executions -> [ReviewNumbers -> ReviewRow(threads)]]
    <3>1. \A s \in {"approved", "changes_requested"} :
            [review[d.ex][d.next] EXCEPT !.status = s] \in ReviewRow(threads)
      BY <1>7 DEF CreateReview, ReviewRow
    <3>2. d.ex \in Executions /\ review[d.ex] \in [ReviewNumbers -> ReviewRow(threads)] /\ d.next \in ReviewNumbers
      BY <1>7 DEF CreateReview
    <3>3. review \in [Executions -> [ReviewNumbers -> ReviewRow(threads)]]
      BY DEF TypeOK
    <3>4. PICK x, y : x = d.ex /\ y = d.next
      OBVIOUS
    <3>5. ASSUME NEW r \in ReviewRow(threads)
          PROVE  [review EXCEPT ![d.ex][d.next] = r] \in [Executions -> [ReviewNumbers -> ReviewRow(threads)]]
      <4>1. [review[x] EXCEPT ![y] = r] \in [ReviewNumbers -> ReviewRow(threads)]
        BY <3>2, <3>4
      <4>2. [review EXCEPT ![x] = [review[x] EXCEPT ![y] = r]] \in [Executions -> [ReviewNumbers -> ReviewRow(threads)]]
        BY <3>3, <4>1
      <4>. QED BY <3>4, <4>2
    <3>6. PICK s \in {"approved", "changes_requested"} :
            review' = [review EXCEPT ![d.ex][d.next] = [review[d.ex][d.next] EXCEPT !.status = s]]
      BY <1>7 DEF CreateReview
    <3>. QED BY <3>1, <3>5, <3>6
  <2>4. approved' \in Content /\ accepted' \subseteq Files \X Nat
    BY <1>7 DEF CreateReview, Content, TypeOK
  <2>. QED BY <1>7, <2>1, <2>2, <2>3, <2>4 DEF CreateReview, TypeOK
<1>8. CASE AgentFails(k)
  <2>1. w' \in [Workers -> Delivery(threads)]
    BY <1>8, MovesTyped DEF AgentFails, Outcomes
  <2>. QED BY <1>8, <2>1 DEF AgentFails, TypeOK
<1>9. CASE Revise(k)
  <2>1. w[k].next < MaxReviews => w[k].next + 1 \in ReviewNumbers
    BY ExecutionAssumption DEF ReviewNumbers
  <2>2. w' \in [Workers -> Delivery(threads)]
    <3>1. CASE FailWith(k, "changes_requested") \/ ReturnError(k)
      BY <3>1, MovesTyped DEF Outcomes
    <3>2. ASSUME w[k].next < MaxReviews
          PROVE  [d EXCEPT !.at = "coder", !.replace = d.thread, !.thread = 0, !.next = d.next + 1]
                   \in Delivery(threads)
      BY <2>1, <3>2, DeliveryThreads DEF Points
    <3>. QED BY <1>9, <3>1, <3>2 DEF Revise, AskOwner, TypeOK
  <2>3. att' \in [Executions -> AttemptRow(threads)]
    BY <1>9, StatusTyped DEF Revise, AttemptStatuses, TypeOK
  <2>. QED BY <1>9, <2>2, <2>3 DEF Revise, TypeOK, TaskStatuses
<1>10. CASE Commit(k)
  <2>1. w' \in [Workers -> Delivery(threads)]
    BY <1>10, MovesTyped DEF Commit, Points
  <2>2. head' \in Content
    BY <1>10 DEF Commit, Staged, Content, TypeOK
  <2>. QED BY <1>10, <2>1, <2>2 DEF Commit, TypeOK
<1>11. CASE TestingPolicy(k)
  <2>1. w' \in [Workers -> Delivery(threads)]
    BY <1>11, MovesTyped DEF TestingPolicy, Points, Outcomes
  <2>. QED BY <1>11, <2>1 DEF TestingPolicy, TypeOK
<1>12. CASE CompleteAttempt(k)
  <2>1. w' \in [Workers -> Delivery(threads)]
    <3>1. [d EXCEPT !.at = "report", !.to = "completed"] \in Delivery(threads)
      BY DeliveryUpdates DEF Points, Outcomes
    <3>2. CASE ReturnError(k)
      BY <3>2, MovesTyped
    <3>. QED BY <1>12, <3>1, <3>2 DEF CompleteAttempt, TypeOK
  <2>2. att' \in [Executions -> AttemptRow(threads)]
    BY <1>12, StatusTyped DEF CompleteAttempt, AttemptStatuses, TypeOK
  <2>. QED BY <1>12, <2>1, <2>2 DEF CompleteAttempt, TypeOK, TaskStatuses
<1>13. CASE FailAttempt(k)
  <2>1. d.to \in {"failed", "blocked", "changes_requested"}
    BY <1>13 DEF FailAttempt, OverlapInv, WorkersAreKnown, Known
  <2>2. w' \in [Workers -> Delivery(threads)]
    BY <1>13, MovesTyped DEF FailAttempt, Points
  <2>3. att' \in [Executions -> AttemptRow(threads)]
    BY <1>13, <2>1, StatusTyped DEF FailAttempt, AttemptStatuses
  <2>. QED BY <1>13, <2>1, <2>2, <2>3 DEF FailAttempt, TypeOK, TaskStatuses
<1>14. CASE ReportBack(k)
  <2>1. w' \in [Workers -> Delivery(threads)]
    BY <1>14, IdleIsDelivery DEF ReportBack, TypeOK
  <2>. QED BY <1>14, <2>1 DEF ReportBack, Redeliver, TypeOK, Outcomes
<1>15. CASE LoseDelivery(k)
  <2>1. w' \in [Workers -> Delivery(threads)]
    BY <1>15, IdleIsDelivery DEF LoseDelivery, TypeOK
  <2>. QED BY <1>15, <2>1 DEF LoseDelivery, Redeliver, TypeOK, Outcomes
<1>16. CASE MissHeartbeat(k)
  <2>1. w' \in [Workers -> Delivery(threads)]
    BY <1>16, DeliveryUpdates DEF MissHeartbeat, TypeOK
  <2>. QED BY <1>16, <2>1 DEF MissHeartbeat, Redeliver, TypeOK, Outcomes
<1>. QED BY <1>1, <1>2, <1>3, <1>4, <1>5, <1>6, <1>7, <1>8, <1>9, <1>10, <1>11, <1>12, <1>13,
            <1>14, <1>15, <1>16 DEF Execute

(* A delivery that moves keeps everything else, and so do the others.      *)
LEMMA Moves ==
  ASSUME TypeOK, NEW k \in Workers
  PROVE  /\ \A at : Goto(k, at) => Kept(k) /\ w'[k] = [w[k] EXCEPT !.at = at]
         /\ \A to : FailWith(k, to) =>
              Kept(k) /\ w'[k].at = "fail" /\ w'[k].to = to /\ w'[k].next = w[k].next
         /\ ReturnError(k) =>
              Kept(k) /\ w'[k].at = "report" /\ w'[k].to = "error" /\ w'[k].next = w[k].next
         /\ \A at : Goto(k, at) => w'[k].at = at /\ w'[k].to = w[k].to /\ w'[k].next = w[k].next
<1>1. w[k] \in Delivery(threads) /\ w \in [Workers -> Delivery(threads)]
  BY DEF TypeOK
<1>2. ASSUME NEW at, Goto(k, at)
      PROVE  /\ Kept(k) /\ w'[k] = [w[k] EXCEPT !.at = at]
             /\ w'[k].at = at /\ w'[k].to = w[k].to /\ w'[k].next = w[k].next
  BY <1>1, <1>2 DEF Goto, Kept, Delivery
<1>3. ASSUME NEW to, FailWith(k, to)
      PROVE  Kept(k) /\ w'[k].at = "fail" /\ w'[k].to = to /\ w'[k].next = w[k].next
  BY <1>1, <1>3 DEF FailWith, Kept, Delivery
<1>4. ASSUME ReturnError(k)
      PROVE  Kept(k) /\ w'[k].at = "report" /\ w'[k].to = "error" /\ w'[k].next = w[k].next
  BY <1>1, <1>4 DEF ReturnError, Kept, Delivery
<1>. QED BY <1>2, <1>3, <1>4

(* Setting the status of an attempt changes nothing else.                  *)
LEMMA StatusSet ==
  ASSUME TypeOK, NEW e \in Executions, NEW s, SetStatus(e, s)
  PROVE  /\ att'[e].status = s /\ att'[e].reviews = att[e].reviews /\ att'[e].thread = att[e].thread
         /\ \A o \in Executions \ {e} : att'[o] = att[o]
<1>1. att[e] \in AttemptRow(threads) /\ att \in [Executions -> AttemptRow(threads)]
  BY DEF TypeOK
<1>. QED BY <1>1 DEF SetStatus, AttemptRow

(* A step of a delivery at work touches its own execution only, and leaves *)
(* the attempt begun, its reviews counted and its own count in order.      *)
LEMMA WorkStep ==
  ASSUME OverlapInv, NEW k \in Workers, NEW e \in Executions, w[k].ex = e, Work(k)
  PROVE  /\ AtWork(k) /\ Kept(k) /\ Aside(k)
         /\ w'[k].at # "idle" /\ att'[e].status # "none"
         /\ w'[k].at = "fail" => w'[k].to \in {"failed", "blocked", "changes_requested"}
         /\ att[e].reviews <= att'[e].reviews /\ Budget(e)' /\ InOrder(k)'
<1> DEFINE d == w[k]
<1>0. /\ TypeOK /\ d \in Delivery(threads) /\ d.next \in ReviewNumbers /\ AtWork(k)
      /\ e \in Executions /\ att[e] \in AttemptRow(threads) /\ att[e].reviews \in Nat
      /\ att[w[k].ex] = att[e] /\ d.ex = e
      /\ review[e] \in [ReviewNumbers -> ReviewRow(threads)] /\ d.next \in Nat
      /\ att[e].status # "none" /\ Budget(e) /\ InOrder(k) /\ MaxReviews \in Nat
      /\ d.at = "fail" => d.to \in {"failed", "blocked", "changes_requested"}
      /\ w \in [Workers -> Delivery(threads)] /\ att \in [Executions -> AttemptRow(threads)]
      /\ review \in [Executions -> [ReviewNumbers -> ReviewRow(threads)]]
  <2>1. AtWork(k)
    BY DEF Work, StartCoder, CoderResult, BeginVerification, Verify, BeginReview, CreateReview,
           AgentFails, Revise, Commit, TestingPolicy, CompleteAttempt, FailAttempt, AtWork
  <2>2. /\ TypeOK /\ d \in Delivery(threads) /\ w \in [Workers -> Delivery(threads)]
        /\ att \in [Executions -> AttemptRow(threads)] /\ cur \in Executions
        /\ review \in [Executions -> [ReviewNumbers -> ReviewRow(threads)]]
    BY DEF OverlapInv, TypeOK
  <2>3. att[e].status # "none"
        /\ (d.at = "fail" => d.to \in {"failed", "blocked", "changes_requested"})
    BY <2>1, <2>2 DEF OverlapInv, WorkersAreKnown, Known, AtWork, Executions
  <2>4. att[e].reviews \in Nat /\ d.next \in ReviewNumbers /\ d.next \in Nat
    BY <2>2, <2>3 DEF AttemptRow, Delivery, ReviewNumbers
  <2>5. Budget(e) /\ InOrder(k)
    BY <2>3 DEF OverlapInv, ReviewBudget, Budget, ReviewsInOrder
  <2>. QED BY <2>1, <2>2, <2>3, <2>4, <2>5
<1> USE <1>0
<1> DEFINE Own == /\ Kept(k) /\ Aside(k) /\ att'[e].status # "none" /\ w'[k].at # "idle"
                  /\ w'[k].at = "fail" => w'[k].to \in {"failed", "blocked", "changes_requested"}
                  /\ att[e].reviews <= att'[e].reviews /\ Budget(e)' /\ InOrder(k)'
           Quiet == att' = att /\ review' = review /\ UNCHANGED activity
           Stated == /\ review' = review /\ UNCHANGED activity
                     /\ \E s \in AttemptStatuses \ {"none"} : SetStatus(e, s)
(* Most steps leave the counts alone, so only the place they go to matters. *)
<1>a. ASSUME Quiet \/ Stated
      PROVE  /\ att'[e].status # "none" /\ att'[e].reviews = att[e].reviews
             /\ Aside(k) /\ Budget(e)'
  <2>1. CASE Quiet
    BY <2>1 DEF Aside, Budget
  <2>2. CASE Stated
    BY <2>2, StatusSet DEF Aside, Budget
  <2>. QED BY <1>a, <2>1, <2>2
<1>b. ASSUME Quiet \/ Stated, Kept(k), w'[k].at # "idle", w'[k].next = d.next,
             w'[k].at = "fail" => w'[k].to \in {"failed", "blocked", "changes_requested"},
             w'[k].at \in {"reviewing", "changes"} => d.at \in {"reviewing", "changes"},
             w'[k].at = "review" => d.next <= MaxReviews
      PROVE  Own
  BY <1>a, <1>b DEF InOrder, Kept, AtWork
<1>1. CASE StartCoder(k)
  <2>1. PICK id \in 1..(threads + 1) :
                /\ (att' = [att EXCEPT ![e].thread = id] \/ att' = att)
                /\ (w' = [w EXCEPT ![k] = [d EXCEPT !.at = "coding", !.thread = id, !.replace = 0]]
                     \/ FailWith(k, "failed"))
    BY <1>1 DEF StartCoder
  <2>2. /\ att'[e].status # "none" /\ att'[e].reviews = att[e].reviews
        /\ \A o \in Executions \ {e} : att'[o] = att[o]
    BY <2>1 DEF AttemptRow
  <2>3. /\ Kept(k) /\ w'[k].at \in {"coding", "fail"} /\ w'[k].next = d.next
        /\ w'[k].at = "fail" => w'[k].to \in {"failed", "blocked", "changes_requested"}
    <3>1. CASE w' = [w EXCEPT ![k] = [d EXCEPT !.at = "coding", !.thread = id, !.replace = 0]]
      BY <3>1 DEF Kept, Delivery
    <3>. QED BY <2>1, <3>1, Moves
  <2>. QED BY <1>1, <2>2, <2>3 DEF StartCoder, Aside, Budget, InOrder, AtWork, Kept
<1>2. CASE CoderResult(k)
  <2>1. /\ Kept(k) /\ w'[k].at \in {"check", "fail"} /\ w'[k].next = d.next
        /\ w'[k].at = "fail" => w'[k].to \in {"failed", "blocked", "changes_requested"}
    BY <1>2, Moves DEF CoderResult
  <2>2. Quiet
    BY <1>2 DEF CoderResult
  <2>. QED BY <1>b, <2>1, <2>2
<1>3. CASE BeginVerification(k)
  <2>1. Kept(k) /\ w'[k].at \in {"verify", "report"} /\ w'[k].next = d.next
    BY <1>3, Moves DEF BeginVerification
  <2>2. Quiet \/ Stated
    BY <1>3 DEF BeginVerification, AttemptStatuses
  <2>. QED BY <1>b, <2>1, <2>2
<1>4. CASE Verify(k)
  <2>1. CASE FailWith(k, "changes_requested")
    BY <1>4, <2>1, <1>b, Moves DEF Verify
  <2>2. CASE /\ ReviewLeft(k)
             /\ w' = [w EXCEPT ![k] = [d EXCEPT !.at = "review", !.seen = Changed]]
    <3>1. Kept(k) /\ w'[k].at = "review" /\ w'[k].next = d.next
      BY <2>2 DEF Kept, Delivery
    <3>. QED BY <1>4, <2>2, <3>1, <1>b DEF Verify, ReviewLeft
  <2>. QED BY <1>4, <2>1, <2>2 DEF Verify
<1>5. CASE BeginReview(k)
  <2> DEFINE n == d.next
  <2>1. CASE FailWith(k, "failed") /\ UNCHANGED <<att, review>>
    BY <1>5, <2>1, <1>b, Moves DEF BeginReview
  <2>2. CASE /\ review[e][n].status = "none"
             /\ review' = [review EXCEPT ![e][n] = [status |-> "running", thread |-> threads']]
             /\ att' = [att EXCEPT ![e] = [@ EXCEPT !.status = "review", !.reviews = Opened(e, n)]]
             /\ w' = [w EXCEPT ![k] = [@ EXCEPT !.at = "reviewing", !.reviewer = threads']]
    <3>1. n = att[e].reviews + 1 /\ n <= MaxReviews /\ Opened(e, n) = n
      <4>1. d.at = "review"
        BY <1>5 DEF BeginReview
      <4>2. ~(n <= att[e].reviews)
        BY <2>2 DEF Budget
      <4>3. n <= att[e].reviews + 1 /\ n <= MaxReviews
        BY <4>1 DEF InOrder
      <4>. QED BY <4>2, <4>3 DEF Opened
    <3>2. /\ att'[e].status = "review" /\ att'[e].reviews = n
          /\ \A o \in Executions \ {e} : att'[o] = att[o]
      BY <2>2, <3>1 DEF AttemptRow
    <3>3. Kept(k) /\ w'[k].at = "reviewing" /\ w'[k].next = n
      BY <2>2 DEF Kept, Delivery
    <3>4. /\ review'[e][n].status # "none"
          /\ \A m \in ReviewNumbers \ {n} : review'[e][m] = review[e][m]
          /\ \A o \in Executions \ {e} : review'[o] = review[o]
      BY <2>2
    <3>5. Budget(e)'
      <4>1. ASSUME NEW m \in ReviewNumbers PROVE review'[e][m].status # "none" <=> m <= n
        <5>1. CASE m = n
          BY <3>4, <5>1
        <5>2. CASE m # n
          BY <3>1, <3>4, <5>2 DEF Budget, ReviewNumbers
        <5>. QED BY <5>1, <5>2
      <4>. QED BY <3>1, <3>2, <4>1 DEF Budget
    <3>. QED BY <1>5, <3>1, <3>2, <3>3, <3>4, <3>5 DEF BeginReview, Aside, InOrder, AtWork, Kept
  <2>. QED BY <1>5, <2>1, <2>2 DEF BeginReview
<1>6. CASE CreateReview(k)
  <2> DEFINE n == d.next
  <2>1. PICK v \in {"approved", "changes_requested"} :
             /\ review' = [review EXCEPT ![e][n].status = v]
             /\ SetStatus(e, "review")
             /\ Goto(k, "commit") \/ Goto(k, "changes")
    BY <1>6 DEF CreateReview
  <2>2. n <= att[e].reviews /\ review[e][n].status # "none"
    BY <1>6 DEF CreateReview, InOrder, Budget
  <2>3. /\ review'[e][n].status # "none"
        /\ \A m \in ReviewNumbers \ {n} : review'[e][m] = review[e][m]
        /\ \A o \in Executions \ {e} : review'[o] = review[o]
    BY <2>1 DEF ReviewRow
  <2>4. /\ att'[e].status = "review" /\ att'[e].reviews = att[e].reviews
        /\ \A o \in Executions \ {e} : att'[o] = att[o]
    BY <2>1, StatusSet
  <2>5. Kept(k) /\ w'[k].at \in {"commit", "changes"} /\ w'[k].next = n
    BY <2>1, Moves
  <2>6. Budget(e)'
    <3>1. ASSUME NEW m \in ReviewNumbers PROVE review'[e][m].status # "none" <=> m <= att[e].reviews
      BY <2>2, <2>3 DEF Budget
    <3>. QED BY <2>4, <3>1 DEF Budget
  <2>. QED BY <1>6, <2>2, <2>3, <2>4, <2>5, <2>6 DEF CreateReview, Aside, InOrder, AtWork, Kept
<1>7. CASE AgentFails(k)
  BY <1>7, <1>b, Moves DEF AgentFails
<1>8. CASE Revise(k)
  <2>1. CASE AskOwner(k) /\ UNCHANGED <<task, att>>
    BY <1>8, <2>1, <1>b, Moves DEF Revise, AskOwner
  <2>2. CASE ReturnError(k) /\ UNCHANGED <<task, att>>
    BY <1>8, <2>2, <1>b, Moves DEF Revise
  <2>3. CASE /\ SetStatus(e, "changes_requested")
             /\ w' = [w EXCEPT ![k] = [@ EXCEPT !.at = "coder", !.replace = d.thread,
                                                !.thread = 0, !.next = d.next + 1]]
    <3>1. Stated
      BY <1>8, <2>3 DEF Revise, AttemptStatuses
    <3>2. Kept(k) /\ w'[k].at = "coder" /\ w'[k].next = d.next + 1
      BY <2>3 DEF Kept, Delivery
    <3>3. d.next <= att[e].reviews
      BY <1>8 DEF Revise, InOrder
    <3>. QED BY <1>a, <3>1, <3>2, <3>3 DEF InOrder, Kept
  <2>. QED BY <1>8, <2>1, <2>2, <2>3 DEF Revise
<1>9. CASE Commit(k)
  <2>1. /\ Kept(k) /\ w'[k].at \in {"gate", "report"} /\ w'[k].next = d.next
        /\ w'[k].at = "fail" => w'[k].to \in {"failed", "blocked", "changes_requested"}
    BY <1>9, Moves DEF Commit
  <2>2. Quiet
    BY <1>9 DEF Commit
  <2>. QED BY <1>b, <2>1, <2>2
<1>10. CASE TestingPolicy(k)
  <2>1. /\ Kept(k) /\ w'[k].at \in {"complete", "fail"} /\ w'[k].next = d.next
        /\ w'[k].at = "fail" => w'[k].to \in {"failed", "blocked", "changes_requested"}
    BY <1>10, Moves DEF TestingPolicy
  <2>2. Quiet
    BY <1>10 DEF TestingPolicy
  <2>. QED BY <1>b, <2>1, <2>2
<1>11. CASE CompleteAttempt(k)
  <2>1. CASE ReturnError(k) /\ UNCHANGED <<task, att>>
    BY <1>11, <2>1, <1>b, Moves DEF CompleteAttempt
  <2>2. CASE /\ SetStatus(e, "completed")
             /\ w' = [w EXCEPT ![k] = [@ EXCEPT !.at = "report", !.to = "completed"]]
    <3>1. Stated
      BY <1>11, <2>2 DEF CompleteAttempt, AttemptStatuses
    <3>2. Kept(k) /\ w'[k].at = "report" /\ w'[k].next = d.next
      BY <2>2 DEF Kept, Delivery
    <3>. QED BY <1>b, <3>1, <3>2
  <2>. QED BY <1>11, <2>1, <2>2 DEF CompleteAttempt
<1>12. CASE FailAttempt(k)
  <2>1. Stated
    BY <1>12 DEF FailAttempt, AttemptStatuses
  <2>2. Kept(k) /\ w'[k].at = "report" /\ w'[k].next = d.next
    BY <1>12, Moves DEF FailAttempt
  <2>. QED BY <1>b, <2>1, <2>2
<1>. QED BY <1>1, <1>2, <1>3, <1>4, <1>5, <1>6, <1>7, <1>8, <1>9, <1>10, <1>11, <1>12 DEF Work

(* The deliveries that did not step are still known and in order: rows are *)
(* only added to, and the activity moves when none of the others is its.   *)
LEMMA OthersStay ==
  ASSUME OverlapInv, TypeOK', NEW k \in Workers,
         \A l \in Workers \ {k} : w'[l] = w[l],
         cur' = cur, job' = job \/ \A l \in Workers \ {k} : ~w[l].live,
         \A e \in Executions : /\ att[e].status # "none" => att'[e].status # "none"
                               /\ att[e].reviews <= att'[e].reviews
  PROVE  \A l \in Workers \ {k} : Known(l)' /\ InOrder(l)'
<1> SUFFICES ASSUME NEW l \in Workers \ {k} PROVE Known(l)' /\ InOrder(l)'
  OBVIOUS
<1>1. w'[l] = w[l] /\ Known(l) /\ InOrder(l) /\ (AtWork(l)' <=> AtWork(l))
  BY DEF OverlapInv, WorkersAreKnown, ReviewsInOrder, AtWork
<1>2. Known(l)'
  <2>1. w[l].at # "idle" => w[l].ex \in Executions
    BY <1>1 DEF Known, OverlapInv, TypeOK, Executions
  <2>. QED BY <1>1, <2>1 DEF Known, AtWork
<1>3. InOrder(l)'
  <2>1. AtWork(l) => w[l].ex \in Executions
    BY <1>1 DEF Known, OverlapInv, TypeOK, Executions, AtWork
  <2>2. \A e \in Executions : att[e].reviews \in Nat /\ att'[e].reviews \in Nat
    BY DEF OverlapInv, TypeOK, AttemptRow, ReviewNumbers
  <2>3. w[l].next \in Nat
    <3>1. w[l] \in Delivery(threads)
      BY DEF OverlapInv, TypeOK
    <3>. QED BY <3>1 DEF Delivery, ReviewNumbers
  <2>. QED BY <1>1, <2>1, <2>2, <2>3 DEF InOrder, AtWork
<1>. QED BY <1>2, <1>3

(* While executions begin in order, the attempts begun are the first ones. *)
LEMMA AttemptsCounted ==
  ASSUME OverlapInv
  PROVE  /\ att[cur].status # "none" => AttemptCount = cur
         /\ att[cur].status = "none" => AttemptCount = cur - 1
<1>1. cur \in Executions /\ cur \in Nat /\ cur >= 1 /\ Executions = 1..MaxAttempts /\ MaxAttempts \in Nat
  BY ExecutionAssumption DEF OverlapInv, TypeOK, Executions
<1>2. \A n \in Nat : Cardinality(1..n) = n
  <2> TAKE n \in Nat
  <2>1. Cardinality(1..n) = IF 1 > n THEN 0 ELSE n - 1 + 1
    BY FS_Interval
  <2>. QED BY <2>1
<1>3. CASE att[cur].status # "none"
  <2>1. {e \in Executions : att[e].status # "none"} = 1..cur
    BY <1>1, <1>3 DEF OverlapInv, History
  <2>. QED BY <1>1, <1>2, <1>3, <2>1 DEF AttemptCount
<1>4. CASE att[cur].status = "none"
  <2>1. {e \in Executions : att[e].status # "none"} = 1..(cur - 1)
    BY <1>1, <1>4 DEF OverlapInv, History
  <2>2. cur - 1 \in Nat
    BY <1>1
  <2>. QED BY <1>2, <1>4, <2>1, <2>2 DEF AttemptCount
<1>. QED BY <1>3, <1>4

(* What BeginAttempt does to the delivery it starts and to its attempt.    *)
LEMMA Begun ==
  ASSUME OverlapInv, NEW k \in Workers, BeginAttempt(k)
  PROVE  /\ \A l \in Workers \ {k} : w'[l] = w[l]
         /\ w'[k].ex = cur /\ w'[k].live /\ w'[k].at \in {"coder", "report"}
         /\ w'[k].at = "coder" => /\ att'[cur].status # "none"
                                  /\ att'[cur].status \notin Finished
                                  /\ w'[k].next = att'[cur].reviews + 1
         /\ w'[k].at = "report" => att' = att /\ task' = task
         /\ w'[k].at = "report" /\ w'[k].to # "error" =>
              att[cur].status \in Finished /\ w'[k].to = att[cur].status
         /\ \A e \in Executions \ {cur} : att'[e] = att[e]
         /\ att'[cur] = att[cur] \/ /\ att[cur].status = "none" /\ att'[cur].status = "running"
                                    /\ att'[cur].reviews = 0 /\ task' = "running"
                                    /\ AttemptCount < MaxAttempts
         /\ att'[cur] = att[cur] => att' = att /\ task' = task
<1>1. cur \in Executions /\ w \in [Workers -> Delivery(threads)]
      /\ att \in [Executions -> AttemptRow(threads)] /\ threads \in Nat
  BY DEF OverlapInv, TypeOK
<1>2. ASSUME NEW to, Return(k, to)
      PROVE  /\ \A l \in Workers \ {k} : w'[l] = w[l]
             /\ w'[k].ex = cur /\ w'[k].live /\ w'[k].at = "report" /\ w'[k].to = to
  BY <1>1, <1>2 DEF Return, NoDelivery
<1>3. ASSUME NEW t, NEW n, Start(k, t, n)
      PROVE  /\ \A l \in Workers \ {k} : w'[l] = w[l]
             /\ w'[k].ex = cur /\ w'[k].live /\ w'[k].at = "coder" /\ w'[k].next = n + 1
  BY <1>1, <1>3 DEF Start, NoDelivery
<1>4. CASE Repeats /\ Return(k, PersistedOutcome) /\ UNCHANGED <<task, att>>
  BY <1>2, <1>4 DEF Repeats, PersistedOutcome
<1>5. CASE /\ ~Repeats /\ att[cur].status # "none"
           /\ Start(k, att[cur].thread, att[cur].reviews) /\ UNCHANGED <<task, att>>
  BY <1>3, <1>5 DEF Repeats
<1>6. CASE Return(k, "error") /\ UNCHANGED <<task, att>>
  BY <1>2, <1>6
<1>7. CASE /\ att[cur].status = "none" /\ AttemptCount < MaxAttempts
           /\ att' = [att EXCEPT ![cur] = [status |-> "running", thread |-> PreviousThread,
                                           reviews |-> 0]]
           /\ task' = "running" /\ Start(k, PreviousThread, 0)
  <2>1. /\ att'[cur].status = "running" /\ att'[cur].reviews = 0
        /\ \A e \in Executions \ {cur} : att'[e] = att[e]
    BY <1>1, <1>7
  <2>2. att'[cur] # att[cur]
    BY <1>7, <2>1
  <2>. QED BY <1>1, <1>3, <1>7, <2>1, <2>2 DEF Finished
<1>. QED BY <1>4, <1>5, <1>6, <1>7 DEF BeginAttempt

(* Reviews and attempt rows untouched, the budget stands.                  *)
LEMMA BudgetKept ==
  ASSUME ReviewBudget,
         \A e \in Executions : att'[e].reviews = att[e].reviews /\ review'[e] = review[e]
  PROVE  ReviewBudget'
BY DEF ReviewBudget

-----------------------------------------------------------------------------
(* Nothing has been reviewed at first.                                     *)
LEMMA OverlapInit == Init => OverlapInv
<1> SUFFICES ASSUME Init PROVE OverlapInv
  OBVIOUS
<1>1. TypeOK
  <2>1. NoAttempt \in AttemptRow(0) /\ NoReview \in ReviewRow(0) /\ NoDelivery \in Delivery(0)
    BY IdleIsDelivery DEF NoAttempt, NoReview, AttemptRow, ReviewRow, AttemptStatuses
  <2>2. cur \in Executions /\ tries \in 0..MaxDeliveries
    BY DEF Init, Executions
  <2>3. tree \in Content /\ head \in Content /\ approved \in Content
    BY DEF Init, Content
  <2>. QED BY <2>1, <2>2, <2>3 DEF Init, TypeOK, TaskStatuses
<1>2. WorkersAreKnown /\ ReviewsInOrder
  BY DEF Init, WorkersAreKnown, Known, ReviewsInOrder, InOrder, AtWork, NoDelivery
<1>3. History
  BY DEF Init, History, NoAttempt, Executions
<1>4. ReviewBudget
  BY DEF Init, ReviewBudget, NoAttempt, NoReview, ReviewNumbers
<1>. QED BY <1>1, <1>2, <1>3, <1>4 DEF OverlapInv

(* Every statement keeps the invariant of overlapping deliveries.          *)
LEMMA OverlapWork ==
  ASSUME OverlapInv, NEW k \in Workers, Work(k)
  PROVE  OverlapInv'
<1>1. TypeOK'
  BY TypeStep DEF Work, Execute
<1>2. PICK e \in Executions : w[k].ex = e /\ e \in 1..cur
  <2>1. w[k].at # "idle"
    BY DEF Work, StartCoder, CoderResult, BeginVerification, Verify, BeginReview, CreateReview,
           AgentFails, Revise, Commit, TestingPolicy, CompleteAttempt, FailAttempt
  <2>2. cur \in Executions
    BY DEF OverlapInv, TypeOK
  <2>. QED BY <2>1, <2>2 DEF OverlapInv, WorkersAreKnown, Known, Executions
<1>3. /\ AtWork(k) /\ Kept(k) /\ Aside(k) /\ w'[k].at # "idle" /\ att'[e].status # "none"
      /\ w'[k].at = "fail" => w'[k].to \in {"failed", "blocked", "changes_requested"}
      /\ att[e].reviews <= att'[e].reviews /\ Budget(e)' /\ InOrder(k)'
  BY <1>2, WorkStep
<1>4. \A o \in Executions : /\ att[o].status # "none" => att'[o].status # "none"
                            /\ att[o].reviews <= att'[o].reviews
                            /\ o # e => att'[o] = att[o] /\ review'[o] = review[o]
  <2>1. \A o \in Executions : att[o].reviews \in Nat
    BY DEF OverlapInv, TypeOK, AttemptRow, ReviewNumbers
  <2>. QED BY <1>2, <1>3, <2>1 DEF Aside
<1>5. WorkersAreKnown' /\ ReviewsInOrder'
  <2>1. \A l \in Workers \ {k} : Known(l)' /\ InOrder(l)'
    BY <1>1, <1>3, <1>4, OthersStay DEF Kept, Aside
  <2>2. Known(k)'
    BY <1>2, <1>3 DEF OverlapInv, WorkersAreKnown, Known, Kept, Aside
  <2>3. \A l, m \in Workers : w'[l].live /\ w'[m].live => l = m
    BY <1>3 DEF Kept, OverlapInv, WorkersAreKnown
  <2>. QED BY <1>3, <2>1, <2>2, <2>3 DEF WorkersAreKnown, ReviewsInOrder
<1>6. History'
  BY <1>2, <1>3, <1>4 DEF OverlapInv, History, Aside, TypeOK, Executions
<1>7. ReviewBudget'
  BY <1>3, <1>4 DEF OverlapInv, ReviewBudget, Budget
<1>. QED BY <1>1, <1>5, <1>6, <1>7 DEF OverlapInv

(* The steps in which a delivery begins, reports, is lost or is forgotten. *)
LEMMA OverlapDelivery ==
  ASSUME OverlapInv, NEW k \in Workers,
         BeginAttempt(k) \/ ReportBack(k) \/ LoseDelivery(k) \/ MissHeartbeat(k)
  PROVE  OverlapInv'
<1>1. TypeOK'
  BY TypeStep DEF Execute
<1>2. cur \in Executions /\ w \in [Workers -> Delivery(threads)] /\ w[k] \in Delivery(threads)
      /\ tries \in Nat /\ MaxDeliveries \in Nat /\ cur \in Nat
      /\ att \in [Executions -> AttemptRow(threads)]
      /\ \A e \in Executions : att[e].reviews \in Nat
  BY DEF OverlapInv, TypeOK, Executions, AttemptRow, ReviewNumbers
<1>3. CASE BeginAttempt(k)
  <2>1. job = "queued" /\ job' = "running" /\ cur' = cur /\ review' = review /\ outcome' = outcome
    BY <1>3 DEF BeginAttempt
  <2>2. \A l \in Workers : ~w[l].live
    BY <2>1 DEF OverlapInv, WorkersAreKnown, Known, TypeOK, Delivery
  <2>3. \A e \in Executions : /\ att[e].status # "none" => att'[e].status # "none"
                              /\ att[e].reviews = att'[e].reviews
                              /\ att'[e].status = "none" => att'[e] = att[e]
    BY <1>3, <1>2, Begun DEF OverlapInv, History
  <2>4. WorkersAreKnown' /\ ReviewsInOrder'
    <3>1. \A l \in Workers \ {k} : Known(l)' /\ InOrder(l)'
      BY <1>1, <1>2, <1>3, <2>1, <2>2, <2>3, Begun, OthersStay
    <3>2. Known(k)' /\ InOrder(k)'
      <4>1. w'[k].ex = cur /\ w'[k].live /\ w'[k].at \in {"coder", "report"} /\ cur \in 1..cur
        BY <1>2, <1>3, Begun DEF Executions
      <4>2. CASE w'[k].at = "coder"
        <5>1. att'[cur].status # "none" /\ w'[k].next = att'[cur].reviews + 1
          BY <1>3, <4>2, Begun
        <5>2. att'[cur].reviews \in Nat
          BY <1>2, <2>3
        <5>. QED BY <2>1, <4>1, <4>2, <5>1, <5>2 DEF Known, InOrder, AtWork
      <4>3. CASE w'[k].at = "report"
        <5>1. w'[k].to # "error" => att'[cur].status # "none"
          BY <1>3, <4>3, Begun DEF Finished
        <5>. QED BY <2>1, <4>1, <4>3, <5>1 DEF Known, InOrder, AtWork
      <4>. QED BY <4>1, <4>2, <4>3
    <3>3. \A l, m \in Workers : w'[l].live /\ w'[m].live => l = m
      BY <1>3, <2>2, Begun
    <3>. QED BY <3>1, <3>2, <3>3 DEF WorkersAreKnown, ReviewsInOrder
  <2>5. History'
    BY <1>2, <1>3, <2>1, <2>3, Begun DEF OverlapInv, History
  <2>6. ReviewBudget'
    BY <2>1, <2>3, BudgetKept DEF OverlapInv
  <2>. QED BY <1>1, <2>4, <2>5, <2>6 DEF OverlapInv
<1>4. CASE ReportBack(k) \/ LoseDelivery(k) \/ MissHeartbeat(k)
  <2>1. att' = att /\ review' = review /\ cur' = cur /\ tries' = tries
    BY <1>4 DEF ReportBack, LoseDelivery, MissHeartbeat
  <2>2. /\ \A l \in Workers \ {k} : w'[l] = w[l]
        /\ ~w'[k].live
        /\ w'[k].at # "idle" => w'[k].at = w[k].at /\ w'[k].ex = w[k].ex /\ w'[k].to = w[k].to
                                /\ w'[k].next = w[k].next
    BY <1>2, <1>4 DEF ReportBack, LoseDelivery, MissHeartbeat, NoDelivery, Delivery
  <2>3. w[k].live \/ (job' = job /\ outcome' = outcome)
    BY <1>2, <1>4 DEF ReportBack, LoseDelivery, MissHeartbeat, Delivery
  <2>4. job' = job \/ \A l \in Workers \ {k} : ~w[l].live
    BY <1>2, <2>3 DEF OverlapInv, WorkersAreKnown, Delivery
  <2>5. WorkersAreKnown' /\ ReviewsInOrder'
    <3>1. \A l \in Workers \ {k} : Known(l)' /\ InOrder(l)'
      BY <1>1, <1>2, <2>1, <2>2, <2>4, OthersStay
    <3>2. Known(k)' /\ InOrder(k)'
      BY <2>1, <2>2 DEF OverlapInv, WorkersAreKnown, ReviewsInOrder, Known, InOrder, AtWork
    <3>3. \A l, m \in Workers : w'[l].live /\ w'[m].live => l = m
      BY <2>2 DEF OverlapInv, WorkersAreKnown
    <3>. QED BY <3>1, <3>2, <3>3 DEF WorkersAreKnown, ReviewsInOrder
  <2>6. History'
    <3>1. job' = "queued" => tries < MaxDeliveries
      BY <1>2, <1>4 DEF ReportBack, LoseDelivery, MissHeartbeat, Redeliver, OverlapInv, History
    <3>2. job' = "done" /\ outcome' # "error" => outcome' # "none" /\ att[cur].status # "none"
      <4>1. CASE job' = job /\ outcome' = outcome
        BY <4>1 DEF OverlapInv, History
      <4>2. CASE Redeliver /\ w[k].live
        <5>1. job # "done"
          BY <4>2 DEF OverlapInv, WorkersAreKnown, Known
        <5>. QED BY <4>2, <5>1 DEF Redeliver
      <4>3. CASE ReportBack(k) /\ w[k].live /\ w[k].to # "error" /\ job' = "done" /\ outcome' = w[k].to
        BY <4>3 DEF ReportBack, OverlapInv, WorkersAreKnown, Known, TypeOK, Delivery, Outcomes
      <4>. QED BY <1>4, <4>1, <4>2, <4>3 DEF ReportBack, LoseDelivery, MissHeartbeat
    <3>. QED BY <2>1, <3>1, <3>2 DEF OverlapInv, History
  <2>7. ReviewBudget'
    BY <2>1, BudgetKept DEF OverlapInv
  <2>. QED BY <1>1, <2>5, <2>6, <2>7 DEF OverlapInv
<1>. QED BY <1>3, <1>4

(* What the scheduler does with an answer, and steps of other components.  *)
LEMMA OverlapScheduler ==
  ASSUME OverlapInv, RecordError \/ RetryTask \/ UNCHANGED vars
  PROVE  OverlapInv'
<1>1. CASE RecordError
  BY <1>1 DEF RecordError, OverlapInv, TypeOK, TaskStatuses, WorkersAreKnown, Known, AtWork,
              ReviewsInOrder, InOrder, History, ReviewBudget
<1>2. CASE RetryTask
  <2>1. att[cur].status # "none" /\ cur < MaxAttempts /\ cur \in Nat /\ cur \in Executions
    <3>1. att[cur].status # "none"
      BY <1>2 DEF RetryTask, OverlapInv, History
    <3>2. cur \in Nat /\ cur \in Executions
      BY DEF OverlapInv, TypeOK, Executions
    <3>. QED BY <1>2, <3>1, <3>2, AttemptsCounted DEF RetryTask
  <2>2. TypeOK'
    <3>1. cur' \in Executions /\ tries' \in 0..MaxDeliveries /\ outcome' \in Outcomes \cup {"none"}
          /\ task' \in TaskStatuses /\ job' = "queued"
      BY <1>2, <2>1, ExecutionAssumption DEF RetryTask, Executions, TaskStatuses
    <3>. QED BY <1>2, <3>1 DEF RetryTask, OverlapInv, TypeOK
  <2>3. \A k \in Workers : ~w[k].live
    BY <1>2 DEF RetryTask, OverlapInv, WorkersAreKnown, Known, TypeOK, Delivery
  <2>4. WorkersAreKnown'
    <3>1. \A k \in Workers : Known(k)'
      BY <1>2, <2>1, <2>3 DEF RetryTask, OverlapInv, WorkersAreKnown, Known, AtWork
    <3>. QED BY <1>2, <2>3, <3>1 DEF RetryTask, WorkersAreKnown
  <2>5. ReviewsInOrder' /\ ReviewBudget'
    BY <1>2 DEF RetryTask, OverlapInv, ReviewsInOrder, InOrder, AtWork, ReviewBudget
  <2>6. History'
    BY <1>2, <2>1, ExecutionAssumption DEF RetryTask, OverlapInv, History, Executions
  <2>. QED BY <2>2, <2>4, <2>5, <2>6 DEF OverlapInv
<1>3. CASE UNCHANGED vars
  BY <1>3 DEF vars, OverlapInv, TypeOK, WorkersAreKnown, Known, AtWork, ReviewsInOrder, InOrder,
              History, ReviewBudget
<1>. QED BY <1>1, <1>2, <1>3

(* So does every step of deliveries that may overlap.                      *)
LEMMA OverlapStep == OverlapInv /\ [OverlapNext]_vars => OverlapInv'
<1> SUFFICES ASSUME OverlapInv, [OverlapNext]_vars PROVE OverlapInv'
  OBVIOUS
<1>. QED BY OverlapWork, OverlapDelivery, OverlapScheduler
         DEF OverlapNext, Next, Execute, Work

(* The review budget survives crashes, lost deliveries and deliveries that *)
(* go on beside their successor: reviews open one by one, none twice, and  *)
(* no attempt has more than MaxReviews, however many deliveries count.     *)
THEOREM BudgetSurvivesOverlap == OverlapSpec => []ReviewBudget
<1>1. OverlapInv => ReviewBudget
  BY DEF OverlapInv
<1>. QED BY OverlapInit, OverlapStep, <1>1, PTL DEF OverlapSpec

-----------------------------------------------------------------------------
(* Deliveries that follow each other: whoever is at it is the current one. *)
LEMMA Alone ==
  ASSUME ExecutionInv, NEW k \in Workers, w[k].at # "idle"
  PROVE  w[k].live /\ w[k].ex = cur /\ job = "running" /\ \A l \in Workers \ {k} : w[l].at = "idle"
BY DEF ExecutionInv, OverlapInv, NobodyElse, WorkersAreKnown, Known

(* After a statement the rows say that the execution goes on, or what it   *)
(* will answer.                                                            *)
LEMMA WorkRows ==
  ASSUME ExecutionInv, NEW k \in Workers, Work(k)
  PROVE  /\ Continues(k)' \/ Answers(k)'
         /\ task' = task \/ task' \in {"verification", "changes_requested"} \/ Answers(k)'
         /\ att[cur].status # "none" /\ att[cur].status \notin Finished /\ task # "completed"
         /\ cur' = cur /\ att'[cur].status # "none"
<1>1. /\ TypeOK /\ OverlapInv /\ cur \in Executions /\ w \in [Workers -> Delivery(threads)]
      /\ att \in [Executions -> AttemptRow(threads)] /\ w[k] \in Delivery(threads)
  BY DEF ExecutionInv, OverlapInv, TypeOK
<1>2. w[k].at # "idle"
  BY DEF Work, StartCoder, CoderResult, BeginVerification, Verify, BeginReview, CreateReview,
         AgentFails, Revise, Commit, TestingPolicy, CompleteAttempt, FailAttempt
<1>3. w[k].ex = cur
  BY <1>2, Alone
<1>4. /\ AtWork(k) /\ Kept(k) /\ Aside(k) /\ att'[cur].status # "none"
      /\ w'[k].at = "fail" => w'[k].to \in {"failed", "blocked", "changes_requested"}
  BY <1>1, <1>3, WorkStep
<1>5. att[cur].status # "none" /\ att[cur].status \notin Finished /\ task # "completed"
      /\ cur' = cur
  BY <1>3, <1>4 DEF ExecutionInv, RowsAgree, OverlapInv, WorkersAreKnown, Known, Aside, Finished
<1> DEFINE Goal == /\ Continues(k)' \/ Answers(k)'
                   /\ task' = task \/ task' \in {"verification", "changes_requested"} \/ Answers(k)'
<1>6. ASSUME att'[cur].status \notin Finished,
             task' = task \/ task' \in {"verification", "changes_requested"},
             w'[k].at = "report" => w'[k].to = "error"
      PROVE  Goal
  BY <1>5, <1>6 DEF Continues
<1>7. CASE StartCoder(k)
  <2>1. PICK id \in 1..(threads + 1) :
          /\ (att' = [att EXCEPT ![cur].thread = id] \/ att' = att)
          /\ (w' = [w EXCEPT ![k] = [@ EXCEPT !.at = "coding", !.thread = id, !.replace = 0]]
               \/ FailWith(k, "failed"))
    BY <1>3, <1>7 DEF StartCoder
  <2>2. att'[cur].status = att[cur].status
    BY <1>1, <2>1 DEF AttemptRow
  <2>3. w'[k].at # "report"
    <3>1. CASE w' = [w EXCEPT ![k] = [@ EXCEPT !.at = "coding", !.thread = id, !.replace = 0]]
      BY <1>1, <3>1 DEF Delivery
    <3>. QED BY <1>1, <2>1, <3>1, Moves
  <2>. QED BY <1>5, <1>6, <1>7, <2>2, <2>3 DEF StartCoder
<1>8. CASE CoderResult(k) \/ AgentFails(k) \/ Commit(k) \/ TestingPolicy(k)
  <2>1. w'[k].at = "report" => w'[k].to = "error"
    BY <1>1, <1>8, Moves DEF CoderResult, AgentFails, Commit, TestingPolicy
  <2>2. att' = att /\ task' = task
    BY <1>8 DEF CoderResult, AgentFails, Commit, TestingPolicy
  <2>. QED BY <1>4, <1>5, <1>6, <2>1, <2>2
<1>9. CASE BeginVerification(k)
  <2>1. w'[k].at = "report" => w'[k].to = "error"
    BY <1>1, <1>9, Moves DEF BeginVerification
  <2>2. att'[cur].status \notin Finished /\ task' \in {task, "verification"}
    BY <1>1, <1>3, <1>5, <1>9, StatusSet DEF BeginVerification, Finished
  <2>. QED BY <1>4, <1>5, <1>6, <2>1, <2>2
<1>10. CASE Verify(k)
  <2>1. w'[k].at # "report"
    <3>1. CASE FailWith(k, "changes_requested")
      BY <1>1, <3>1, Moves
    <3>2. CASE w' = [w EXCEPT ![k] = [@ EXCEPT !.at = "review", !.seen = Changed]]
      BY <1>1, <3>2 DEF Delivery
    <3>. QED BY <1>10, <3>1, <3>2 DEF Verify
  <2>2. att' = att /\ task' = task
    BY <1>10 DEF Verify
  <2>. QED BY <1>4, <1>5, <1>6, <2>1, <2>2
<1>11. CASE BeginReview(k)
  <2>1. CASE FailWith(k, "failed") /\ att' = att
    BY <1>1, <1>5, <1>6, <1>11, <2>1, Moves DEF BeginReview
  <2>2. CASE /\ att' = [att EXCEPT ![cur] = [@ EXCEPT !.status = "review",
                                                      !.reviews = Opened(cur, w[k].next)]]
             /\ w' = [w EXCEPT ![k] = [@ EXCEPT !.at = "reviewing", !.reviewer = threads']]
    <3>1. att'[cur].status = "review" /\ w'[k].at = "reviewing"
      BY <1>1, <2>2 DEF AttemptRow, Delivery
    <3>. QED BY <1>4, <1>5, <1>6, <1>11, <3>1 DEF BeginReview, Finished
  <2>. QED BY <1>3, <1>11, <2>1, <2>2 DEF BeginReview
<1>12. CASE CreateReview(k)
  <2>1. att'[cur].status = "review"
    BY <1>1, <1>3, <1>12, StatusSet DEF CreateReview
  <2>2. w'[k].at # "report"
    BY <1>1, <1>12, Moves DEF CreateReview
  <2>. QED BY <1>4, <1>5, <1>6, <1>12, <2>1, <2>2 DEF CreateReview, Finished
<1>13. CASE Revise(k)
  <2>1. att'[cur].status \notin Finished /\ task' \in {task, "changes_requested"}
    BY <1>1, <1>3, <1>5, <1>13, StatusSet DEF Revise, Finished
  <2>2. w'[k].at = "report" => w'[k].to = "error"
    <3>1. CASE w' = [w EXCEPT ![k] = [@ EXCEPT !.at = "coder", !.replace = w[k].thread,
                                                !.thread = 0, !.next = w[k].next + 1]]
      BY <1>1, <3>1 DEF Delivery
    <3>2. CASE AskOwner(k) \/ ReturnError(k)
      BY <1>1, <3>2, Moves DEF AskOwner
    <3>. QED BY <1>13, <3>1, <3>2 DEF Revise
  <2>. QED BY <1>4, <1>5, <1>6, <2>1, <2>2
<1>14. CASE CompleteAttempt(k)
  <2>1. /\ SetStatus(cur, "completed") /\ task' = "completed"
        /\ w' = [w EXCEPT ![k] = [@ EXCEPT !.at = "report", !.to = "completed"]]
    BY <1>3, <1>5, <1>14 DEF CompleteAttempt, Attempt, Finished
  <2>2. w'[k].at = "report" /\ w'[k].to = "completed"
    BY <1>1, <2>1 DEF Delivery
  <2>3. att'[cur].status = "completed"
    BY <1>1, <2>1, StatusSet
  <2>. QED BY <1>5, <2>1, <2>2, <2>3 DEF Answers
<1>15. CASE FailAttempt(k)
  <2>1. w[k].to \in {"failed", "blocked", "changes_requested"}
    BY <1>15 DEF FailAttempt, ExecutionInv, OverlapInv, WorkersAreKnown, Known
  <2>2. w'[k].at = "report" /\ w'[k].to = w[k].to
    BY <1>1, <1>15, Moves DEF FailAttempt
  <2>3. att'[cur].status = w[k].to /\ task' = w[k].to
    BY <1>1, <1>3, <1>15, StatusSet DEF FailAttempt
  <2>. QED BY <1>5, <2>1, <2>2, <2>3 DEF Answers
<1>. QED BY <1>4, <1>5, <1>7, <1>8, <1>9, <1>10, <1>11, <1>12, <1>13, <1>14, <1>15 DEF Work

(* Only an approval changes what is approved and accepted, only a commit   *)
(* of what was approved changes HEAD, and only a coder the worktree.       *)
LEMMA WorkReviewed ==
  ASSUME ExecutionInv, NEW k \in Workers, Work(k)
  PROVE  HeadIsReviewed'
<1>1. /\ TypeOK /\ w[k] \in Delivery(threads) /\ w \in [Workers -> Delivery(threads)]
      /\ tree \in Content /\ head \in Content /\ approved \in Content
      /\ HeadIsReviewed /\ Reviewed(k)
  BY DEF ExecutionInv, OverlapInv, TypeOK, HeadIsReviewed
<1>2. w[k].at # "idle"
  BY DEF Work, StartCoder, CoderResult, BeginVerification, Verify, BeginReview, CreateReview,
         AgentFails, Revise, Commit, TestingPolicy, CompleteAttempt, FailAttempt
<1>3. /\ cur \in Executions /\ w[k].ex = cur /\ OverlapInv
      /\ \A l \in Workers \ {k} : w[l].at = "idle"
  BY <1>2, Alone DEF ExecutionInv, OverlapInv, TypeOK
<1>4. \A l \in Workers \ {k} : Reviewed(l)'
  BY <1>3, WorkStep DEF Kept, Reviewed
<1> DEFINE Quiet == UNCHANGED <<tree, head, approved, accepted>>
           Past == w'[k].at \notin {"commit", "gate", "complete"}
<1>5. ASSUME Quiet, Past PROVE HeadIsReviewed'
  BY <1>1, <1>4, <1>5 DEF HeadIsReviewed, Reviewed
<1>6. CASE StartCoder(k)
  <2>1. PICK id \in 1..(threads + 1) :
          \/ w' = [w EXCEPT ![k] = [@ EXCEPT !.at = "coding", !.thread = id, !.replace = 0]]
          \/ FailWith(k, "failed")
    BY <1>6 DEF StartCoder
  <2>2. CASE w' = [w EXCEPT ![k] = [@ EXCEPT !.at = "coding", !.thread = id, !.replace = 0]]
    <3>1. Past
      BY <1>1, <2>2 DEF Delivery
    <3>. QED BY <1>5, <1>6, <3>1 DEF StartCoder
  <2>3. CASE FailWith(k, "failed")
    BY <1>1, <1>5, <1>6, <2>3, Moves DEF StartCoder
  <2>. QED BY <2>1, <2>2, <2>3
<1>7. CASE CoderResult(k)
  <2>1. Past
    BY <1>1, <1>7, Moves DEF CoderResult
  <2>. QED BY <1>1, <1>4, <1>7, <2>1 DEF CoderResult, HeadIsReviewed, Reviewed
<1>8. CASE AgentFails(k) \/ BeginVerification(k) \/ FailAttempt(k)
  <2>1. Past
    BY <1>1, <1>8, Moves DEF AgentFails, BeginVerification, FailAttempt
  <2>2. Quiet
    BY <1>8 DEF AgentFails, BeginVerification, FailAttempt
  <2>. QED BY <1>5, <2>1, <2>2
<1>9. CASE Verify(k)
  <2>1. Past
    <3>1. CASE w' = [w EXCEPT ![k] = [@ EXCEPT !.at = "review", !.seen = Changed]]
      BY <1>1, <3>1 DEF Delivery
    <3>. QED BY <1>1, <1>9, <3>1, Moves DEF Verify
  <2>. QED BY <1>5, <1>9, <2>1 DEF Verify
<1>10. CASE BeginReview(k)
  <2>1. Past
    <3>1. CASE w' = [w EXCEPT ![k] = [@ EXCEPT !.at = "reviewing", !.reviewer = threads']]
      BY <1>1, <3>1 DEF Delivery
    <3>. QED BY <1>1, <1>10, <3>1, Moves DEF BeginReview
  <2>. QED BY <1>5, <1>10, <2>1 DEF BeginReview
<1>11. CASE CreateReview(k)
  <2>1. CASE /\ Goto(k, "commit") /\ approved' = tree
             /\ accepted' = accepted \cup {<<f, tree[f]>> : f \in Files}
    <3>1. w'[k].at = "commit" /\ tree' = tree /\ head' = head
      BY <1>1, <1>11, <2>1, Moves DEF CreateReview
    <3>2. Reviewed(k)'
      BY <2>1, <3>1 DEF Reviewed
    <3>. QED BY <1>1, <1>4, <2>1, <3>1, <3>2 DEF HeadIsReviewed
  <2>2. CASE Goto(k, "changes") /\ UNCHANGED <<approved, accepted>>
    BY <1>1, <1>5, <1>11, <2>2, Moves DEF CreateReview
  <2>. QED BY <1>11, <2>1, <2>2 DEF CreateReview
<1>12. CASE Revise(k)
  <2>1. Past
    <3>1. CASE w' = [w EXCEPT ![k] = [@ EXCEPT !.at = "coder", !.replace = w[k].thread,
                                                !.thread = 0, !.next = w[k].next + 1]]
      BY <1>1, <3>1 DEF Delivery
    <3>2. CASE AskOwner(k) \/ ReturnError(k)
      BY <1>1, <3>2, Moves DEF AskOwner
    <3>. QED BY <1>12, <3>1, <3>2 DEF Revise
  <2>. QED BY <1>5, <1>12, <2>1 DEF Revise
<1>13. CASE Commit(k)
  <2>1. CASE ReturnError(k) /\ UNCHANGED head
    BY <1>1, <1>5, <1>13, <2>1, Moves DEF Commit
  <2>2. CASE CanCommit(k) /\ head' = Staged(k) /\ Goto(k, "gate")
    <3>1. w'[k].at = "gate" /\ w[k].at = "commit" /\ approved' = approved /\ accepted' = accepted
      BY <1>1, <1>13, <2>2, Moves DEF Commit
    <3>2. tree = approved /\ \A f \in Files : <<f, tree[f]>> \in accepted
      BY <1>1, <3>1 DEF Reviewed
    <3>3. \A f \in Files : head'[f] = IF f \in Changed THEN tree[f] ELSE head[f]
      BY <2>2 DEF CanCommit, Staged
    <3>4. \A f \in Files : /\ head'[f] # 0 => <<f, head'[f]>> \in accepted'
                           /\ approved[f] # 0 => head'[f] = approved[f]
      BY <1>1, <3>1, <3>2, <3>3 DEF Changed, HeadIsReviewed
    <3>5. Reviewed(k)'
      BY <3>1, <3>4 DEF Reviewed
    <3>. QED BY <1>4, <3>4, <3>5 DEF HeadIsReviewed
  <2>. QED BY <1>13, <2>1, <2>2 DEF Commit
<1>14. CASE TestingPolicy(k)
  <2>1. Quiet /\ w'[k].at \in {"complete", "fail"} /\ w[k].at = "gate"
    BY <1>1, <1>14, Moves DEF TestingPolicy
  <2>2. Reviewed(k)'
    BY <1>1, <2>1 DEF Reviewed
  <2>. QED BY <1>1, <1>4, <2>1, <2>2 DEF HeadIsReviewed
<1>15. CASE CompleteAttempt(k)
  <2>1. Past
    <3>1. CASE w' = [w EXCEPT ![k] = [@ EXCEPT !.at = "report", !.to = "completed"]]
      BY <1>1, <3>1 DEF Delivery
    <3>. QED BY <1>1, <1>15, <3>1, Moves DEF CompleteAttempt
  <2>. QED BY <1>5, <1>15, <2>1 DEF CompleteAttempt
<1>. QED BY <1>4, <1>5, <1>6, <1>7, <1>8, <1>9, <1>10, <1>11, <1>12, <1>13, <1>14, <1>15 DEF Work

(* There is no attempt at first.                                           *)
LEMMA ExecutionInit == Init => ExecutionInv
<1> SUFFICES ASSUME Init PROVE ExecutionInv
  OBVIOUS
<1>1. NobodyElse /\ RowsAgree /\ OutcomeIsDurable /\ HeadIsReviewed /\ CommitWasReviewed
  BY DEF Init, NobodyElse, RowsAgree, AtWork, NoDelivery, OutcomeIsDurable, HeadIsReviewed, Reviewed,
         CommitWasReviewed, NoAttempt, Finished, Executions
<1>. QED BY <1>1, OverlapInit DEF ExecutionInv

(* Every statement keeps the invariant of an execution.                    *)
LEMMA ExecutionWork ==
  ASSUME ExecutionInv, NEW k \in Workers, Work(k)
  PROVE  ExecutionInv'
<1>1. OverlapInv' /\ HeadIsReviewed'
  BY OverlapWork, WorkReviewed DEF ExecutionInv
<1>2. PICK e \in Executions : e = cur /\ w[k].ex = e /\ job = "running"
  <2>1. w[k].at # "idle"
    BY DEF Work, StartCoder, CoderResult, BeginVerification, Verify, BeginReview, CreateReview,
           AgentFails, Revise, Commit, TestingPolicy, CompleteAttempt, FailAttempt
  <2>. QED BY <2>1, Alone DEF ExecutionInv, OverlapInv, TypeOK
<1>3. AtWork(k) /\ Kept(k) /\ Aside(k)
  BY <1>2, WorkStep DEF ExecutionInv
<1>4. w[k].live /\ \A l \in Workers \ {k} : w[l].at = "idle"
  BY <1>3, Alone DEF AtWork
<1>5. NobodyElse'
  BY <1>3, <1>4 DEF Kept, NobodyElse
<1>6. \A l \in Workers \ {k} : w'[l].at = "idle"
  BY <1>3, <1>4 DEF Kept
<1>7. job' = job /\ job # "done"
  BY <1>2, <1>3 DEF Aside
<1>8. Continues(k)' \/ Answers(k)'
  BY WorkRows
<1>9. RowsAgree'
  BY <1>6, <1>8 DEF RowsAgree, Continues, Answers, AtWork, Finished
<1>10. OutcomeIsDurable'
  BY <1>7 DEF OutcomeIsDurable
<1>11. CommitWasReviewed'
  <2>1. CASE task' # "completed"
    BY <2>1 DEF CommitWasReviewed
  <2>2. CASE task' = "completed"
    <3>1. task # "completed" /\ att[cur].status \notin Finished
      BY WorkRows
    <3>2. w[k].at = "complete"
      <4>1. task' # task
        BY <2>2, <3>1
      <4>2. CompleteAttempt(k) \/ FailAttempt(k)
        BY <2>2, <4>1 DEF Work, StartCoder, CoderResult, BeginVerification, Verify, BeginReview,
             CreateReview, AgentFails, Revise, Commit, TestingPolicy
      <4>3. ~FailAttempt(k)
        BY <2>2 DEF FailAttempt, ExecutionInv, OverlapInv, WorkersAreKnown, Known
      <4>. QED BY <4>2, <4>3 DEF CompleteAttempt
    <3>3. UNCHANGED <<head, approved, accepted>>
      <4>1. CompleteAttempt(k)
        BY <3>2 DEF Work, StartCoder, CoderResult, BeginVerification, Verify, BeginReview,
             CreateReview, AgentFails, Revise, Commit, TestingPolicy, FailAttempt
      <4>. QED BY <4>1 DEF CompleteAttempt
    <3>. QED BY <3>2, <3>3 DEF ExecutionInv, HeadIsReviewed, Reviewed, CommitWasReviewed
  <2>. QED BY <2>1, <2>2
<1>. QED BY <1>1, <1>5, <1>9, <1>10, <1>11 DEF ExecutionInv

(* A delivery that begins, reports or is lost keeps it.                    *)
LEMMA ExecutionDelivery ==
  ASSUME ExecutionInv, NEW k \in Workers, BeginAttempt(k) \/ ReportBack(k) \/ LoseDelivery(k)
  PROVE  ExecutionInv'
<1>1. OverlapInv'
  BY OverlapDelivery DEF ExecutionInv
<1>2. /\ OverlapInv /\ cur \in Executions /\ w \in [Workers -> Delivery(threads)]
      /\ w[k] \in Delivery(threads)
  BY DEF ExecutionInv, OverlapInv, TypeOK
<1>3. CASE BeginAttempt(k)
  <2>1. /\ job = "queued" /\ job' = "running" /\ cur' = cur
        /\ UNCHANGED <<head, tree, approved, accepted>>
    BY <1>3 DEF BeginAttempt
  <2>2. \A l \in Workers : w[l].at = "idle"
    BY <2>1, Alone
  <2>3. \A l \in Workers \ {k} : w'[l].at = "idle"
    BY <1>2, <1>3, <2>2, Begun
  <2>4. w'[k].live /\ w'[k].at \in {"coder", "report"}
    BY <1>2, <1>3, Begun
  <2>5. NobodyElse' /\ HeadIsReviewed' /\ OutcomeIsDurable'
    BY <2>1, <2>3, <2>4 DEF NobodyElse, ExecutionInv, HeadIsReviewed, Reviewed, OutcomeIsDurable
  <2>6. /\ task' = "completed" => task = "completed"
        /\ att'[cur].status \in Finished => att' = att /\ task' = task
    BY <1>2, <1>3, Begun DEF Finished
  <2>7. task = "completed" => att[cur].status = "completed" /\ att' = att
    BY <1>2, <1>3, Begun DEF ExecutionInv, RowsAgree
  <2>8. RowsAgree'
    <3>1. w'[k].at = "coder" => att'[cur].status \notin Finished
      BY <1>2, <1>3, Begun
    <3>2. w'[k].at = "report" /\ w'[k].to # "error" => att'[cur].status = w'[k].to /\ task' = w'[k].to
      BY <1>2, <1>3, <2>1, Begun DEF ExecutionInv, RowsAgree
    <3>3. att'[cur].status \in Finished => task' = att'[cur].status
      BY <2>1, <2>6 DEF ExecutionInv, RowsAgree
    <3>4. task' = "completed" => att'[cur].status = "completed"
      BY <2>6, <2>7
    <3>. QED BY <2>1, <2>3, <2>4, <3>1, <3>2, <3>3, <3>4 DEF RowsAgree, AtWork
  <2>9. CommitWasReviewed'
    BY <2>1, <2>6 DEF ExecutionInv, CommitWasReviewed
  <2>. QED BY <1>1, <2>5, <2>8, <2>9 DEF ExecutionInv
<1>4. CASE ReportBack(k) \/ LoseDelivery(k)
  <2>1. UNCHANGED <<taskRows, worktree, cur, ghosts>>
    BY <1>4 DEF ReportBack, LoseDelivery
  <2>2. w[k].at # "idle"
    BY <1>2, <1>4 DEF ReportBack, LoseDelivery, OverlapInv, WorkersAreKnown, Known, Delivery
  <2>3. \A l \in Workers : w'[l].at = "idle"
    BY <1>2, <1>4, <2>2, Alone DEF ReportBack, LoseDelivery, NoDelivery
  <2>4. w[k].live /\ job = "running"
    BY <2>2, Alone
  <2>5. job' = "done" /\ outcome' # "error" => att[cur].status = outcome' /\ task = outcome'
    <3>1. CASE Redeliver
      BY <2>4, <3>1 DEF Redeliver
    <3>2. CASE ReportBack(k) /\ w[k].to # "error" /\ outcome' = w[k].to
      BY <3>2 DEF ReportBack, ExecutionInv, RowsAgree
    <3>. QED BY <1>4, <2>4, <3>1, <3>2 DEF ReportBack, LoseDelivery
  <2>6. NobodyElse' /\ HeadIsReviewed' /\ OutcomeIsDurable' /\ CommitWasReviewed'
    BY <2>1, <2>3, <2>5 DEF NobodyElse, ExecutionInv, HeadIsReviewed, Reviewed, OutcomeIsDurable,
                            CommitWasReviewed
  <2>7. RowsAgree'
    BY <2>1, <2>3, <2>4 DEF ExecutionInv, RowsAgree, AtWork
  <2>. QED BY <1>1, <2>6, <2>7 DEF ExecutionInv
<1>. QED BY <1>3, <1>4

(* So do the scheduler's own writes between two executions.                *)
LEMMA ExecutionScheduler ==
  ASSUME ExecutionInv, RecordError \/ RetryTask \/ UNCHANGED vars
  PROVE  ExecutionInv'
<1>1. OverlapInv'
  BY OverlapScheduler DEF ExecutionInv
<1>2. CASE RecordError \/ RetryTask
  <2>1. \A k \in Workers : w[k].at = "idle"
    BY <1>2, Alone DEF RecordError, RetryTask
  <2>2. UNCHANGED <<att, w, worktree, ghosts>>
    BY <1>2 DEF RecordError, RetryTask
  <2>3. task' # "completed" /\ (job' = "done" => outcome' = "error")
    BY <1>2 DEF RecordError, RetryTask
  <2>4. job' # "done" => att'[cur'].status \notin Finished
    <3>1. CASE RecordError
      BY <3>1 DEF RecordError
    <3>2. CASE RetryTask
      <4>1. cur' \in Executions /\ cur' = cur + 1 /\ cur \in Nat
        BY <1>1, <3>2 DEF RetryTask, ExecutionInv, OverlapInv, TypeOK, Executions
      <4>. QED BY <2>2, <4>1 DEF ExecutionInv, OverlapInv, History, Finished
    <3>. QED BY <1>2, <3>1, <3>2
  <2>5. NobodyElse' /\ RowsAgree' /\ OutcomeIsDurable' /\ HeadIsReviewed' /\ CommitWasReviewed'
    BY <2>1, <2>2, <2>3, <2>4 DEF ExecutionInv, NobodyElse, RowsAgree, AtWork, OutcomeIsDurable,
       HeadIsReviewed, Reviewed, CommitWasReviewed
  <2>. QED BY <1>1, <2>5 DEF ExecutionInv
<1>3. CASE UNCHANGED vars
  BY <1>1, <1>3 DEF vars, ExecutionInv, NobodyElse, RowsAgree, AtWork, OutcomeIsDurable,
                    HeadIsReviewed, Reviewed, CommitWasReviewed
<1>. QED BY <1>2, <1>3

(* Every step keeps it: one lemma per group of actions.                    *)
LEMMA ExecutionStep == ExecutionInv /\ [Next]_vars => ExecutionInv'
<1> SUFFICES ASSUME ExecutionInv, [Next]_vars PROVE ExecutionInv'
  OBVIOUS
<1>. QED BY ExecutionWork, ExecutionDelivery, ExecutionScheduler DEF Next, Execute, Work

(* Rows tell outcomes: attempt, review and task rows are all that survives *)
(* a delivery, and what the activity answers is what they say.             *)
THEOREM RowsAreTheTruth == Spec => []RowsTellOutcomes
<1>1. ExecutionInv => RowsTellOutcomes
  BY DEF ExecutionInv, OverlapInv, RowsTellOutcomes
<1>. QED BY ExecutionInit, ExecutionStep, <1>1, PTL DEF Spec

(* Every file a completed task changed on its branch was accepted as it is *)
(* by a reviewer, and all that the last approving reviewer saw is there.   *)
THEOREM CommitsAreReviewed == Spec => []CommitWasReviewed
<1>1. ExecutionInv => CommitWasReviewed
  BY DEF ExecutionInv
<1>. QED BY ExecutionInit, ExecutionStep, <1>1, PTL DEF Spec

-----------------------------------------------------------------------------
(* The contract: attempts are counted as executions begin them.            *)
LEMMA InitContract == Init => Contract!Init
<1> SUFFICES ASSUME Init PROVE Contract!Init
  OBVIOUS
<1>1. {e \in Executions : att[e].status # "none"} = {}
  BY DEF Init, NoAttempt
<1>2. AttemptCount = 0
  BY <1>1, FS_EmptySet DEF AttemptCount
<1>. QED BY <1>2, ExecutionAssumption DEF Init, Progress, Contract!Init, NoAttempt, Executions

(* The attempts that exist are counted; a change of their status counts    *)
(* none.                                                                   *)
LEMMA CountStays ==
  ASSUME \A e \in Executions : att'[e].status # "none" <=> att[e].status # "none"
  PROVE  AttemptCount' = AttemptCount
<1>1. {e \in Executions : att'[e].status # "none"} = {e \in Executions : att[e].status # "none"}
  OBVIOUS
<1>. QED BY <1>1 DEF AttemptCount

(* Every step is a step of the contract or leaves what it shows alone.     *)
LEMMA ContractStep ==
  ASSUME ExecutionInv, ExecutionInv', [Next]_vars
  PROVE  [Contract!Next]_<<task, AttemptCount, Progress>>
<1>1. cur \in Executions /\ OverlapInv /\ Finished = {"completed", "failed", "blocked"}
  BY DEF ExecutionInv, OverlapInv, TypeOK, Finished
<1>2. ASSUME NEW k \in Workers, Work(k)
      PROVE  [Contract!Next]_<<task, AttemptCount, Progress>>
  <2>1. w[k].at # "idle"
    BY <1>2 DEF Work, StartCoder, CoderResult, BeginVerification, Verify, BeginReview,
       CreateReview, AgentFails, Revise, Commit, TestingPolicy, CompleteAttempt, FailAttempt
  <2>2. PICK e \in Executions : w[k].ex = e /\ e = cur /\ job = "running"
    BY <1>1, <2>1, Alone
  <2>3. Kept(k) /\ Aside(k)
    BY <1>1, <1>2, <2>2, WorkStep
  <2>4. /\ Continues(k)' \/ Answers(k)'
        /\ task' = task \/ task' \in {"verification", "changes_requested"} \/ Answers(k)'
        /\ att[cur].status # "none" /\ att[cur].status \notin Finished
        /\ cur' = cur /\ att'[cur].status # "none"
    BY <1>2, WorkRows
  <2>5. job' = "running" /\ Progress = "working"
    BY <2>2, <2>3, <2>4 DEF Aside, Progress
  <2>6. AttemptCount' = AttemptCount
    BY <2>2, <2>3, <2>4, CountStays DEF Aside
  <2>7. CASE Continues(k)' /\ ~Answers(k)'
    <3>1. Progress' = "working"
      BY <2>4, <2>5, <2>7 DEF Progress, Continues
    <3>. QED BY <2>4, <2>5, <2>6, <2>7, <3>1 DEF Contract!Next, Contract!Show
  <2>8. CASE Answers(k)'
    <3>1. CASE task' = "changes_requested"
      <4>1. Progress' = "working"
        BY <1>1, <2>4, <2>5, <2>8, <3>1 DEF Progress, Answers
      <4>. QED BY <2>5, <2>6, <3>1, <4>1 DEF Contract!Next, Contract!Show
    <3>2. CASE task' \in Finished
      <4>1. Progress' = task'
        BY <2>4, <2>5, <2>8, <3>2 DEF Progress, Answers
      <4>. QED BY <1>1, <2>5, <2>6, <3>2, <4>1 DEF Contract!Next, Contract!Finish
    <3>. QED BY <1>1, <2>8, <3>1, <3>2 DEF Answers
  <2>. QED BY <2>4, <2>7, <2>8
<1>3. ASSUME NEW k \in Workers, BeginAttempt(k)
      PROVE  [Contract!Next]_<<task, AttemptCount, Progress>>
  <2>1. job = "queued" /\ job' = "running" /\ cur' = cur
    BY <1>3 DEF BeginAttempt
  <2>2. CASE att'[cur] = att[cur]
    <3>1. att' = att /\ task' = task
      BY <1>1, <1>3, <2>2, Begun
    <3>2. AttemptCount' = AttemptCount /\ Progress' = Progress
      BY <2>1, <3>1 DEF AttemptCount, Progress
    <3>. QED BY <3>1, <3>2
  <2>3. CASE att'[cur] # att[cur]
    <3>1. /\ att[cur].status = "none" /\ att'[cur].status = "running" /\ task' = "running"
          /\ AttemptCount < MaxAttempts /\ \A e \in Executions \ {cur} : att'[e] = att[e]
      BY <1>1, <1>3, <2>3, Begun
    <3>2. Progress = "scheduled" /\ Progress' = "working"
      BY <1>1, <2>1, <3>1 DEF Progress
    <3>3. AttemptCount' = AttemptCount + 1
      <4> DEFINE S == {e \in Executions : att[e].status # "none"}
      <4>1. IsFiniteSet(S) /\ cur \notin S
        <5>1. IsFiniteSet(Executions)
          BY FS_Interval, ExecutionAssumption DEF Executions
        <5>. QED BY <3>1, <5>1, FS_Subset
      <4>2. {e \in Executions : att'[e].status # "none"} = S \cup {cur}
        BY <1>1, <3>1
      <4>3. Cardinality(S \cup {cur}) = Cardinality(S) + 1
        BY <4>1, FS_AddElement
      <4>. QED BY <4>2, <4>3 DEF AttemptCount
    <3>4. task # "completed"
      BY <3>1 DEF ExecutionInv, RowsAgree
    <3>. QED BY <3>1, <3>2, <3>3, <3>4 DEF Contract!Next, Contract!Begin
  <2>. QED BY <2>2, <2>3
<1>4. ASSUME NEW k \in Workers, ReportBack(k) \/ LoseDelivery(k)
      PROVE  [Contract!Next]_<<task, AttemptCount, Progress>>
  <2>1. task' = task /\ att' = att /\ cur' = cur /\ AttemptCount' = AttemptCount
    BY <1>4 DEF ReportBack, LoseDelivery, AttemptCount
  <2>2. w[k].live /\ job = "running"
    <3>1. w[k].at # "idle"
      BY <1>1, <1>4 DEF ReportBack, LoseDelivery, OverlapInv, WorkersAreKnown, Known
    <3>. QED BY <3>1, Alone
  <2>3. CASE Redeliver
    BY <2>1, <2>2, <2>3 DEF Redeliver, Progress, Contract!Next, Contract!Fail
  <2>4. CASE ReportBack(k) /\ w[k].to # "error" /\ job' = "done" /\ outcome' = w[k].to
    <3>1. att[cur].status = outcome' /\ task = outcome' /\ Progress' = outcome'
          /\ att[cur].status # "none"
      BY <1>1, <2>2, <2>4, Alone
         DEF ReportBack, ExecutionInv, RowsAgree, Progress, OverlapInv, WorkersAreKnown, Known
    <3>2. outcome' \in {"completed", "failed", "blocked", "changes_requested"}
      <4>1. w[k].to \in Outcomes
        BY <1>1 DEF OverlapInv, TypeOK, Delivery
      <4>. QED BY <2>4, <4>1 DEF Outcomes
    <3>3. CASE outcome' \in Finished
      BY <2>1, <2>2, <3>1, <3>3 DEF Progress
    <3>4. CASE outcome' = "changes_requested"
      <4>1. Progress = "working"
        BY <1>1, <2>2, <3>1, <3>4 DEF Progress
      <4>. QED BY <2>1, <3>1, <3>4, <4>1 DEF Contract!Next, Contract!Finish
    <3>. QED BY <1>1, <3>2, <3>3, <3>4
  <2>. QED BY <1>4, <2>2, <2>3, <2>4 DEF ReportBack, LoseDelivery
<1>5. CASE RecordError
  <2>1. Progress = "error" /\ Progress' = "error" /\ AttemptCount' = AttemptCount
    BY <1>5 DEF RecordError, Progress, AttemptCount
  <2>. QED BY <1>5, <2>1 DEF RecordError, Contract!Next, Contract!Record
<1>6. CASE RetryTask
  <2>1. Progress = outcome /\ task = outcome /\ AttemptCount' = AttemptCount
    BY <1>6 DEF RetryTask, Progress, ExecutionInv, OutcomeIsDurable, AttemptCount
  <2>2. Progress' = "scheduled"
    <3>1. cur' \in Executions /\ cur' = cur + 1 /\ cur \in Nat
      BY <1>1, <1>6 DEF RetryTask, ExecutionInv, OverlapInv, TypeOK, Executions
    <3>2. att'[cur'].status = "none"
      BY <1>1, <1>6, <3>1 DEF RetryTask, OverlapInv, History
    <3>. QED BY <1>6, <3>2 DEF RetryTask, Progress
  <2>. QED BY <1>6, <2>1, <2>2 DEF RetryTask, Contract!Next, Contract!Retry
<1>7. CASE UNCHANGED vars
  BY <1>7 DEF vars, AttemptCount, Progress
<1>. QED BY <1>2, <1>3, <1>4, <1>5, <1>6, <1>7 DEF Next, Execute, Work

(* The execution service keeps the contract the scheduler is built on.     *)
THEOREM ExecutionKeepsContract == Spec => ContractKept
<1>1. Spec => []ExecutionInv
  BY ExecutionInit, ExecutionStep, PTL DEF Spec
<1>. QED BY InitContract, ContractStep, <1>1, PTL DEF Spec, ContractKept, Contract!Spec
=============================================================================
