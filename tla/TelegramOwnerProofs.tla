-------------------------- MODULE TelegramOwnerProofs --------------------------
(***************************************************************************)
(* Proofs about TelegramOwner for every number of webhook requests, users, *)
(* buttons under a plan, messages, presses and failures: buttons act once  *)
(* and for their owner, a message leads to one live plan, and the offset   *)
(* passes no message that nobody has claimed.                              *)
(***************************************************************************)
EXTENDS TelegramOwner, TLAPS, FiniteSetTheorems, SequenceTheorems

Kinds == {"plan", "ask", "read", "press"}
Buttons == {"approve", "reject", "show_tasks", "change", "retry"}
SentRec == [user : Users, what : Kinds, button : 0..MaxGrants]
PlanRec == [cmd : Nat,
            status : {"discussion", "awaiting_approval", "approved", "cancelled"}]
GrantRec == [action : Buttons, res : Nat, user : Users,
             status : {"pending", "consumed", "expired", "cancelled"}]
HandlerRec == [pc : AllSteps, u : Nat, todo : Seq(Buttons), res : Nat,
               held : SUBSET Nat, new : SUBSET Nat, ok : BOOLEAN]
PollRec == [up : BOOLEAN, next : Nat, batch : SUBSET Nat]

(***************************************************************************)
(* The invariant, by what it is about.  The rows: every reference is to a  *)
(* row that exists, and what the three properties say of rows.             *)
(***************************************************************************)
RowTypes ==
  /\ update \in Seq(SentRec) /\ receipt \in Seq(Statuses) /\ Len(receipt) = Len(update)
  /\ command \in Seq(Nat) /\ plan \in Seq(PlanRec)
  /\ grant \in Seq(GrantRec) /\ calls \in Seq(Nat) /\ Len(calls) = Len(grant)
  /\ shown \subseteq DOMAIN grant /\ failures \in 0..MaxFailures

WithinBounds ==
  /\ Len(grant) <= MaxGrants
  /\ Sent({"press"}) <= MaxPresses /\ Sent({"plan", "ask", "read"}) <= MaxTexts

RowReferences ==
  /\ \A u \in Updates : update[u].what = "press" => update[u].button \in DOMAIN grant
  /\ \A c \in DOMAIN command : command[c] \in Updates
  /\ \A c, d \in DOMAIN command : command[c] = command[d] => c = d
  /\ \A p \in DOMAIN plan : plan[p].cmd \in DOMAIN command
  /\ \A g \in DOMAIN grant : /\ grant[g].res \in DOMAIN plan \cup {Task}
                             /\ grant[g].action \in {"approve", "reject"} => grant[g].res \in DOMAIN plan

OneLivePlanPerCommand ==
  \A p, q \in DOMAIN plan :
    plan[p].cmd = plan[q].cmd /\ {plan[p].status, plan[q].status} \subseteq Live => p = q

RowsInv ==
  /\ RowTypes /\ WithinBounds /\ RowReferences
  /\ OneLivePlanPerCommand /\ ButtonActsOnce

(* The handlers.  A button is consumed before its operation is called, and *)
(* a handler that cancels old buttons holds them locked.                   *)
Settled(u) == update[u].user \in Allowed => receipt[u] # "none"

HandlerOK(h) ==
  /\ work[h].pc = "idle" => work[h] = Idle
  /\ work[h].pc # "idle" => work[h].u \in Updates
  /\ work[h].new \subseteq DOMAIN grant /\ work[h].held \subseteq DOMAIN grant
  /\ \A g \in work[h].held : Pending(g)
  /\ work[h].pc \in {"target", "cancel", "insert"} =>
       /\ work[h].todo # <<>> /\ work[h].res \in DOMAIN plan \cup {Task}
       /\ \A i \in DOMAIN work[h].todo :
            work[h].todo[i] \in {"approve", "reject"} => work[h].res \in DOMAIN plan
  /\ work[h].pc = "plan" => WithKey(work[h].u) # {}
  /\ work[h].pc \in {"consume", "act"} =>
       work[h].res \in DOMAIN grant /\ update[work[h].u].button = work[h].res
  /\ work[h].pc = "act" => /\ grant[work[h].res].status = "consumed" /\ calls[work[h].res] = 0
                           /\ grant[work[h].res].user = update[work[h].u].user
  /\ work[h].pc \notin {"idle", "claim"} => Settled(work[h].u)

Apart ==
  \A h, k \in Handlers : h # k =>
    /\ work[h].held \cap work[k].held = {}
    /\ work[h].pc = "act" /\ work[k].pc = "act" => work[h].res # work[k].res

HandlersInv == work \in [Handlers -> HandlerRec] /\ (\A h \in Handlers : HandlerOK(h)) /\ Apart

(* The poller.  What it holds, or is working on, begins at its offset, and *)
(* no unclaimed message below is missing; Telegram forgets what somebody   *)
(* has claimed.                                                            *)
InBatchOrder ==
  /\ \A b \in poll.batch : b >= poll.next /\ b > work["poller"].u
  /\ work["poller"].pc # "idle" => work["poller"].u >= poll.next
  /\ \A b \in poll.batch \cup {work["poller"].u}, v \in Updates :
       v < b /\ ~Settled(v) => v \in poll.batch \/ v = work["poller"].u

PollerInv ==
  /\ poll \in PollRec /\ poll.next \in 1..Len(update) + 1 /\ offset \in 1..Len(update) + 1
  /\ queue \subseteq Updates /\ poll.batch \subseteq Updates
  /\ ~poll.up => work["poller"].pc = "idle" /\ poll.batch = {}
  /\ poll.up => poll.next = offset
  /\ InBatchOrder
  /\ \A u \in Updates : u \notin queue => Settled(u)
  /\ \A u \in Updates : u < offset => Settled(u)

OwnerInv == RowsInv /\ HandlersInv /\ PollerInv

-----------------------------------------------------------------------------
(* Sequences as functions: what appending and replacing leave alone.       *)
LEMMA Appended ==
  ASSUME NEW S, NEW s \in Seq(S), NEW e \in S
  PROVE  /\ Append(s, e) \in Seq(S) /\ Len(Append(s, e)) = Len(s) + 1 /\ Len(s) \in Nat
         /\ DOMAIN Append(s, e) = DOMAIN s \cup {Len(s) + 1} /\ Len(s) + 1 \notin DOMAIN s
         /\ DOMAIN s = 1..Len(s)
         /\ \A i \in DOMAIN s : Append(s, e)[i] = s[i]
         /\ Append(s, e)[Len(s) + 1] = e
<1>1. /\ Append(s, e) \in Seq(S) /\ Len(Append(s, e)) = Len(s) + 1
      /\ \A i \in 1..Len(s) : Append(s, e)[i] = s[i]
      /\ Append(s, e)[Len(s) + 1] = e
  BY AppendProperties
<1>2. Len(s) \in Nat /\ DOMAIN s = 1..Len(s) /\ DOMAIN Append(s, e) = 1..(Len(s) + 1)
  BY <1>1, LenProperties
<1>3. 1..(Len(s) + 1) = 1..Len(s) \cup {Len(s) + 1} /\ Len(s) + 1 \notin 1..Len(s)
  BY <1>2
<1>. QED BY <1>1, <1>2, <1>3

(* Replacing one row of a table keeps its length and its other rows.       *)
LEMMA Replaced ==
  ASSUME NEW S, NEW s \in Seq(S), NEW i \in DOMAIN s, NEW e \in S
  PROVE  /\ [s EXCEPT ![i] = e] \in Seq(S) /\ Len([s EXCEPT ![i] = e]) = Len(s)
         /\ DOMAIN [s EXCEPT ![i] = e] = DOMAIN s
         /\ [s EXCEPT ![i] = e][i] = e
         /\ \A j \in DOMAIN s \ {i} : [s EXCEPT ![i] = e][j] = s[j]
<1>1. DOMAIN s = 1..Len(s)
  BY LenProperties
<1>. QED BY <1>1, ExceptSeq, LenProperties

(* A table's rows are numbered from one.                                   *)
LEMMA SeqFacts ==
  ASSUME NEW S, NEW s \in Seq(S)
  PROVE  /\ Len(s) \in Nat /\ DOMAIN s = 1..Len(s) /\ \A i \in DOMAIN s : s[i] \in S /\ i \in Nat /\ i # 0
  BY LenProperties

(* A sequence rewritten element by element. *)
LEMMA Rewritten ==
  ASSUME NEW S, NEW s \in Seq(S), NEW t, t = [i \in DOMAIN s |-> t[i]],
         \A i \in DOMAIN s : t[i] \in S
  PROVE  t \in Seq(S) /\ Len(t) = Len(s) /\ DOMAIN t = DOMAIN s
<1>1. DOMAIN s = 1..Len(s) /\ Len(s) \in Nat
  BY LenProperties
<1>2. t \in [1..Len(s) -> S]
  BY <1>1
<1>. QED BY <1>1, <1>2, SeqDef

(* The tables' rows are numbered from one, and calls are counted per       *)
(* button.                                                                 *)
LEMMA RowFacts ==
  ASSUME RowTypes
  PROVE  /\ Updates = 1..Len(update) /\ Len(update) \in Nat /\ DOMAIN receipt = Updates
         /\ DOMAIN command = 1..Len(command) /\ Len(command) \in Nat
         /\ DOMAIN plan = 1..Len(plan) /\ Len(plan) \in Nat
         /\ DOMAIN grant = 1..Len(grant) /\ Len(grant) \in Nat /\ DOMAIN calls = DOMAIN grant
         /\ \A u \in Updates : update[u] \in SentRec /\ receipt[u] \in Statuses /\ u \in Nat
         /\ \A c \in DOMAIN command : command[c] \in Nat
         /\ \A p \in DOMAIN plan : plan[p] \in PlanRec /\ p \in Nat /\ p # 0
         /\ \A g \in DOMAIN grant : grant[g] \in GrantRec /\ calls[g] \in Nat /\ g \in Nat
<1>1. Updates = 1..Len(update) /\ Len(update) \in Nat /\ \A u \in Updates : update[u] \in SentRec /\ u \in Nat
  BY SeqFacts DEF RowTypes, Updates
<1>2. DOMAIN receipt = 1..Len(receipt) /\ \A u \in DOMAIN receipt : receipt[u] \in Statuses
  BY SeqFacts DEF RowTypes
<1>3. /\ DOMAIN command = 1..Len(command) /\ Len(command) \in Nat
      /\ \A c \in DOMAIN command : command[c] \in Nat
  BY SeqFacts DEF RowTypes
<1>4. /\ DOMAIN plan = 1..Len(plan) /\ Len(plan) \in Nat
      /\ \A p \in DOMAIN plan : plan[p] \in PlanRec /\ p \in Nat /\ p # 0
  BY SeqFacts DEF RowTypes
<1>5. /\ DOMAIN grant = 1..Len(grant) /\ Len(grant) \in Nat
      /\ \A g \in DOMAIN grant : grant[g] \in GrantRec /\ g \in Nat
  BY SeqFacts DEF RowTypes
<1>6. DOMAIN calls = 1..Len(calls) /\ \A g \in DOMAIN calls : calls[g] \in Nat
  BY SeqFacts DEF RowTypes
<1>7. Len(receipt) = Len(update) /\ Len(calls) = Len(grant)
  BY DEF RowTypes
<1>. QED BY <1>1, <1>2, <1>3, <1>4, <1>5, <1>6, <1>7

-----------------------------------------------------------------------------
(* All tables are empty at first.                                          *)
LEMMA InitRows == TelegramInit => RowsInv
<1> SUFFICES ASSUME TelegramInit PROVE RowsInv
  OBVIOUS
<1>1. /\ update = <<>> /\ receipt = <<>> /\ command = <<>> /\ plan = <<>> /\ grant = <<>>
      /\ calls = <<>> /\ shown = {} /\ failures = 0
  BY DEF TelegramInit
<1>2. /\ DOMAIN update = {} /\ DOMAIN command = {} /\ DOMAIN plan = {} /\ DOMAIN grant = {}
      /\ Len(grant) = 0
  BY <1>1
<1>3. RowTypes
  BY <1>1, <1>2, EmptySeq, TelegramAssumption DEF RowTypes
<1>4. WithinBounds
  <2>1. \A kinds : {u \in Updates : update[u].what \in kinds} = {}
    BY <1>2 DEF Updates
  <2>2. Sent({"press"}) = 0 /\ Sent({"plan", "ask", "read"}) = 0
    BY <2>1, FS_EmptySet DEF Sent
  <2>3. MaxTexts \in Nat /\ MaxPresses \in Nat /\ MaxGrants \in Nat
    BY TelegramAssumption
  <2>. QED BY <1>2, <2>2, <2>3 DEF WithinBounds
<1>. QED BY <1>2, <1>3, <1>4
         DEF RowsInv, RowReferences, Updates, OneLivePlanPerCommand, ButtonActsOnce

(* No handler holds anything at first.                                     *)
LEMMA InitHandlers == TelegramInit => HandlersInv
<1> SUFFICES ASSUME TelegramInit PROVE HandlersInv
  OBVIOUS
<1>1. Idle \in HandlerRec
  BY EmptySeq DEF Idle, HandlerRec, AllSteps, Working
<1>2. work \in [Handlers -> HandlerRec] /\ \A h \in Handlers : work[h] = Idle
  BY <1>1 DEF TelegramInit
<1>3. ASSUME NEW h \in Handlers PROVE HandlerOK(h)
  BY <1>2 DEF HandlerOK, Idle
<1>4. Apart
  BY <1>2 DEF Apart, Idle
<1>. QED BY <1>2, <1>3, <1>4 DEF HandlersInv

(* Nothing has been sent, so nothing can have been skipped.                *)
LEMMA InitPoller == TelegramInit => PollerInv
<1> SUFFICES ASSUME TelegramInit PROVE PollerInv
  OBVIOUS
<1>1. Updates = {} /\ Len(update) = 0 /\ queue = {} /\ offset = 1
  BY DEF TelegramInit, Updates
<1>2. poll = [up |-> FALSE, next |-> 1, batch |-> {}] /\ poll \in PollRec
  BY DEF TelegramInit, PollRec
<1>3. work["poller"].pc = "idle"
  BY DEF TelegramInit, Handlers, Idle
<1>. QED BY <1>1, <1>2, <1>3 DEF PollerInv, InBatchOrder

-----------------------------------------------------------------------------
(* What no step takes back: updates, commands, plans and buttons stay, and *)
(* a claimed update is never unclaimed.                                    *)
WorldGrows ==
  /\ Updates \subseteq Updates' /\ \A u \in Updates : update'[u] = update[u]
  /\ \A u \in Updates : receipt[u] # "none" => receipt'[u] # "none"
  /\ DOMAIN command \subseteq DOMAIN command' /\ \A c \in DOMAIN command : command'[c] = command[c]
  /\ DOMAIN plan \subseteq DOMAIN plan'
  /\ DOMAIN grant \subseteq DOMAIN grant'
  /\ \A g \in DOMAIN grant : grant'[g].user = grant[g].user

(* What is settled stays settled when the tables only grow.                *)
LEMMA Growing ==
  ASSUME WorldGrows
  PROVE  /\ \A u \in Updates : Settled(u) => Settled(u)'
         /\ \A u \in Updates : WithKey(u) # {} => WithKey(u)' # {}
  BY DEF WorldGrows, Settled, WithKey

RowsGrow == RowsInv' /\ WorldGrows

(* A step that leaves the rows of the plan and of the buttons alone. *)
LEMMA ReceiptChanges ==
  ASSUME RowsInv, UNCHANGED <<update, command, plan, grant, calls>>,
         receipt' \in Seq(Statuses), Len(receipt') = Len(receipt),
         \A u \in Updates : receipt[u] # "none" => receipt'[u] # "none",
         shown' \subseteq DOMAIN grant, failures' \in 0..MaxFailures
  PROVE  RowsGrow
  BY DEF RowsGrow, RowsInv, RowTypes, WithinBounds, RowReferences, OneLivePlanPerCommand,
         ButtonActsOnce, WorldGrows, Updates, Sent

(* A step that writes no table keeps what is known of them.                *)
LEMMA RowsRest ==
  ASSUME RowsInv, UNCHANGED <<update, receipt, command, plan, grant, calls>>,
         shown' \subseteq DOMAIN grant, failures' \in 0..MaxFailures
  PROVE  RowsGrow
<1>1. receipt \in Seq(Statuses)
  BY DEF RowsInv, RowTypes
<1>. QED BY <1>1, ReceiptChanges

(* The messages are the texts and the presses. *)
LEMMA SentAll ==
  ASSUME RowTypes
  PROVE  /\ \A kinds : Sent(kinds) \in Nat
         /\ Len(update) = Sent({"press"}) + Sent({"plan", "ask", "read"})
<1> DEFINE ofKind(kinds) == {u \in Updates : update[u].what \in kinds}
           texts == {"plan", "ask", "read"}
<1>1. IsFiniteSet(Updates) /\ Cardinality(Updates) = Len(update)
  <2>1. Updates = 1..Len(update) /\ Len(update) \in Int /\ Len(update) \in Nat
    BY RowFacts
  <2>2. /\ IsFiniteSet(1..Len(update))
        /\ Cardinality(1..Len(update)) = IF 1 > Len(update) THEN 0 ELSE Len(update) - 1 + 1
    BY <2>1, FS_Interval
  <2>. QED BY <2>1, <2>2
<1>2. \A kinds : ofKind(kinds) \subseteq Updates
  OBVIOUS
<1>3. \A kinds : IsFiniteSet(ofKind(kinds))
  BY <1>1, <1>2, FS_Subset
<1>4. \A kinds : Sent(kinds) = Cardinality(ofKind(kinds)) /\ Sent(kinds) \in Nat
  BY <1>3, FS_CardinalityType DEF Sent
<1>5. Updates = ofKind({"press"}) \cup ofKind(texts) /\ ofKind({"press"}) \cap ofKind(texts) = {}
  BY RowFacts DEF SentRec, Kinds
<1> HIDE DEF ofKind
<1>6. Cardinality(Updates) = Cardinality(ofKind({"press"})) + Cardinality(ofKind(texts))
                               - Cardinality(ofKind({"press"}) \cap ofKind(texts))
  BY <1>3, <1>5, FS_Union
<1>7. Cardinality(ofKind({"press"}) \cap ofKind(texts)) = 0
  BY <1>5, FS_EmptySet
<1>8. Sent({"press"}) = Cardinality(ofKind({"press"})) /\ Sent({"press"}) \in Nat
  BY <1>4
<1>9. Sent(texts) = Cardinality(ofKind(texts)) /\ Sent(texts) \in Nat
  BY <1>4
<1>10. Cardinality(Updates) = Sent({"press"}) + Sent(texts)
  BY <1>6, <1>7, <1>8, <1>9
<1>. QED BY <1>1, <1>4, <1>10

(* A message or a press is one new update without a receipt.               *)
LEMMA SendRows ==
  ASSUME RowsInv, NEW usr \in Users, NEW what \in Kinds, NEW b \in 0..MaxGrants,
         Send(usr, what, b)
  PROVE  RowsGrow /\ Updates' = Updates \cup {Len(update) + 1} /\ Len(update)' = Len(update) + 1
<1> DEFINE sent == [user |-> usr, what |-> what, button |-> b]
<1>1. /\ UNCHANGED <<command, plan, grant, calls, shown, failures>>
      /\ update' = Append(update, sent) /\ receipt' = Append(receipt, "none")
  BY DEF Send, owner
<1>2. update \in Seq(SentRec) /\ receipt \in Seq(Statuses) /\ Len(receipt) = Len(update)
      /\ sent \in SentRec /\ "none" \in Statuses
  BY DEF RowsInv, RowTypes, SentRec, Statuses
<1> HIDE DEF sent
<1>3. /\ update' \in Seq(SentRec) /\ Len(update') = Len(update) + 1 /\ Len(update) + 1 \notin Updates
      /\ Updates' = Updates \cup {Len(update) + 1}
      /\ \A u \in Updates : update'[u] = update[u]
      /\ update'[Len(update) + 1] = sent
  BY <1>1, <1>2, Appended DEF Updates
<1>4. /\ receipt' \in Seq(Statuses) /\ Len(receipt') = Len(update')
      /\ \A u \in DOMAIN receipt : receipt'[u] = receipt[u]
  BY <1>1, <1>2, <1>3, Appended
<1>5. RowTypes'
  BY <1>1, <1>3, <1>4 DEF RowsInv, RowTypes
<1>6. WithinBounds'
  <2> DEFINE of(kinds) == {u \in Updates : update[u].what \in kinds}
             after(kinds) == {u \in Updates' : update'[u].what \in kinds}
  <2>1. \A kinds : after(kinds) = IF what \in kinds THEN of(kinds) \cup {Len(update) + 1} ELSE of(kinds)
    BY <1>3 DEF sent
  <2>2. IsFiniteSet(Updates)
    BY RowFacts, FS_Interval DEF RowsInv
  <2>3. \A kinds : IsFiniteSet(of(kinds)) /\ Len(update) + 1 \notin of(kinds)
    BY <1>3, <2>2, FS_Subset
  <2>4. \A kinds : Sent(kinds) = Cardinality(of(kinds)) /\ Sent(kinds)' = Cardinality(after(kinds))
    BY DEF Sent
  <2> HIDE DEF of, after
  <2>5. \A kinds : Sent(kinds)' = IF what \in kinds THEN Sent(kinds) + 1 ELSE Sent(kinds)
    BY <2>1, <2>3, <2>4, FS_AddElement
  <2>6. \A kinds : Sent(kinds) \in Nat
    BY SentAll DEF RowsInv
  <2>7. MaxTexts \in Nat /\ MaxPresses \in Nat
    BY TelegramAssumption
  <2>8. CASE what = "press"
    BY <1>1, <2>5, <2>6, <2>7, <2>8 DEF Send, RowsInv, WithinBounds
  <2>9. CASE what # "press"
    BY <1>1, <2>5, <2>6, <2>7, <2>9 DEF Send, RowsInv, WithinBounds
  <2>. QED BY <2>8, <2>9
<1>7. WorldGrows
  BY <1>1, <1>2, <1>3, <1>4, RowFacts DEF RowsInv, WorldGrows
<1>8. RowReferences'
  <2>1. what = "press" => b \in DOMAIN grant
    BY DEF Send, RowsInv, RowTypes
  <2>2. \A u \in Updates' : update'[u].what = "press" => update'[u].button \in DOMAIN grant
    BY <1>3, <2>1 DEF sent, RowsInv, RowReferences
  <2>. QED BY <1>1, <1>3, <2>2 DEF RowsInv, RowReferences
<1>9. OneLivePlanPerCommand'
  BY <1>1 DEF RowsInv, OneLivePlanPerCommand
<1>10. ButtonActsOnce'
  <2> SUFFICES ASSUME NEW g \in DOMAIN grant, calls[g] > 0
               PROVE  /\ calls[g] = 1 /\ grant[g].status = "consumed"
                      /\ \E u \in Updates' : update'[u].button = g /\ update'[u].user = grant[g].user
    BY <1>1 DEF ButtonActsOnce
  <2>1. /\ calls[g] = 1 /\ grant[g].status = "consumed"
        /\ \E u \in Updates : update[u].button = g /\ update[u].user = grant[g].user
    BY DEF RowsInv, ButtonActsOnce
  <2>. QED BY <1>3, <2>1
<1>. QED BY <1>3, <1>5, <1>6, <1>7, <1>8, <1>9, <1>10 DEF RowsGrow, RowsInv

-----------------------------------------------------------------------------
(* CreateCommand: one command per key. *)
LEMMA CommandRows ==
  ASSUME RowsInv, NEW h \in Handlers, work[h].u \in Updates, CreateCommand(h)
  PROVE  RowsGrow /\ \E c \in DOMAIN command' : command'[c] = work[h].u
<1> DEFINE u == work[h].u
<1>1. /\ UNCHANGED <<update, receipt, plan, grant, calls, shown, failures>>
      /\ command' = IF WithKey(u) = {} THEN Append(command, u) ELSE command
  BY DEF CreateCommand, Proceed, telegram
<1>2. command \in Seq(Nat) /\ u \in Nat /\ u \in Updates
  BY RowFacts DEF RowsInv, RowTypes
<1> HIDE DEF u
<1>3. /\ command' \in Seq(Nat) /\ DOMAIN command \subseteq DOMAIN command'
      /\ \A c \in DOMAIN command : command'[c] = command[c]
      /\ \A c \in DOMAIN command' : command'[c] \in Updates
      /\ \A c, d \in DOMAIN command' : command'[c] = command'[d] => c = d
      /\ \E c \in DOMAIN command' : command'[c] = u
  <2>1. CASE WithKey(u) = {}
    <3>1. command' = Append(command, u)
      BY <1>1, <2>1
    <3>2. /\ command' \in Seq(Nat) /\ DOMAIN command' = DOMAIN command \cup {Len(command) + 1}
          /\ Len(command) + 1 \notin DOMAIN command
          /\ \A c \in DOMAIN command : command'[c] = command[c]
          /\ command'[Len(command) + 1] = u
      BY <1>2, <3>1, Appended
    <3>3. \A c \in DOMAIN command : command[c] # u /\ command[c] \in Updates
      BY <2>1 DEF WithKey, RowsInv, RowReferences
    <3>4. \A c, d \in DOMAIN command : command[c] = command[d] => c = d
      BY DEF RowsInv, RowReferences
    <3>. QED BY <1>2, <3>2, <3>3, <3>4
  <2>2. CASE WithKey(u) # {}
    BY <1>1, <1>2, <2>2 DEF WithKey, RowsInv, RowReferences
  <2>. QED BY <2>1, <2>2
<1>4. RowTypes'
  BY <1>1, <1>3 DEF RowsInv, RowTypes
<1>5. WithinBounds' /\ OneLivePlanPerCommand' /\ ButtonActsOnce'
  BY <1>1 DEF RowsInv, WithinBounds, Sent, Updates, OneLivePlanPerCommand, ButtonActsOnce
<1>6. RowReferences'
  BY <1>1, <1>3 DEF RowsInv, RowReferences, Updates
<1>7. WorldGrows
  BY <1>1, <1>3 DEF WorldGrows, Updates
<1>. QED BY <1>3, <1>4, <1>5, <1>6, <1>7 DEF RowsGrow, RowsInv, u

(* A step that changes plans only. *)
LEMMA PlansChange ==
  ASSUME RowsInv, UNCHANGED <<update, receipt, command, grant, calls, shown, failures>>,
         plan' \in Seq(PlanRec), DOMAIN plan \subseteq DOMAIN plan',
         \A p \in DOMAIN plan' : plan'[p].cmd \in DOMAIN command,
         OneLivePlanPerCommand'
  PROVE  RowsGrow
<1>1. RowTypes'
  BY DEF RowsInv, RowTypes
<1>2. WithinBounds' /\ ButtonActsOnce'
  BY DEF RowsInv, WithinBounds, Sent, Updates, ButtonActsOnce
<1>3. RowReferences'
  BY DEF RowsInv, RowReferences, Updates
<1>4. WorldGrows
  BY DEF WorldGrows, Updates
<1>. QED BY <1>1, <1>2, <1>3, <1>4 DEF RowsGrow, RowsInv

(* One plan takes another status: a live one only if it was live.          *)
LEMMA PlanMoves ==
  ASSUME RowsInv, UNCHANGED <<update, receipt, command, grant, calls, shown, failures>>,
         NEW p \in DOMAIN plan, NEW new \in PlanRec, plan' = [plan EXCEPT ![p] = new],
         new.cmd = plan[p].cmd, plan[p].status \in Live
  PROVE  RowsGrow
<1>1. plan \in Seq(PlanRec)
  BY DEF RowsInv, RowTypes
<1>2. /\ plan' \in Seq(PlanRec) /\ DOMAIN plan' = DOMAIN plan /\ plan'[p] = new
      /\ \A q \in DOMAIN plan \ {p} : plan'[q] = plan[q]
  BY <1>1, Replaced
<1>3. \A q \in DOMAIN plan' : plan'[q].cmd \in DOMAIN command
  BY <1>2 DEF RowsInv, RowReferences
<1>4. ASSUME NEW q \in DOMAIN plan \ {p}, plan[q].cmd = plan[p].cmd PROVE plan[q].status \notin Live
  BY <1>4 DEF RowsInv, OneLivePlanPerCommand
<1>5. OneLivePlanPerCommand'
  <2> SUFFICES ASSUME NEW q \in DOMAIN plan, NEW r \in DOMAIN plan, plan'[q].cmd = plan'[r].cmd,
                      plan'[q].status \in Live, plan'[r].status \in Live
               PROVE  q = r
    BY <1>2 DEF OneLivePlanPerCommand
  <2>1. CASE q # p /\ r # p
    BY <1>2, <2>1 DEF RowsInv, OneLivePlanPerCommand
  <2>2. CASE q = p /\ r # p
    BY <1>2, <1>4, <2>2
  <2>3. CASE q # p /\ r = p
    BY <1>2, <1>4, <2>3
  <2>. QED BY <2>1, <2>2, <2>3
<1>. QED BY <1>2, <1>3, <1>5, PlansChange

(* The web interface: a plan that is submitted or approved was live.       *)
LEMMA WebRows ==
  ASSUME RowsInv, NEW p \in DOMAIN plan, Web(p)
  PROVE  RowsGrow
<1>1. UNCHANGED <<update, receipt, command, grant, calls, shown, failures>>
  BY DEF Web, telegram
<1>2. plan[p] \in PlanRec
  BY RowFacts DEF RowsInv
<1>3. CASE plan[p].status = "discussion" /\ plan' = [plan EXCEPT ![p].status = "awaiting_approval"]
  <2> DEFINE new == [plan[p] EXCEPT !.status = "awaiting_approval"]
  <2>1. new \in PlanRec /\ new.cmd = plan[p].cmd /\ plan' = [plan EXCEPT ![p] = new]
    BY <1>2, <1>3 DEF PlanRec
  <2> HIDE DEF new
  <2>. QED BY <1>1, <1>3, <2>1, PlanMoves DEF Live
<1>4. CASE plan[p].status = "awaiting_approval" /\ plan' = [plan EXCEPT ![p].status = "approved"]
  <2> DEFINE new == [plan[p] EXCEPT !.status = "approved"]
  <2>1. new \in PlanRec /\ new.cmd = plan[p].cmd /\ plan' = [plan EXCEPT ![p] = new]
    BY <1>2, <1>4 DEF PlanRec
  <2> HIDE DEF new
  <2>. QED BY <1>1, <1>4, <2>1, PlanMoves DEF Live
<1>. QED BY <1>3, <1>4 DEF Web

(* CreatePlan: a new version replaces the live one of its command.         *)
LEMMA PlanRows ==
  ASSUME RowsInv, NEW h \in Handlers, WithKey(work[h].u) # {}, CreatePlan(h)
  PROVE  /\ RowsGrow /\ UNCHANGED <<update, receipt, command, grant, calls, shown, failures>>
         /\ UNCHANGED telegram /\ UNCHANGED <<offset, poll>>
         /\ \E p \in DOMAIN plan' :
              work' = [work EXCEPT ![h] = [@ EXCEPT !.pc = "cancel", !.todo = PlanButtons, !.res = p]]
<1> DEFINE c == CommandOf(work[h].u)
           cancelled == [p \in DOMAIN plan |->
                           IF plan[p].cmd = c THEN [plan[p] EXCEPT !.status = "cancelled"] ELSE plan[p]]
           new == [cmd |-> c, status |-> "discussion"]
           buttons(p) ==
             work' = [work EXCEPT ![h] = [@ EXCEPT !.pc = "cancel", !.todo = PlanButtons, !.res = p]]
<1>1. /\ UNCHANGED <<update, receipt, command, grant, calls, shown, failures>>
      /\ UNCHANGED telegram /\ UNCHANGED <<offset, poll>>
  BY DEF CreatePlan, telegram
<1>2. c \in DOMAIN command
  <2>1. PICK d \in DOMAIN command : command[d] = work[h].u
    BY DEF WithKey
  <2>2. \A e \in DOMAIN command : command[e] = work[h].u => e = d
    BY <2>1 DEF RowsInv, RowReferences
  <2>3. d <= d
    BY RowFacts DEF RowsInv
  <2>4. /\ d \in DOMAIN command /\ command[d] = work[h].u
        /\ \A e \in DOMAIN command : command[e] = work[h].u => e <= d
    BY <2>1, <2>2, <2>3
  <2>. QED BY <2>4 DEF CommandOf
<1>3. plan \in Seq(PlanRec) /\ Len(plan) + 1 \notin DOMAIN plan /\ c \in Nat
      /\ \A p \in DOMAIN plan : plan[p] \in PlanRec
  BY <1>2, RowFacts DEF RowsInv, RowTypes
<1>4. new \in PlanRec
  BY <1>3 DEF PlanRec
<1>5. \/ plan' = Append(cancelled, new) /\ buttons(Len(plan) + 1)
      \/ \E p \in DOMAIN plan : buttons(p) /\ UNCHANGED plan
  BY DEF CreatePlan
<1> HIDE DEF c
<1>6. CASE plan' = Append(cancelled, new) /\ buttons(Len(plan) + 1)
  <2>1. /\ cancelled = [p \in DOMAIN plan |-> cancelled[p]]
        /\ \A p \in DOMAIN plan :
             /\ cancelled[p] \in PlanRec /\ cancelled[p].cmd = plan[p].cmd
             /\ cancelled[p].status = IF plan[p].cmd = c THEN "cancelled" ELSE plan[p].status
    BY <1>3 DEF PlanRec
  <2> HIDE DEF cancelled, new, buttons
  <2>2. cancelled \in Seq(PlanRec) /\ Len(cancelled) = Len(plan) /\ DOMAIN cancelled = DOMAIN plan
    BY <1>3, <2>1, Rewritten
  <2>3. /\ plan' \in Seq(PlanRec) /\ DOMAIN plan' = DOMAIN plan \cup {Len(plan) + 1}
        /\ \A p \in DOMAIN plan : plan'[p] = cancelled[p]
        /\ plan'[Len(plan) + 1] = new
    BY <1>4, <1>6, <2>2, Appended
  <2>4. new.cmd = c /\ new.status = "discussion"
    BY DEF new
  <2>5. \A p \in DOMAIN plan' : plan'[p].cmd \in DOMAIN command
    BY <1>2, <2>1, <2>3, <2>4 DEF RowsInv, RowReferences
  <2>6. OneLivePlanPerCommand'
    <3> SUFFICES ASSUME NEW p \in DOMAIN plan', NEW q \in DOMAIN plan', plan'[p].cmd = plan'[q].cmd,
                        plan'[p].status \in Live, plan'[q].status \in Live
                 PROVE  p = q
      BY DEF OneLivePlanPerCommand
    <3>1. \A r \in DOMAIN plan : plan'[r].status \in Live => /\ plan'[r].cmd # c
                                                             /\ plan'[r].cmd = plan[r].cmd
                                                             /\ plan'[r].status = plan[r].status
      BY <2>1, <2>3 DEF Live
    <3>2. CASE p \in DOMAIN plan /\ q \in DOMAIN plan
      BY <3>1, <3>2 DEF RowsInv, OneLivePlanPerCommand
    <3>3. CASE p \notin DOMAIN plan \/ q \notin DOMAIN plan
      BY <2>3, <2>4, <3>1, <3>3
    <3>. QED BY <3>2, <3>3
  <2>7. RowsGrow
    BY <1>1, <2>3, <2>5, <2>6, PlansChange
  <2>8. \E p \in DOMAIN plan' : buttons(p)
    BY <1>6, <2>3
  <2>. QED BY <1>1, <2>7, <2>8 DEF buttons
<1>7. ASSUME NEW p \in DOMAIN plan, buttons(p), UNCHANGED plan
      PROVE  RowsGrow /\ \E q \in DOMAIN plan' : buttons(q)
  BY <1>1, <1>7, RowsRest DEF RowsInv, RowTypes
<1>. QED BY <1>1, <1>5, <1>6, <1>7

(* SaveInsert: what is held is cancelled, and the new button follows.      *)
LEMMA InsertRows ==
  ASSUME RowsInv, HandlersInv, NEW h \in Handlers, SaveInsert(h)
  PROVE  /\ RowsGrow /\ UNCHANGED <<update, receipt, command, plan, shown, failures>>
         /\ DOMAIN grant' = DOMAIN grant \cup {Len(grant) + 1}
         /\ \A g \in DOMAIN grant \ work[h].held : grant'[g] = grant[g]
         /\ \A g \in DOMAIN grant : calls'[g] = calls[g]
<1> DEFINE w == work[h]
           row == [action |-> Head(w.todo), res |-> w.res, user |-> update[w.u].user,
                   status |-> "pending"]
           rows == [g \in DOMAIN grant |->
                      IF g \in w.held THEN [grant[g] EXCEPT !.status = "cancelled"] ELSE grant[g]]
<1>0. HandlerOK(h) /\ w \in HandlerRec /\ w.pc = "insert"
  BY DEF HandlersInv, SaveInsert
<1>1. /\ UNCHANGED <<update, receipt, command, plan, shown, failures>> /\ Len(grant) < MaxGrants
      /\ grant' = Append(rows, row) /\ calls' = Append(calls, 0)
  BY DEF SaveInsert, telegram
<1>2. grant \in Seq(GrantRec) /\ calls \in Seq(Nat) /\ Len(calls) = Len(grant)
      /\ \A g \in DOMAIN grant : grant[g] \in GrantRec
  BY RowFacts DEF RowsInv, RowTypes
<1>3. /\ w.todo \in Seq(Buttons) /\ w.todo # <<>> /\ w.u \in Updates
      /\ w.res \in DOMAIN plan \cup {Task} /\ w.res \in Nat
      /\ \A i \in DOMAIN w.todo : w.todo[i] \in {"approve", "reject"} => w.res \in DOMAIN plan
  BY <1>0 DEF HandlerOK, HandlerRec
<1>4. Head(w.todo) \in Buttons /\ (Head(w.todo) \in {"approve", "reject"} => w.res \in DOMAIN plan)
  <2>1. Head(w.todo) \in Buttons /\ Head(w.todo) = w.todo[1]
    BY <1>3, HeadTailProperties
  <2>2. 1 \in DOMAIN w.todo
    BY <1>3, EmptySeq, LenProperties
  <2>. QED BY <1>3, <2>1, <2>2
<1>5. update[w.u].user \in Users
  BY <1>3, RowFacts DEF RowsInv, SentRec
<1>6. row \in GrantRec /\ row.res = w.res /\ row.action = Head(w.todo)
  BY <1>3, <1>4, <1>5 DEF GrantRec
<1>7. /\ rows = [g \in DOMAIN grant |-> rows[g]]
      /\ \A g \in DOMAIN grant :
           /\ rows[g] \in GrantRec /\ rows[g].user = grant[g].user /\ rows[g].res = grant[g].res
           /\ rows[g].action = grant[g].action
           /\ g \notin w.held => rows[g] = grant[g]
  BY <1>2 DEF GrantRec
<1> HIDE DEF rows, row
<1>8. rows \in Seq(GrantRec) /\ Len(rows) = Len(grant) /\ DOMAIN rows = DOMAIN grant
  BY <1>2, <1>7, Rewritten
<1>9. /\ grant' \in Seq(GrantRec) /\ Len(grant') = Len(grant) + 1
      /\ DOMAIN grant' = DOMAIN grant \cup {Len(grant) + 1} /\ Len(grant) + 1 \notin DOMAIN grant
      /\ \A g \in DOMAIN grant : grant'[g] = rows[g]
      /\ grant'[Len(grant) + 1] = row
  BY <1>1, <1>6, <1>8, Appended
<1>10. /\ calls' \in Seq(Nat) /\ Len(calls') = Len(calls) + 1 /\ DOMAIN calls = DOMAIN grant
       /\ \A g \in DOMAIN grant : calls'[g] = calls[g]
       /\ calls'[Len(grant) + 1] = 0
  <2>1. 0 \in Nat /\ DOMAIN calls = DOMAIN grant
    BY RowFacts DEF RowsInv
  <2>. QED BY <1>1, <1>2, <2>1, Appended
<1>11. RowTypes'
  BY <1>1, <1>2, <1>9, <1>10 DEF RowsInv, RowTypes
<1>12. WithinBounds'
  <2>1. Len(grant) \in Nat /\ MaxGrants \in Nat
    BY RowFacts, TelegramAssumption DEF RowsInv
  <2>. QED BY <1>1, <1>9, <2>1 DEF RowsInv, WithinBounds, Sent, Updates
<1>13. RowReferences'
  <2>1. \A g \in DOMAIN grant' :
          /\ grant'[g].res \in DOMAIN plan \cup {Task}
          /\ grant'[g].action \in {"approve", "reject"} => grant'[g].res \in DOMAIN plan
    BY <1>3, <1>4, <1>6, <1>7, <1>9 DEF RowsInv, RowReferences
  <2>. QED BY <1>1, <1>9, <2>1 DEF RowsInv, RowReferences, Updates
<1>14. OneLivePlanPerCommand'
  BY <1>1 DEF RowsInv, OneLivePlanPerCommand
<1>15. ButtonActsOnce'
  <2> SUFFICES ASSUME NEW g \in DOMAIN grant', calls'[g] > 0
               PROVE  /\ calls'[g] = 1 /\ grant'[g].status = "consumed"
                      /\ \E u \in Updates : update[u].button = g /\ update[u].user = grant'[g].user
    BY <1>1 DEF ButtonActsOnce, Updates
  <2>1. g \in DOMAIN grant /\ calls'[g] = calls[g]
    BY <1>9, <1>10
  <2>2. /\ calls[g] = 1 /\ grant[g].status = "consumed"
        /\ \E u \in Updates : update[u].button = g /\ update[u].user = grant[g].user
    BY <2>1 DEF RowsInv, ButtonActsOnce
  <2>3. g \notin w.held
    BY <1>0, <2>2 DEF HandlerOK, Pending
  <2>. QED BY <1>7, <1>9, <2>1, <2>2, <2>3
<1>16. WorldGrows
  BY <1>1, <1>7, <1>9 DEF WorldGrows, Updates
<1>17. \A g \in DOMAIN grant \ w.held : grant'[g] = grant[g]
  BY <1>7, <1>9
<1>. QED BY <1>1, <1>9, <1>10, <1>11, <1>12, <1>13, <1>14, <1>15, <1>16, <1>17 DEF RowsGrow, RowsInv

(* ConsumeCallback: a pending button of the presser is used up.            *)
LEMMA ConsumeRows ==
  ASSUME RowsInv, HandlersInv, NEW h \in Handlers, ConsumeCallback(h)
  PROVE  /\ RowsGrow /\ UNCHANGED <<update, receipt, command, plan, calls, shown, failures>>
         /\ DOMAIN grant' = DOMAIN grant
         /\ \A g \in DOMAIN grant : g # work[h].res \/ ~Pending(g) => grant'[g] = grant[g]
<1> DEFINE g == work[h].res
<1>0. HandlerOK(h) /\ work[h].pc = "consume" /\ g \in DOMAIN grant
  BY DEF HandlersInv, ConsumeCallback, HandlerOK
<1>1. UNCHANGED <<update, receipt, command, plan, calls, shown, failures>>
  BY DEF ConsumeCallback, Proceed, Fail, telegram, owner
<1>2. CASE UNCHANGED grant
  BY <1>1, <1>2, RowsRest DEF RowsInv, RowTypes
<1>3. ASSUME NEW st \in {"consumed", "expired"}, Pending(g), grant' = [grant EXCEPT ![g].status = st]
      PROVE  /\ RowsGrow /\ DOMAIN grant' = DOMAIN grant
             /\ \A b \in DOMAIN grant : b # g \/ ~Pending(b) => grant'[b] = grant[b]
  <2> DEFINE new == [grant[g] EXCEPT !.status = st]
  <2>1. grant \in Seq(GrantRec) /\ grant[g] \in GrantRec
    BY <1>0, RowFacts DEF RowsInv, RowTypes
  <2>2. /\ new \in GrantRec /\ new.user = grant[g].user /\ new.res = grant[g].res
        /\ new.action = grant[g].action /\ grant' = [grant EXCEPT ![g] = new]
    BY <1>3, <2>1 DEF GrantRec
  <2> HIDE DEF new
  <2>3. /\ grant' \in Seq(GrantRec) /\ Len(grant') = Len(grant) /\ DOMAIN grant' = DOMAIN grant
        /\ grant'[g] = new /\ \A b \in DOMAIN grant \ {g} : grant'[b] = grant[b]
    BY <1>0, <2>1, <2>2, Replaced
  <2>4. RowTypes' /\ WithinBounds'
    BY <1>1, <2>3 DEF RowsInv, RowTypes, WithinBounds, Sent, Updates
  <2>5. RowReferences'
    BY <1>1, <2>2, <2>3 DEF RowsInv, RowReferences, Updates
  <2>6. OneLivePlanPerCommand'
    BY <1>1 DEF RowsInv, OneLivePlanPerCommand
  <2>7. ButtonActsOnce'
    <3>1. \A b \in DOMAIN grant : calls[b] > 0 => b # g
      BY <1>3 DEF RowsInv, ButtonActsOnce, Pending
    <3> SUFFICES ASSUME NEW b \in DOMAIN grant, calls[b] > 0
                 PROVE  /\ calls[b] = 1 /\ grant'[b].status = "consumed"
                        /\ \E u \in Updates : update[u].button = b /\ update[u].user = grant'[b].user
      BY <1>1, <2>3 DEF ButtonActsOnce, Updates
    <3>2. grant'[b] = grant[b]
      BY <2>3, <3>1
    <3>. QED BY <3>2 DEF RowsInv, ButtonActsOnce
  <2>8. WorldGrows
    BY <1>1, <2>2, <2>3 DEF WorldGrows, Updates
  <2>. QED BY <1>3, <2>3, <2>4, <2>5, <2>6, <2>7, <2>8 DEF RowsGrow, RowsInv
<1>4. UNCHANGED grant \/ \E st \in {"consumed", "expired"} : Pending(g) /\ grant' = [grant EXCEPT ![g].status = st]
  BY DEF ConsumeCallback, Usable
<1>. QED BY <1>1, <1>2, <1>3, <1>4

(* The operation behind a button: called when the button is consumed, and  *)
(* for the first time.                                                     *)
LEMMA ActRows ==
  ASSUME RowsInv, HandlersInv, NEW h \in Handlers, Act(h)
  PROVE  /\ RowsGrow /\ UNCHANGED <<update, receipt, command, grant, shown, failures>>
         /\ DOMAIN plan' = DOMAIN plan
         /\ \A g \in DOMAIN grant : g # work[h].res => calls'[g] = calls[g]
<1> DEFINE g == work[h].res
           b == grant[g]
<1>0. /\ HandlerOK(h) /\ work[h].pc = "act" /\ g \in DOMAIN grant /\ calls[g] = 0
      /\ b.status = "consumed" /\ b.user = update[work[h].u].user /\ work[h].u \in Updates
      /\ update[work[h].u].button = g
  BY DEF HandlersInv, Act, HandlerOK
<1>1. /\ UNCHANGED <<update, receipt, command, grant, shown, failures>>
      /\ calls' = [calls EXCEPT ![g] = @ + 1]
  BY DEF Act, Proceed, Fail, telegram
<1>2. /\ calls' \in Seq(Nat) /\ Len(calls') = Len(calls) /\ DOMAIN calls' = DOMAIN grant
      /\ calls'[g] = 1 /\ \A k \in DOMAIN grant \ {g} : calls'[k] = calls[k]
  <2>1. calls \in Seq(Nat) /\ DOMAIN calls = DOMAIN grant
    BY RowFacts DEF RowsInv, RowTypes
  <2>2. calls' = [calls EXCEPT ![g] = 1]
    BY <1>0, <1>1, <2>1
  <2>. QED BY <1>0, <2>1, <2>2, Replaced
(* The plan: as if only it had changed. *)
<1>3. /\ plan' \in Seq(PlanRec) /\ DOMAIN plan' = DOMAIN plan
      /\ \A p \in DOMAIN plan :
           /\ plan'[p].cmd = plan[p].cmd
           /\ plan'[p].status \in Live => plan[p].status \in Live
  <2>1. plan \in Seq(PlanRec) /\ \A p \in DOMAIN plan : plan[p] \in PlanRec
    BY RowFacts DEF RowsInv, RowTypes
  <2>2. CASE UNCHANGED plan
    BY <2>1, <2>2
  <2>3. ASSUME NEW to \in {"approved", "cancelled"}, b.res \in DOMAIN plan, Decidable(b.res, to, NoFingerprint),
               plan' = [plan EXCEPT ![b.res].status = to]
        PROVE  /\ plan' \in Seq(PlanRec) /\ DOMAIN plan' = DOMAIN plan
               /\ \A p \in DOMAIN plan :
                    /\ plan'[p].cmd = plan[p].cmd
                    /\ plan'[p].status \in Live => plan[p].status \in Live
    <3> DEFINE new == [plan[b.res] EXCEPT !.status = to]
    <3>1. to = "cancelled" /\ plan[b.res].status \in Live
      BY <2>3 DEF Decidable, NoFingerprint, Live
    <3>2. /\ new \in PlanRec /\ new.cmd = plan[b.res].cmd
          /\ plan' = [plan EXCEPT ![b.res] = new]
      BY <2>1, <2>3, <3>1 DEF PlanRec
    <3> HIDE DEF new
    <3>3. /\ plan' \in Seq(PlanRec) /\ DOMAIN plan' = DOMAIN plan /\ plan'[b.res] = new
          /\ \A p \in DOMAIN plan \ {b.res} : plan'[p] = plan[p]
      BY <2>1, <2>3, <3>2, Replaced
    <3>. QED BY <3>1, <3>2, <3>3
  <2>4. b.action \in {"approve", "reject"} => b.res \in DOMAIN plan
    BY <1>0 DEF RowsInv, RowReferences
  <2>5. \/ UNCHANGED plan
        \/ /\ b.action \in {"approve", "reject"} /\ Decidable(b.res, Outcome(b.action), NoFingerprint)
           /\ plan' = [plan EXCEPT ![b.res].status = Outcome(b.action)]
    <3>1. CASE b.action \in {"approve", "reject"}
      BY <3>1 DEF Act
    <3>2. CASE b.action = "retry"
      BY <3>2 DEF Act
    <3>3. CASE b.action \notin {"approve", "reject", "retry"}
      BY <3>3 DEF Act
    <3>. QED BY <3>1, <3>2, <3>3
  <2>6. Outcome(b.action) \in {"approved", "cancelled"}
    BY DEF Outcome
  <2>. QED BY <2>2, <2>3, <2>4, <2>5, <2>6
<1>4. RowTypes' /\ WithinBounds'
  BY <1>1, <1>2, <1>3 DEF RowsInv, RowTypes, WithinBounds, Sent, Updates
<1>5. RowReferences' /\ WorldGrows
  BY <1>1, <1>3 DEF RowsInv, RowReferences, WorldGrows, Updates
<1>6. OneLivePlanPerCommand'
  BY <1>3 DEF RowsInv, OneLivePlanPerCommand
<1>7. ButtonActsOnce'
  <2> SUFFICES ASSUME NEW k \in DOMAIN grant, calls'[k] > 0
               PROVE  /\ calls'[k] = 1 /\ grant[k].status = "consumed"
                      /\ \E u \in Updates : update[u].button = k /\ update[u].user = grant[k].user
    BY <1>1 DEF ButtonActsOnce, Updates
  <2>1. CASE k = g
    BY <1>0, <1>2, <2>1
  <2>2. CASE k # g
    BY <1>2, <2>2 DEF RowsInv, ButtonActsOnce
  <2>. QED BY <2>1, <2>2
<1>. QED BY <1>1, <1>2, <1>3, <1>4, <1>5, <1>6, <1>7 DEF RowsGrow, RowsInv

(* A receipt is written: the update is claimed, finished or failed.        *)
LEMMA ReceiptWritten ==
  ASSUME RowsInv, NEW u \in Updates, NEW st \in {"received", "processed", "failed"},
         receipt' = [receipt EXCEPT ![u] = st]
  PROVE  /\ receipt' \in Seq(Statuses) /\ Len(receipt') = Len(receipt)
         /\ \A v \in Updates : receipt[v] # "none" => receipt'[v] # "none"
         /\ receipt'[u] # "none"
<1>1. receipt \in Seq(Statuses) /\ DOMAIN receipt = Updates /\ st \in Statuses
  BY RowFacts DEF RowsInv, RowTypes, Statuses
<1>2. /\ receipt' \in Seq(Statuses) /\ Len(receipt') = Len(receipt) /\ receipt'[u] = st
      /\ \A v \in Updates \ {u} : receipt'[v] = receipt[v]
  BY <1>1, Replaced
<1>. QED BY <1>2

(* A fault is counted and bounded.                                         *)
LEMMA FaultCounted == ASSUME RowsInv, Faulty PROVE failures' \in 0..MaxFailures
<1>1. failures \in 0..MaxFailures /\ MaxFailures \in Nat /\ failures < MaxFailures /\ failures' = failures + 1
  BY TelegramAssumption DEF RowsInv, RowTypes, Faulty
<1>. QED BY <1>1

(* Every statement of a handler keeps the tables' invariant and lets them  *)
(* only grow.                                                              *)
LEMMA StepRows ==
  ASSUME RowsInv, HandlersInv, NEW h \in Handlers,
         Step(h) \/ OperationFails(h) \/ HandleFails(h) \/ SendFails(h)
  PROVE  RowsGrow
<1>0. /\ HandlerOK(h) /\ failures \in 0..MaxFailures /\ shown \subseteq DOMAIN grant
      /\ work[h].pc # "idle" => work[h].u \in Updates
      /\ work[h].new \subseteq DOMAIN grant
  BY DEF HandlersInv, HandlerOK, RowsInv, RowTypes
<1>1. ASSUME UNCHANGED <<update, receipt, command, plan, grant, calls>>,
             shown' \in {shown, shown \cup work[h].new}, UNCHANGED failures \/ Faulty
      PROVE  RowsGrow
  <2>1. failures' \in 0..MaxFailures /\ shown' \subseteq DOMAIN grant
    BY <1>0, <1>1, FaultCounted
  <2>. QED BY <1>1, <2>1, RowsRest
<1>2. CASE Refuse(h) \/ Reply(h) \/ CheckTarget(h) \/ AnswerCallback(h)
  BY <1>1, <1>2 DEF Refuse, Reply, CheckTarget, AnswerCallback, Respond, Proceed, Fail, telegram, owner
<1>3. CASE BeginUpdate(h)
  <2>1. UNCHANGED <<update, command, plan, grant, calls, shown, failures>>
    BY <1>3 DEF BeginUpdate, Respond, telegram, owner
  <2>2. CASE UNCHANGED receipt
    BY <1>1, <2>1, <2>2
  <2>3. CASE receipt' = [receipt EXCEPT ![work[h].u] = "received"]
    <3>1. work[h].u \in Updates
      BY <1>0, <1>3 DEF BeginUpdate
    <3>2. /\ receipt' \in Seq(Statuses) /\ Len(receipt') = Len(receipt)
          /\ \A v \in Updates : receipt[v] # "none" => receipt'[v] # "none"
      BY <2>3, <3>1, ReceiptWritten
    <3>. QED BY <1>0, <2>1, <3>2, ReceiptChanges
  <2>. QED BY <1>3, <2>2, <2>3 DEF BeginUpdate
<1>4. CASE CreateCommand(h)
  <2>1. work[h].u \in Updates
    BY <1>0, <1>4 DEF CreateCommand
  <2>. QED BY <1>4, <2>1, CommandRows
<1>5. CASE CreatePlan(h)
  <2>1. WithKey(work[h].u) # {}
    BY <1>0, <1>5 DEF CreatePlan, HandlerOK
  <2>. QED BY <1>5, <2>1, PlanRows
<1>6. CASE SaveCancel(h)
  BY <1>1, <1>6 DEF SaveCancel, telegram, owner
<1>7. CASE SaveInsert(h)
  BY <1>7, InsertRows
<1>8. CASE ConsumeCallback(h)
  BY <1>8, ConsumeRows
<1>9. CASE Act(h)
  BY <1>9, ActRows
<1>10. CASE FinishUpdate(h) \/ SendFails(h)
  <2>1. UNCHANGED <<update, command, plan, grant, calls>>
    BY <1>10 DEF FinishUpdate, SendFails, Respond, Proceed, telegram, owner
  <2>2. /\ work[h].u \in Updates
        /\ \E st \in {"processed", "failed"} : receipt' = [receipt EXCEPT ![work[h].u] = st]
    BY <1>0, <1>10 DEF FinishUpdate, SendFails, Verdict
  <2>3. failures' \in 0..MaxFailures /\ shown' \subseteq DOMAIN grant
    BY <1>0, <1>10, FaultCounted DEF FinishUpdate, SendFails
  <2>4. /\ receipt' \in Seq(Statuses) /\ Len(receipt') = Len(receipt)
        /\ \A v \in Updates : receipt[v] # "none" => receipt'[v] # "none"
    BY <2>2, ReceiptWritten
  <2>. QED BY <2>1, <2>3, <2>4, ReceiptChanges
<1>11. CASE SendMessage(h)
  BY <1>1, <1>11 DEF SendMessage, Respond, Proceed, telegram, owner
<1>12. CASE OperationFails(h) \/ HandleFails(h)
  BY <1>1, <1>12 DEF OperationFails, HandleFails, Respond, Fail, telegram, owner
<1>. QED BY <1>2, <1>3, <1>4, <1>5, <1>6, <1>7, <1>8, <1>9, <1>10, <1>11, <1>12 DEF Step

(* So does every other step.                                               *)
LEMMA RowsStep == ASSUME OwnerInv, [TelegramNext]_telegramVars PROVE RowsGrow
<1>0. RowsInv /\ HandlersInv /\ failures \in 0..MaxFailures /\ shown \subseteq DOMAIN grant
  BY DEF OwnerInv, RowsInv, RowTypes
<1>1. CASE UNCHANGED telegramVars
  BY <1>0, <1>1, RowsRest DEF telegramVars, telegram, owner
<1>2. ASSUME NEW usr \in Users, NEW what \in {"plan", "ask", "read", "press"}, NEW b \in 0..MaxGrants,
             Send(usr, what, b)
      PROVE  RowsGrow
  BY <1>0, <1>2, SendRows DEF Kinds
<1>3. ASSUME NEW p \in DOMAIN plan, Web(p) PROVE RowsGrow
  BY <1>0, <1>3, WebRows
<1>4. ASSUME NEW h \in Hooks, NEW u \in queue, Deliver(h, u) PROVE RowsGrow
  BY <1>0, <1>4, RowsRest DEF Deliver, telegram, owner
<1>5. CASE PollerStart \/ Polling
  BY <1>0, <1>5, RowsRest DEF Polling, PollerStart, GetUpdates, PollerTake, SavePollOffset, telegram, owner
<1>6. ASSUME NEW h \in Handlers, Step(h) \/ OperationFails(h) \/ HandleFails(h) \/ SendFails(h)
      PROVE  RowsGrow
  BY <1>0, <1>6, StepRows
<1>7. ASSUME NEW process, Crash(process) PROVE RowsGrow
  BY <1>0, <1>7, RowsRest, FaultCounted DEF Crash, telegram, owner
<1>. QED BY <1>1, <1>2, <1>3, <1>4, <1>5, <1>6, <1>7 DEF TelegramNext

-----------------------------------------------------------------------------
(* What a step of one handler must not touch for another one.              *)
UseKept(k) ==
  /\ \A g \in work[k].held : grant'[g].status = grant[g].status
  /\ work[k].pc = "act" => /\ grant'[work[k].res].status = grant[work[k].res].status
                           /\ calls'[work[k].res] = calls[work[k].res]

(* A handler that does not move keeps its own invariant while tables grow. *)
LEMMA HandlerStays ==
  ASSUME WorldGrows, NEW k \in Handlers, HandlerOK(k), work'[k] = work[k], UseKept(k)
  PROVE  HandlerOK(k)'
<1> DEFINE u == work[k].u
<1>1. /\ work[k].pc = "idle" => work[k] = Idle
      /\ work[k].pc # "idle" => work[k].u \in Updates'
  BY DEF HandlerOK, WorldGrows
<1>2. /\ work[k].new \subseteq DOMAIN grant' /\ work[k].held \subseteq DOMAIN grant'
      /\ \A g \in work[k].held : grant'[g].status = "pending"
  BY DEF HandlerOK, WorldGrows, UseKept, Pending
<1>3. work[k].pc \in {"target", "cancel", "insert"} =>
        /\ work[k].todo # <<>> /\ work[k].res \in DOMAIN plan' \cup {Task}
        /\ \A i \in DOMAIN work[k].todo :
             work[k].todo[i] \in {"approve", "reject"} => work[k].res \in DOMAIN plan'
  BY DEF HandlerOK, WorldGrows
<1>4. work[k].pc = "plan" => \E c \in DOMAIN command' : command'[c] = work[k].u
  BY DEF HandlerOK, WorldGrows, WithKey
<1>5. work[k].pc \in {"consume", "act"} =>
        work[k].res \in DOMAIN grant' /\ update'[work[k].u].button = work[k].res
  BY DEF HandlerOK, WorldGrows
<1>6. work[k].pc = "act" => /\ grant'[work[k].res].status = "consumed" /\ calls'[work[k].res] = 0
                            /\ grant'[work[k].res].user = update'[work[k].u].user
  BY DEF HandlerOK, WorldGrows, UseKept
<1>7. work[k].pc \notin {"idle", "claim"} =>
        (update'[work[k].u].user \in Allowed => receipt'[work[k].u] # "none")
  BY DEF HandlerOK, WorldGrows, Settled
<1>. QED BY <1>1, <1>2, <1>3, <1>4, <1>5, <1>6, <1>7 DEF HandlerOK, Pending, WithKey, Settled

(* When one handler moves, it is enough to look at that one, and at the    *)
(* buttons it shares with others.                                          *)
LEMMA HandlerMoves ==
  ASSUME HandlersInv, WorldGrows, NEW h \in Handlers, work' \in [Handlers -> HandlerRec],
         \A k \in Handlers \ {h} : work'[k] = work[k] /\ UseKept(k),
         HandlerOK(h)',
         \A k \in Handlers \ {h} :
           /\ work'[h].held \cap work[k].held = {}
           /\ work'[h].pc = "act" /\ work[k].pc = "act" => work'[h].res # work[k].res
  PROVE  HandlersInv'
<1>1. \A k \in Handlers \ {h} : HandlerOK(k)'
  BY HandlerStays DEF HandlersInv
<1>2. Apart'
  <2> SUFFICES ASSUME NEW j \in Handlers, NEW k \in Handlers, j # k
               PROVE  /\ work'[j].held \cap work'[k].held = {}
                      /\ work'[j].pc = "act" /\ work'[k].pc = "act" => work'[j].res # work'[k].res
    BY DEF Apart
  <2>1. CASE j # h /\ k # h
    BY <2>1 DEF HandlersInv, Apart
  <2>2. CASE j = h
    BY <2>2
  <2>3. CASE k = h
    BY <2>3
  <2>. QED BY <2>1, <2>2, <2>3
<1>. QED BY <1>1, <1>2 DEF HandlersInv

(* Where one call of Handle can go, whatever it did. *)
LEMMA GotoMoves ==
  ASSUME work \in [Handlers -> HandlerRec], NEW h \in Handlers, NEW pc \in AllSteps, Proceed(h, pc)
  PROVE  /\ work' \in [Handlers -> HandlerRec] /\ \A k \in Handlers \ {h} : work'[k] = work[k]
         /\ work'[h].pc = pc /\ work'[h].u = work[h].u /\ work'[h].todo = work[h].todo
         /\ work'[h].res = work[h].res /\ work'[h].held = work[h].held /\ work'[h].new = work[h].new
         /\ work'[h].ok = work[h].ok /\ UNCHANGED <<update, queue, offset, poll>>
  BY DEF Proceed, telegram, HandlerRec

(* An error sends the handler to its finish with nothing in its hands.     *)
LEMMA FailMoves ==
  ASSUME work \in [Handlers -> HandlerRec], NEW h \in Handlers, Fail(h)
  PROVE  /\ work' \in [Handlers -> HandlerRec] /\ \A k \in Handlers \ {h} : work'[k] = work[k]
         /\ work'[h].pc = "finish" /\ work'[h].u = work[h].u
         /\ work'[h].held = {} /\ work'[h].new = {} /\ UNCHANGED <<update, queue, offset, poll>>
<1> DEFINE next == [work[h] EXCEPT !.pc = "finish", !.ok = FALSE, !.new = {}, !.held = {}]
<1>1. work' = [work EXCEPT ![h] = next] /\ UNCHANGED <<update, queue, offset, poll>>
  BY DEF Fail, telegram
<1>2. /\ next \in HandlerRec /\ next.pc = "finish" /\ next.u = work[h].u
      /\ next.held = {} /\ next.new = {}
  BY DEF HandlerRec, AllSteps
<1> HIDE DEF next
<1>. QED BY <1>1, <1>2

(* A return leaves the poller at its offset, or the handler idle.          *)
LEMMA ReturnMoves ==
  ASSUME work \in [Handlers -> HandlerRec], NEW h \in Handlers, NEW ok \in BOOLEAN, Respond(h, ok)
  PROVE  /\ work' \in [Handlers -> HandlerRec] /\ \A k \in Handlers \ {h} : work'[k] = work[k]
         /\ \/ h = "poller" /\ ok /\ work'[h].pc = "offset" /\ work'[h].u = work[h].u
               /\ work'[h].held = work[h].held /\ work'[h].new = work[h].new
            \/ ~(h = "poller" /\ ok) /\ work'[h] = Idle
         /\ UNCHANGED <<update, offset>>
<1>1. Idle \in HandlerRec
  BY EmptySeq DEF Idle, HandlerRec, AllSteps, Working
<1>2. CASE h = "poller" /\ ok
  <2> DEFINE next == [work[h] EXCEPT !.pc = "offset"]
  <2>1. work' = [work EXCEPT ![h] = next] /\ UNCHANGED <<update, offset>>
    BY <1>2 DEF Respond
  <2>2. /\ next \in HandlerRec /\ next.pc = "offset" /\ next.u = work[h].u
        /\ next.held = work[h].held /\ next.new = work[h].new
    BY DEF HandlerRec, AllSteps
  <2> HIDE DEF next
  <2>. QED BY <1>2, <2>1, <2>2
<1>3. CASE ~(h = "poller" /\ ok)
  BY <1>1, <1>3 DEF Respond
<1>. QED BY <1>2, <1>3

(* A handler at a step that relies on nothing but its update.              *)
LEMMA PlainHandler ==
  ASSUME NEW h \in Handlers, work'[h].pc \in {"reply", "command", "finish", "send", "answer", "offset"},
         work'[h].u \in Updates', Settled(work[h].u)',
         work'[h].new \subseteq DOMAIN grant', work'[h].held \subseteq DOMAIN grant',
         \A g \in work'[h].held : grant'[g].status = "pending"
  PROVE  HandlerOK(h)'
  BY DEF HandlerOK, Pending

(* A handler that is idle owes nothing.                                    *)
LEMMA IdleHandler ==
  ASSUME NEW h \in Handlers, work'[h] = Idle PROVE HandlerOK(h)'
  BY DEF HandlerOK, Idle

(* A step that changes no button and leads to no operation.                *)
LEMMA QuietMove ==
  ASSUME HandlersInv, WorldGrows, UNCHANGED <<grant, calls>>, NEW h \in Handlers,
         work' \in [Handlers -> HandlerRec], \A k \in Handlers \ {h} : work'[k] = work[k],
         HandlerOK(h)', work'[h].held \subseteq work[h].held, work'[h].pc # "act"
  PROVE  HandlersInv'
<1>1. \A k \in Handlers : UseKept(k)
  BY DEF UseKept
<1>2. \A k \in Handlers \ {h} : work'[h].held \cap work[k].held = {}
  BY DEF HandlersInv, Apart
<1>. QED BY <1>1, <1>2, HandlerMoves

(* What a handler at work knows, and knows after the step as well.         *)
LEMMA HandlerKnows ==
  ASSUME HandlersInv, WorldGrows, NEW h \in Handlers
  PROVE  /\ HandlerOK(h) /\ work \in [Handlers -> HandlerRec] /\ work[h] \in HandlerRec
         /\ work[h].pc # "idle" => work[h].u \in Updates /\ work[h].u \in Updates'
         /\ work[h].new \subseteq DOMAIN grant /\ work[h].new \subseteq DOMAIN grant'
         /\ work[h].held \subseteq DOMAIN grant /\ work[h].held \subseteq DOMAIN grant'
         /\ \A g \in work[h].held : grant[g].status = "pending"
         /\ work[h].pc \notin {"idle", "claim"} =>
              /\ Settled(work[h].u)
              /\ update'[work[h].u].user \in Allowed => receipt'[work[h].u] # "none"
<1>1. HandlerOK(h) /\ work \in [Handlers -> HandlerRec] /\ work[h] \in HandlerRec
  BY DEF HandlersInv
<1>. QED BY <1>1 DEF HandlerOK, WorldGrows, Pending, Settled

(* Proceed, Fail and Respond, when the rows of the buttons do not change.  *)
LEMMA GotoPlain ==
  ASSUME HandlersInv, WorldGrows, UNCHANGED <<grant, calls>>, NEW h \in Handlers,
         work[h].pc \notin {"idle", "claim"},
         NEW pc \in {"reply", "command", "finish", "send", "answer", "offset"}, Proceed(h, pc)
  PROVE  HandlersInv'
<1>1. pc \in AllSteps /\ work \in [Handlers -> HandlerRec]
  BY HandlerKnows DEF AllSteps, Working
<1>2. /\ work' \in [Handlers -> HandlerRec] /\ \A k \in Handlers \ {h} : work'[k] = work[k]
      /\ work'[h].pc = pc /\ work'[h].u = work[h].u
      /\ work'[h].held = work[h].held /\ work'[h].new = work[h].new
  BY <1>1, GotoMoves
<1>3. HandlerOK(h)'
  <2>1. Settled(work[h].u)'
    BY <1>2, HandlerKnows DEF Settled
  <2>. QED BY <1>2, <2>1, HandlerKnows, PlainHandler
<1>. QED BY <1>2, <1>3, QuietMove

(* An error without a write keeps the handlers' invariant.                 *)
LEMMA FailPlain ==
  ASSUME HandlersInv, WorldGrows, UNCHANGED <<grant, calls>>, NEW h \in Handlers,
         work[h].pc \notin {"idle", "claim"}, Fail(h)
  PROVE  HandlersInv'
<1>1. /\ work' \in [Handlers -> HandlerRec] /\ \A k \in Handlers \ {h} : work'[k] = work[k]
      /\ work'[h].pc = "finish" /\ work'[h].u = work[h].u
      /\ work'[h].held = {} /\ work'[h].new = {}
  BY HandlerKnows, FailMoves
<1>2. HandlerOK(h)'
  <2>1. Settled(work[h].u)'
    BY <1>1, HandlerKnows DEF Settled
  <2>. QED BY <1>1, <2>1, HandlerKnows, PlainHandler
<1>. QED BY <1>1, <1>2, QuietMove

(* A return without a write keeps the handlers' invariant.                 *)
LEMMA ReturnPlain ==
  ASSUME HandlersInv, WorldGrows, UNCHANGED <<grant, calls>>, NEW h \in Handlers,
         work[h].pc # "idle", NEW ok \in BOOLEAN, Respond(h, ok),
         ok => (update'[work[h].u].user \in Allowed => receipt'[work[h].u] # "none")
  PROVE  HandlersInv'
<1>1. /\ work' \in [Handlers -> HandlerRec] /\ \A k \in Handlers \ {h} : work'[k] = work[k]
      /\ \/ ok /\ work'[h].pc = "offset" /\ work'[h].u = work[h].u
            /\ work'[h].held = work[h].held /\ work'[h].new = work[h].new
         \/ work'[h] = Idle
  BY HandlerKnows, ReturnMoves
<1>2. CASE work'[h] = Idle
  <2>1. HandlerOK(h)' /\ work'[h].held \subseteq work[h].held /\ work'[h].pc # "act"
    BY <1>2, IdleHandler DEF Idle
  <2>. QED BY <1>1, <2>1, QuietMove
<1>3. CASE /\ ok /\ work'[h].pc = "offset" /\ work'[h].u = work[h].u
           /\ work'[h].held = work[h].held /\ work'[h].new = work[h].new
  <2>1. Settled(work[h].u)'
    BY <1>3 DEF Settled
  <2>2. HandlerOK(h)'
    BY <1>3, <2>1, HandlerKnows, PlainHandler
  <2>. QED BY <1>1, <1>3, <2>2, QuietMove
<1>. QED BY <1>1, <1>2, <1>3

(* BeginUpdate: the update is claimed, or it was claimed before.           *)
LEMMA BeginMoves ==
  ASSUME RowsInv, HandlersInv, RowsGrow, NEW h \in Handlers, BeginUpdate(h)
  PROVE  HandlersInv'
<1> DEFINE u == work[h].u
           sent == update[u]
           next == [work[h] EXCEPT !.pc = FirstStep(sent.what),
                                   !.todo = IF sent.what = "ask" THEN <<"retry">> ELSE <<>>,
                                   !.res = IF sent.what = "press" THEN sent.button ELSE Task]
<1>0. WorldGrows /\ work[h].pc = "claim" /\ UNCHANGED <<grant, calls, plan>>
  BY DEF RowsGrow, BeginUpdate, owner
<1>1. u \in Updates /\ sent \in SentRec /\ sent.button \in Nat /\ sent.what \in Kinds
  <2>1. u \in Updates /\ sent \in SentRec /\ MaxGrants \in Nat
    BY <1>0, HandlerKnows, RowFacts, TelegramAssumption DEF RowsInv
  <2>. QED BY <2>1 DEF SentRec
<1>2. CASE ~Claimable(u)
  <2>1. Respond(h, TRUE) /\ UNCHANGED receipt
    BY <1>2 DEF BeginUpdate, RepeatIsFine
  <2>2. update'[u].user \in Allowed => receipt'[u] # "none"
    BY <1>2, <2>1 DEF Claimable
  <2>. QED BY <1>0, <2>1, <2>2, ReturnPlain
<1>3. CASE Claimable(u)
  <2>1. /\ receipt' = [receipt EXCEPT ![u] = "received"] /\ work' = [work EXCEPT ![h] = next]
        /\ UNCHANGED update
    BY <1>3 DEF BeginUpdate, telegram
  <2>2. receipt'[u] # "none"
    BY <1>1, <2>1, ReceiptWritten
  <2>3. <<"retry">> \in Seq(Buttons) /\ <<>> \in Seq(Buttons) /\ Task \in Nat
    BY EmptySeq DEF Buttons, Task
  <2>4. /\ next \in HandlerRec /\ next.u = u /\ next.held = work[h].held /\ next.new = work[h].new
        /\ next.pc = FirstStep(sent.what)
        /\ next.todo = IF sent.what = "ask" THEN <<"retry">> ELSE <<>>
        /\ next.res = IF sent.what = "press" THEN sent.button ELSE Task
    <3>1. FirstStep(sent.what) \in AllSteps
      BY DEF FirstStep, AllSteps, Working
    <3>2. work[h] \in HandlerRec
      BY <1>0, HandlerKnows
    <3>. QED BY <1>1, <2>3, <3>1, <3>2 DEF HandlerRec
  <2> HIDE DEF next
  <2>5. /\ work' \in [Handlers -> HandlerRec] /\ \A k \in Handlers \ {h} : work'[k] = work[k]
        /\ work'[h] = next
    BY <1>0, <2>1, <2>4, HandlerKnows
  <2>6. Settled(work[h].u)'
    BY <2>2, <2>4, <2>5 DEF Settled
  <2>7. HandlerOK(h)'
    <3>1. CASE sent.what \in {"plan", "read"}
      <4>1. work'[h].pc \in {"reply", "command"}
        BY <2>4, <2>5, <3>1 DEF FirstStep
      <4>. QED BY <1>0, <1>1, <2>4, <2>5, <2>6, <4>1, HandlerKnows, PlainHandler
    <3>2. CASE sent.what = "ask"
      <4>1. work'[h].pc = "target" /\ work'[h].todo = <<"retry">> /\ work'[h].res = Task
        BY <2>4, <2>5, <3>2 DEF FirstStep
      <4>2. <<"retry">> # <<>> /\ \A i \in DOMAIN <<"retry">> : <<"retry">>[i] = "retry"
        OBVIOUS
      <4>3. /\ work'[h].u \in Updates' /\ work'[h].held \subseteq DOMAIN grant'
            /\ work'[h].new \subseteq DOMAIN grant' /\ \A g \in work'[h].held : grant'[g].status = "pending"
        BY <1>0, <1>1, <2>4, <2>5, HandlerKnows
      <4>. QED BY <2>6, <4>1, <4>2, <4>3 DEF HandlerOK, Pending
    <3>3. CASE sent.what = "press"
      <4>1. work'[h].pc = "consume" /\ work'[h].res = sent.button
        BY <2>4, <2>5, <3>3 DEF FirstStep
      <4>2. sent.button \in DOMAIN grant
        BY <1>1, <3>3 DEF RowsInv, RowReferences
      <4>3. /\ work'[h].u \in Updates' /\ work'[h].held \subseteq DOMAIN grant'
            /\ work'[h].new \subseteq DOMAIN grant' /\ \A g \in work'[h].held : grant'[g].status = "pending"
        BY <1>0, <1>1, <2>4, <2>5, HandlerKnows
      <4>4. update'[work'[h].u].button = work'[h].res
        BY <2>1, <2>4, <2>5, <4>1
      <4>. QED BY <1>0, <2>6, <4>1, <4>2, <4>3, <4>4 DEF HandlerOK, Pending
    <3>. QED BY <1>1, <3>1, <3>2, <3>3 DEF Kinds
  <2>8. work'[h].pc # "act" /\ work'[h].held \subseteq work[h].held
    BY <2>4, <2>5 DEF FirstStep
  <2>. QED BY <1>0, <2>5, <2>7, <2>8, QuietMove
<1>. QED BY <1>2, <1>3

(* CheckTarget and CreateCommand go on with what they found. *)
LEMMA TargetMoves ==
  ASSUME HandlersInv, RowsGrow, NEW h \in Handlers, CheckTarget(h)
  PROVE  HandlersInv'
<1>0. WorldGrows /\ work[h].pc = "target" /\ UNCHANGED <<grant, calls, plan>>
  BY DEF RowsGrow, CheckTarget, owner
<1>1. CASE Fail(h)
  BY <1>0, <1>1, FailPlain
<1>2. CASE Proceed(h, "cancel")
  <2>1. /\ work' \in [Handlers -> HandlerRec] /\ \A k \in Handlers \ {h} : work'[k] = work[k]
        /\ work'[h].pc = "cancel" /\ work'[h].u = work[h].u /\ work'[h].todo = work[h].todo
        /\ work'[h].res = work[h].res /\ work'[h].held = work[h].held /\ work'[h].new = work[h].new
    BY <1>0, <1>2, HandlerKnows, GotoMoves DEF AllSteps, Working
  <2>2. HandlerOK(h)'
    <3>1. Settled(work[h].u)'
      BY <1>0, <2>1, HandlerKnows DEF Settled
    <3>2. /\ work[h].todo # <<>> /\ work[h].res \in DOMAIN plan \cup {Task}
          /\ \A i \in DOMAIN work[h].todo :
               work[h].todo[i] \in {"approve", "reject"} => work[h].res \in DOMAIN plan
      BY <1>0, HandlerKnows DEF HandlerOK
    <3>3. /\ work'[h].u \in Updates' /\ work'[h].held \subseteq DOMAIN grant'
          /\ work'[h].new \subseteq DOMAIN grant' /\ \A g \in work'[h].held : grant'[g].status = "pending"
      BY <1>0, <2>1, HandlerKnows
    <3>. QED BY <1>0, <2>1, <3>1, <3>2, <3>3 DEF HandlerOK, Pending
  <2>. QED BY <1>0, <2>1, <2>2, QuietMove
<1>. QED BY <1>1, <1>2 DEF CheckTarget

(* The command of a message is created or found, and belongs to this       *)
(* handler's update.                                                       *)
LEMMA CommandMoves ==
  ASSUME RowsInv, HandlersInv, RowsGrow, NEW h \in Handlers, CreateCommand(h)
  PROVE  HandlersInv'
<1>0. WorldGrows /\ work[h].pc = "command" /\ UNCHANGED <<grant, calls, plan>> /\ Proceed(h, "plan")
  BY DEF RowsGrow, CreateCommand
<1>1. \E c \in DOMAIN command' : command'[c] = work[h].u
  BY <1>0, HandlerKnows, CommandRows
<1>2. /\ work' \in [Handlers -> HandlerRec] /\ \A k \in Handlers \ {h} : work'[k] = work[k]
      /\ work'[h].pc = "plan" /\ work'[h].u = work[h].u
      /\ work'[h].held = work[h].held /\ work'[h].new = work[h].new
  BY <1>0, HandlerKnows, GotoMoves DEF AllSteps, Working
<1>3. HandlerOK(h)'
  <2>1. Settled(work[h].u)'
    BY <1>0, <1>2, HandlerKnows DEF Settled
  <2>2. WithKey(work[h].u)' # {}
    BY <1>1, <1>2 DEF WithKey
  <2>3. /\ work'[h].u \in Updates' /\ work'[h].held \subseteq DOMAIN grant'
        /\ work'[h].new \subseteq DOMAIN grant' /\ \A g \in work'[h].held : grant'[g].status = "pending"
    BY <1>0, <1>2, HandlerKnows
  <2>. QED BY <1>2, <2>1, <2>2, <2>3 DEF HandlerOK, Pending
<1>. QED BY <1>0, <1>2, <1>3, QuietMove

(* CreatePlan: the buttons of the plan are next. *)
LEMMA PlanReplies ==
  ASSUME RowsInv, HandlersInv, RowsGrow, NEW h \in Handlers, CreatePlan(h)
  PROVE  HandlersInv'
<1>0. WorldGrows /\ work[h].pc = "plan" /\ WithKey(work[h].u) # {}
  BY DEF RowsGrow, CreatePlan, HandlersInv, HandlerOK
<1>1. UNCHANGED <<grant, calls>>
  BY <1>0, PlanRows
<1>2. PICK p \in DOMAIN plan' :
        work' = [work EXCEPT ![h] = [@ EXCEPT !.pc = "cancel", !.todo = PlanButtons, !.res = p]]
  BY <1>0, PlanRows
<1>3. p \in Nat
  BY RowFacts DEF RowsGrow, RowsInv, RowTypes
<1>4. /\ PlanButtons \in Seq(Buttons) /\ PlanButtons # <<>>
  <2>1. /\ PlanButtons \in Seq({"approve", "reject", "show_tasks", "change"}) /\ PlanButtons # <<>>
    BY TelegramAssumption
  <2>2. {"approve", "reject", "show_tasks", "change"} \subseteq Buttons
    BY DEF Buttons
  <2>. QED BY <2>1, <2>2, SeqMonotonic
<1> DEFINE next == [work[h] EXCEPT !.pc = "cancel", !.todo = PlanButtons, !.res = p]
<1>5. /\ next \in HandlerRec /\ next.pc = "cancel" /\ next.u = work[h].u /\ next.todo = PlanButtons
      /\ next.res = p /\ next.held = work[h].held /\ next.new = work[h].new
      /\ work' = [work EXCEPT ![h] = next]
  <2>1. work[h] \in HandlerRec /\ "cancel" \in AllSteps
    BY <1>0, HandlerKnows DEF AllSteps, Working
  <2>. QED BY <1>2, <1>3, <1>4, <2>1 DEF HandlerRec
<1> HIDE DEF next
<1>6. /\ work' \in [Handlers -> HandlerRec] /\ \A k \in Handlers \ {h} : work'[k] = work[k]
      /\ work'[h] = next
  BY <1>0, <1>5, HandlerKnows
<1>7. HandlerOK(h)'
  <2>1. Settled(work[h].u)'
    BY <1>0, <1>5, <1>6, HandlerKnows DEF Settled
  <2>2. /\ work'[h].u \in Updates' /\ work'[h].held \subseteq DOMAIN grant'
        /\ work'[h].new \subseteq DOMAIN grant' /\ \A g \in work'[h].held : grant'[g].status = "pending"
    BY <1>0, <1>1, <1>5, <1>6, HandlerKnows
  <2>. QED BY <1>4, <1>5, <1>6, <2>1, <2>2 DEF HandlerOK, Pending
<1>. QED BY <1>0, <1>1, <1>5, <1>6, <1>7, QuietMove

(* SaveCallback: the pending buttons it locks are nobody else's.           *)
LEMMA CancelMoves ==
  ASSUME HandlersInv, RowsGrow, NEW h \in Handlers, SaveCancel(h)
  PROVE  HandlersInv'
<1> DEFINE old == {g \in DOMAIN grant : Pending(g) /\ SameButton(h, g)}
           next == [work[h] EXCEPT !.held = old, !.pc = "insert"]
<1>0. /\ WorldGrows /\ work[h].pc = "cancel" /\ UNCHANGED <<grant, calls, plan>>
      /\ old \cap Held = {} /\ work' = [work EXCEPT ![h] = next]
  BY DEF RowsGrow, SaveCancel, owner
<1>1. old \in SUBSET Nat /\ old \subseteq DOMAIN grant /\ \A g \in old : grant[g].status = "pending"
  <2>1. grant' \in Seq(GrantRec) /\ grant' = grant
    BY <1>0 DEF RowsGrow, RowsInv, RowTypes
  <2>2. DOMAIN grant \subseteq Nat
    BY <2>1, SeqFacts
  <2>. QED BY <2>2 DEF Pending
<1> HIDE DEF old
<1>2. /\ next \in HandlerRec /\ next.pc = "insert" /\ next.u = work[h].u /\ next.todo = work[h].todo
      /\ next.res = work[h].res /\ next.held = old /\ next.new = work[h].new
  <2>1. work[h] \in HandlerRec /\ "insert" \in AllSteps
    BY <1>0, HandlerKnows DEF AllSteps, Working
  <2>. QED BY <1>1, <2>1 DEF HandlerRec
<1> HIDE DEF next
<1>3. /\ work' \in [Handlers -> HandlerRec] /\ \A k \in Handlers \ {h} : work'[k] = work[k]
      /\ work'[h] = next
  BY <1>0, <1>2, HandlerKnows
<1>4. HandlerOK(h)'
  <2>1. Settled(work[h].u)'
    BY <1>0, <1>2, <1>3, HandlerKnows DEF Settled
  <2>2. /\ work[h].todo # <<>> /\ work[h].res \in DOMAIN plan \cup {Task}
        /\ \A i \in DOMAIN work[h].todo :
             work[h].todo[i] \in {"approve", "reject"} => work[h].res \in DOMAIN plan
    BY <1>0, HandlerKnows DEF HandlerOK
  <2>3. work'[h].u \in Updates' /\ work'[h].new \subseteq DOMAIN grant'
    BY <1>0, <1>2, <1>3, HandlerKnows
  <2>. QED BY <1>0, <1>1, <1>2, <1>3, <2>1, <2>2, <2>3 DEF HandlerOK, Pending
<1>5. \A k \in Handlers \ {h} : work'[h].held \cap work[k].held = {}
  BY <1>0, <1>2, <1>3 DEF Held
<1>6. \A k \in Handlers : UseKept(k)
  BY <1>0 DEF UseKept
<1>. QED BY <1>0, <1>2, <1>3, <1>4, <1>5, <1>6, HandlerMoves

(* What is left of a sequence. *)
LEMMA TailElements ==
  ASSUME NEW S, NEW s \in Seq(S), s # <<>>
  PROVE  /\ Tail(s) \in Seq(S) /\ (Len(s) > 1 => Tail(s) # <<>>)
         /\ \A i \in DOMAIN Tail(s) : i + 1 \in DOMAIN s /\ Tail(s)[i] = s[i + 1]
<1> DEFINE t == Tail(s)
<1>1. t \in Seq(S) /\ Len(t) = Len(s) - 1 /\ \A i \in 1..Len(t) : t[i] = s[i + 1]
  BY HeadTailProperties
<1>2. DOMAIN s = 1..Len(s) /\ Len(s) \in Nat
  BY LenProperties
<1> HIDE DEF t
<1>3. DOMAIN t = 1..Len(t) /\ Len(t) \in Nat
  BY <1>1, LenProperties
<1>4. t = <<>> => Len(t) = 0
  BY EmptySeq
<1>5. Len(s) > 1 => t # <<>>
  BY <1>1, <1>2, <1>3, <1>4
<1>6. \A i \in DOMAIN t : i + 1 \in DOMAIN s /\ t[i] = s[i + 1]
  BY <1>1, <1>2, <1>3
<1>. QED BY <1>1, <1>5, <1>6 DEF t

(* A new button is for the user of the update it answers.                  *)
LEMMA InsertMoves ==
  ASSUME RowsInv, HandlersInv, RowsGrow, NEW h \in Handlers, SaveInsert(h)
  PROVE  HandlersInv'
<1> DEFINE w == work[h]
           goal == IF Len(w.todo) > 1 THEN "cancel" ELSE "finish"
           rest == Tail(w.todo)
           more == w.new \cup {Len(grant) + 1}
           next == [w EXCEPT !.pc = goal, !.todo = rest, !.held = {}, !.new = more]
<1>0. WorldGrows /\ w.pc = "insert" /\ work' = [work EXCEPT ![h] = next]
  BY DEF RowsGrow, SaveInsert
<1>1. /\ UNCHANGED <<update, plan>> /\ DOMAIN grant' = DOMAIN grant \cup {Len(grant) + 1}
      /\ \A g \in DOMAIN grant \ work[h].held : grant'[g] = grant[g]
      /\ \A g \in DOMAIN grant : calls'[g] = calls[g]
  BY InsertRows
<1>2. /\ w \in HandlerRec /\ w.todo \in Seq(Buttons) /\ w.todo # <<>>
      /\ w.res \in DOMAIN plan \cup {Task}
      /\ \A i \in DOMAIN w.todo : w.todo[i] \in {"approve", "reject"} => w.res \in DOMAIN plan
  BY <1>0, HandlerKnows DEF HandlerOK, HandlerRec
<1>3. /\ Tail(w.todo) \in Seq(Buttons) /\ (Len(w.todo) > 1 => Tail(w.todo) # <<>>)
      /\ \A i \in DOMAIN Tail(w.todo) : Tail(w.todo)[i] \in {"approve", "reject"} => w.res \in DOMAIN plan
  <2>1. /\ Tail(w.todo) \in Seq(Buttons) /\ (Len(w.todo) > 1 => Tail(w.todo) # <<>>)
        /\ \A i \in DOMAIN Tail(w.todo) : i + 1 \in DOMAIN w.todo /\ Tail(w.todo)[i] = w.todo[i + 1]
    BY <1>2, TailElements
  <2>. QED BY <1>2, <2>1
<1>4. /\ next \in HandlerRec /\ next.pc = (IF Len(w.todo) > 1 THEN "cancel" ELSE "finish")
      /\ next.u = w.u /\ next.todo = Tail(w.todo) /\ next.res = w.res /\ next.held = {}
      /\ next.new = w.new \cup {Len(grant) + 1}
  <2>1. goal \in AllSteps
    BY DEF AllSteps, Working
  <2>2. Len(grant) + 1 \in Nat
    BY RowFacts DEF RowsInv
  <2>3. more \in SUBSET Nat
    BY <1>2, <2>2 DEF HandlerRec
  <2>4. rest \in Seq(Buttons)
    BY <1>3
  <2>5. goal = (IF Len(w.todo) > 1 THEN "cancel" ELSE "finish") /\ rest = Tail(w.todo)
        /\ more = w.new \cup {Len(grant) + 1}
    OBVIOUS
  <2> HIDE DEF goal, rest, more
  <2>. QED BY <1>2, <2>1, <2>3, <2>4, <2>5 DEF HandlerRec
<1> HIDE DEF next
<1>5. /\ work' \in [Handlers -> HandlerRec] /\ \A k \in Handlers \ {h} : work'[k] = work[k]
      /\ work'[h] = next
  BY <1>0, <1>4, HandlerKnows
<1>6. HandlerOK(h)'
  <2>1. Settled(work[h].u)'
    BY <1>0, <1>4, <1>5, HandlerKnows DEF Settled
  <2>2. work'[h].u \in Updates' /\ work'[h].new \subseteq DOMAIN grant'
    BY <1>0, <1>1, <1>4, <1>5, HandlerKnows
  <2>3. CASE work'[h].pc = "finish"
    BY <1>4, <1>5, <2>1, <2>2, <2>3, PlainHandler
  <2>4. CASE work'[h].pc = "cancel" /\ Len(w.todo) > 1
    <3>1. /\ work'[h].todo # <<>> /\ work'[h].res \in DOMAIN plan' \cup {Task}
          /\ \A i \in DOMAIN work'[h].todo :
               work'[h].todo[i] \in {"approve", "reject"} => work'[h].res \in DOMAIN plan'
      <4>1. work'[h].todo = Tail(w.todo) /\ work'[h].res = w.res /\ plan' = plan
        BY <1>1, <1>4, <1>5
      <4>. QED BY <1>2, <1>3, <2>4, <4>1
    <3>2. work'[h].held = {}
      BY <1>4, <1>5
    <3>. QED BY <2>1, <2>2, <2>4, <3>1, <3>2 DEF HandlerOK, Pending
  <2>. QED BY <1>4, <1>5, <2>3, <2>4
<1>7. ASSUME NEW k \in Handlers \ {h} PROVE UseKept(k)
  <2>1. /\ work[k].held \subseteq DOMAIN grant /\ work[k].held \cap w.held = {}
        /\ work[k].pc = "act" => work[k].res \in DOMAIN grant /\ grant[work[k].res].status = "consumed"
    BY DEF HandlersInv, HandlerOK, Apart
  <2>2. \A g \in w.held : grant[g].status = "pending"
    BY <1>0, HandlerKnows
  <2>. QED BY <1>1, <2>1, <2>2 DEF UseKept
<1>. QED BY <1>0, <1>4, <1>5, <1>6, <1>7, HandlerMoves

(* ConsumeCallback: whoever consumes the button is the only one to act.    *)
LEMMA ConsumeMoves ==
  ASSUME RowsInv, HandlersInv, RowsGrow, NEW h \in Handlers, ConsumeCallback(h)
  PROVE  HandlersInv'
<1> DEFINE g == work[h].res
<1>0. /\ WorldGrows /\ work[h].pc = "consume" /\ g \notin Held /\ work[h].u \in Updates
      /\ g \in DOMAIN grant /\ update[work[h].u].button = g
  BY DEF RowsGrow, ConsumeCallback, HandlersInv, HandlerOK
<1>1. /\ UNCHANGED <<update, plan, calls>> /\ DOMAIN grant' = DOMAIN grant
      /\ \A b \in DOMAIN grant : b # g \/ ~Pending(b) => grant'[b] = grant[b]
  BY ConsumeRows
<1>2. ASSUME NEW k \in Handlers PROVE UseKept(k)
  <2>1. /\ work[k].held \subseteq DOMAIN grant /\ g \notin work[k].held
        /\ work[k].pc = "act" => work[k].res \in DOMAIN grant /\ ~Pending(work[k].res)
    BY <1>0 DEF HandlersInv, HandlerOK, Held, Pending
  <2>. QED BY <1>1, <2>1 DEF UseKept
<1>3. CASE Fail(h)
  <2>1. /\ work' \in [Handlers -> HandlerRec] /\ \A k \in Handlers \ {h} : work'[k] = work[k]
        /\ work'[h].pc = "finish" /\ work'[h].u = work[h].u
        /\ work'[h].held = {} /\ work'[h].new = {}
    BY <1>0, <1>3, HandlerKnows, FailMoves
  <2>2. HandlerOK(h)'
    <3>1. Settled(work[h].u)'
      BY <1>0, <2>1, HandlerKnows DEF Settled
    <3>. QED BY <1>0, <2>1, <3>1, HandlerKnows, PlainHandler
  <2>. QED BY <1>0, <1>2, <2>1, <2>2, HandlerMoves
<1>4. CASE /\ Usable(g, update[work[h].u].user) /\ Proceed(h, "act")
           /\ grant' = [grant EXCEPT ![g].status = "consumed"]
  <2>1. /\ work' \in [Handlers -> HandlerRec] /\ \A k \in Handlers \ {h} : work'[k] = work[k]
        /\ work'[h].pc = "act" /\ work'[h].u = work[h].u /\ work'[h].res = g
        /\ work'[h].held = work[h].held /\ work'[h].new = work[h].new
    BY <1>0, <1>4, HandlerKnows, GotoMoves DEF AllSteps, Working
  <2>2. grant'[g].status = "consumed" /\ grant'[g].user = update[work[h].u].user
    <3>1. grant[g] \in GrantRec /\ DOMAIN grant = 1..Len(grant)
      BY <1>0, RowFacts DEF RowsInv
    <3>. QED BY <1>0, <1>4, <3>1 DEF Usable, GrantRec
  <2>3. calls[g] = 0
    <3>1. calls[g] \in Nat /\ ~(calls[g] > 0)
      BY <1>0, <1>4, RowFacts DEF RowsInv, ButtonActsOnce, Usable, Pending
    <3>. QED BY <3>1
  <2>4. HandlerOK(h)'
    <3>1. Settled(work[h].u)'
      BY <1>0, <2>1, HandlerKnows DEF Settled
    <3>2. /\ work'[h].held \subseteq DOMAIN grant /\ work'[h].new \subseteq DOMAIN grant
          /\ \A b \in work'[h].held : grant'[b].status = "pending"
      BY <1>0, <1>2, <2>1, HandlerKnows DEF UseKept
    <3>. QED BY <1>0, <1>1, <2>1, <2>2, <2>3, <3>1, <3>2 DEF HandlerOK, Pending, Updates
  <2>5. \A k \in Handlers \ {h} : /\ work'[h].held \cap work[k].held = {}
                                  /\ work[k].pc = "act" => g # work[k].res
    BY <1>4, <2>1 DEF HandlersInv, Apart, HandlerOK, Usable, Pending
  <2>. QED BY <1>0, <1>2, <2>1, <2>4, <2>5, HandlerMoves
<1>. QED BY <1>3, <1>4 DEF ConsumeCallback

(* The operation is called; nobody else was about to call it.              *)
LEMMA ActMoves ==
  ASSUME RowsInv, HandlersInv, RowsGrow, NEW h \in Handlers, Act(h)
  PROVE  HandlersInv'
<1>0. WorldGrows /\ work[h].pc = "act" /\ (Proceed(h, "finish") \/ Fail(h))
  BY DEF RowsGrow, Act
<1>1. UNCHANGED <<update, grant>> /\ \A g \in DOMAIN grant : g # work[h].res => calls'[g] = calls[g]
  BY ActRows
<1>2. ASSUME NEW k \in Handlers \ {h} PROVE UseKept(k)
  <2>1. work[k].pc = "act" => work[k].res \in DOMAIN grant /\ work[k].res # work[h].res
    BY <1>0 DEF HandlersInv, HandlerOK, Apart
  <2>. QED BY <1>1, <2>1 DEF UseKept
<1>3. /\ work' \in [Handlers -> HandlerRec] /\ \A k \in Handlers \ {h} : work'[k] = work[k]
      /\ work'[h].pc = "finish" /\ work'[h].u = work[h].u
      /\ work'[h].held \subseteq work[h].held /\ work'[h].new \subseteq work[h].new
  <2>1. CASE Proceed(h, "finish")
    BY <1>0, <2>1, HandlerKnows, GotoMoves DEF AllSteps
  <2>2. CASE Fail(h)
    BY <1>0, <2>2, HandlerKnows, FailMoves
  <2>. QED BY <1>0, <2>1, <2>2
<1>4. HandlerOK(h)'
  <2>1. Settled(work[h].u)'
    BY <1>0, <1>3, HandlerKnows DEF Settled
  <2>. QED BY <1>0, <1>1, <1>3, <2>1, HandlerKnows, PlainHandler
<1>5. \A k \in Handlers \ {h} : work'[h].held \cap work[k].held = {}
  BY <1>3 DEF HandlersInv, Apart
<1>. QED BY <1>0, <1>2, <1>3, <1>4, <1>5, HandlerMoves

(* Every statement of a handler keeps the handlers' invariant.             *)
LEMMA StepHandlers ==
  ASSUME RowsInv, HandlersInv, RowsGrow, NEW h \in Handlers,
         Step(h) \/ OperationFails(h) \/ HandleFails(h) \/ SendFails(h)
  PROVE  HandlersInv'
<1>0. WorldGrows /\ HandlerOK(h)
  BY DEF RowsGrow, HandlersInv
<1>1. CASE Refuse(h)
  <2>1. /\ work[h].pc = "claim" /\ Respond(h, TRUE) /\ UNCHANGED <<grant, calls>>
        /\ update[work[h].u].user \notin Allowed
    BY <1>1 DEF Refuse, MaySpeak, owner
  <2>2. update' = update
    BY <2>1 DEF Respond
  <2>. QED BY <1>0, <2>1, <2>2, ReturnPlain
<1>2. CASE BeginUpdate(h)
  BY <1>2, BeginMoves
<1>3. CASE Reply(h)
  <2>1. work[h].pc = "reply" /\ (Proceed(h, "finish") \/ Fail(h)) /\ UNCHANGED <<grant, calls>>
    BY <1>3 DEF Reply, owner
  <2>. QED BY <1>0, <2>1, GotoPlain, FailPlain
<1>4. CASE CheckTarget(h)
  BY <1>4, TargetMoves
<1>5. CASE CreateCommand(h)
  BY <1>5, CommandMoves
<1>6. CASE CreatePlan(h)
  BY <1>6, PlanReplies
<1>7. CASE SaveCancel(h)
  BY <1>7, CancelMoves
<1>8. CASE SaveInsert(h)
  BY <1>8, InsertMoves
<1>9. CASE ConsumeCallback(h)
  BY <1>9, ConsumeMoves
<1>10. CASE Act(h)
  BY <1>10, ActMoves
<1>11. CASE FinishUpdate(h)
  <2>1. work[h].pc = "finish" /\ Proceed(h, "send") /\ UNCHANGED <<grant, calls>>
    BY <1>11 DEF FinishUpdate, owner
  <2>. QED BY <1>0, <2>1, GotoPlain
<1>12. CASE SendMessage(h) \/ AnswerCallback(h)
  <2>1. /\ work[h].pc \in {"send", "answer"} /\ UNCHANGED <<grant, calls>>
        /\ Proceed(h, "answer") \/ Respond(h, TRUE)
    BY <1>12 DEF SendMessage, AnswerCallback, owner
  <2>2. update'[work[h].u].user \in Allowed => receipt'[work[h].u] # "none"
    BY <1>0, <2>1, HandlerKnows
  <2>. QED BY <1>0, <2>1, <2>2, GotoPlain, ReturnPlain
<1>13. CASE OperationFails(h)
  <2>1. work[h].pc \notin {"idle", "claim"} /\ Fail(h) /\ UNCHANGED <<grant, calls>>
    BY <1>13 DEF OperationFails, owner, Working
  <2>. QED BY <1>0, <2>1, FailPlain
<1>14. CASE HandleFails(h) \/ SendFails(h)
  <2>1. work[h].pc # "idle" /\ Respond(h, FALSE) /\ UNCHANGED <<grant, calls>>
    BY <1>14 DEF HandleFails, SendFails, owner
  <2>. QED BY <1>0, <2>1, ReturnPlain
<1>. QED BY <1>1, <1>2, <1>3, <1>4, <1>5, <1>6, <1>7, <1>8, <1>9, <1>10, <1>11, <1>12, <1>13, <1>14 DEF Step

(* A handler is given an update, or is forgotten.                          *)
LEMMA TakenHandler ==
  ASSUME HandlersInv, WorldGrows, UNCHANGED <<grant, calls>>, NEW h \in Handlers, NEW u \in Updates,
         work' = [work EXCEPT ![h] = [Idle EXCEPT !.pc = "claim", !.u = u]], u \in Nat
  PROVE  HandlersInv'
<1> DEFINE next == [Idle EXCEPT !.pc = "claim", !.u = u]
<1>1. /\ next \in HandlerRec /\ next.pc = "claim" /\ next.u = u /\ next.held = {} /\ next.new = {}
  BY EmptySeq DEF Idle, HandlerRec, AllSteps, Working
<1> HIDE DEF next
<1>2. /\ work' \in [Handlers -> HandlerRec] /\ \A k \in Handlers \ {h} : work'[k] = work[k]
      /\ work'[h] = next
  BY <1>1, HandlerKnows DEF next
<1>3. HandlerOK(h)'
  BY <1>1, <1>2 DEF HandlerOK, WorldGrows
<1>. QED BY <1>1, <1>2, <1>3, QuietMove

(* A step that writes no table and at most ends handlers keeps it too.     *)
LEMMA HandlersRest ==
  ASSUME HandlersInv, WorldGrows, UNCHANGED <<grant, calls>>, work' \in [Handlers -> HandlerRec],
         \A h \in Handlers : work'[h] = work[h] \/ work'[h] = Idle
  PROVE  HandlersInv'
<1>1. ASSUME NEW h \in Handlers PROVE HandlerOK(h)'
  <2>1. UseKept(h) /\ HandlerOK(h)
    BY DEF UseKept, HandlersInv
  <2>. QED BY <2>1, HandlerStays, IdleHandler
<1>2. Idle.held = {} /\ Idle.pc # "act"
  BY DEF Idle
<1>3. Apart'
  BY <1>2 DEF HandlersInv, Apart
<1>. QED BY <1>1, <1>3 DEF HandlersInv

(* So does every step.                                                     *)
LEMMA HandlersStep == ASSUME OwnerInv, [TelegramNext]_telegramVars, RowsGrow PROVE HandlersInv'
<1>0. /\ RowsInv /\ HandlersInv /\ WorldGrows /\ work \in [Handlers -> HandlerRec]
      /\ Updates \subseteq Nat /\ queue \subseteq Updates /\ poll.batch \subseteq Updates
  BY RowFacts DEF OwnerInv, RowsInv, RowsGrow, HandlersInv, PollerInv
<1>1. ASSUME UNCHANGED <<grant, calls, work>> PROVE HandlersInv'
  BY <1>0, <1>1, HandlersRest
<1>2. CASE UNCHANGED telegramVars
  BY <1>1, <1>2 DEF telegramVars, owner
<1>3. ASSUME NEW usr \in Users, NEW what \in {"plan", "ask", "read", "press"}, NEW b \in 0..MaxGrants,
             Send(usr, what, b)
      PROVE  HandlersInv'
  BY <1>1, <1>3 DEF Send, owner
<1>4. ASSUME NEW p \in DOMAIN plan, Web(p) PROVE HandlersInv'
  BY <1>1, <1>4 DEF Web
<1>5. ASSUME NEW h \in Hooks, NEW u \in queue, Deliver(h, u) PROVE HandlersInv'
  <2>1. /\ UNCHANGED <<grant, calls>> /\ h \in Handlers /\ u \in Updates
        /\ work' = [work EXCEPT ![h] = [Idle EXCEPT !.pc = "claim", !.u = u]]
    BY <1>0, <1>5 DEF Deliver, owner, Handlers
  <2>. QED BY <1>0, <2>1, TakenHandler
<1>6. CASE PollerStart \/ GetUpdates
  BY <1>1, <1>6 DEF PollerStart, GetUpdates, owner
<1>7. CASE PollerTake
  <2>1. PICK u \in poll.batch :
          \/ work' = work
          \/ work' = [work EXCEPT !["poller"] = [Idle EXCEPT !.pc = "claim", !.u = u]]
    BY <1>7 DEF PollerTake, First
  <2>2. UNCHANGED <<grant, calls>> /\ "poller" \in Handlers /\ u \in Updates
    BY <1>0, <1>7 DEF PollerTake, owner, Handlers
  <2>. QED BY <1>0, <1>1, <2>1, <2>2, TakenHandler
<1>8. CASE SavePollOffset
  <2>1. UNCHANGED <<grant, calls>> /\ work' = [work EXCEPT !["poller"] = Idle]
    BY <1>8 DEF SavePollOffset, owner
  <2>2. Idle \in HandlerRec
    BY EmptySeq DEF Idle, HandlerRec, AllSteps, Working
  <2>. QED BY <1>0, <2>1, <2>2, HandlersRest
<1>9. ASSUME NEW h \in Handlers, Step(h) \/ OperationFails(h) \/ HandleFails(h) \/ SendFails(h)
      PROVE  HandlersInv'
  BY <1>0, <1>9, StepHandlers
<1>10. ASSUME NEW process, Crash(process) PROVE HandlersInv'
  <2>1. UNCHANGED <<grant, calls>>
        /\ work' = [h \in Handlers |-> IF h \in process THEN Idle ELSE work[h]]
    BY <1>10 DEF Crash, owner
  <2>2. Idle \in HandlerRec
    BY EmptySeq DEF Idle, HandlerRec, AllSteps, Working
  <2>. QED BY <1>0, <2>1, <2>2, HandlersRest
<1>. QED BY <1>2, <1>3, <1>4, <1>5, <1>6, <1>7, <1>8, <1>9, <1>10 DEF TelegramNext, Polling

-----------------------------------------------------------------------------
(* Telegram may forget an update that somebody has claimed; whatever else  *)
(* handlers do, the poller's place in its batch is the same.               *)
LEMMA PlaceKept ==
  ASSUME RowTypes, RowTypes', PollerInv, WorldGrows, UNCHANGED <<update, offset, poll>>,
         work'["poller"].u = work["poller"].u,
         work'["poller"].pc = "idle" <=> work["poller"].pc = "idle",
         queue' \subseteq queue, \A u \in queue \ queue' : Settled(u)'
  PROVE  PollerInv'
<1>1. \A u \in Updates : Settled(u) => Settled(u)'
  BY Growing
<1>2. Updates' = Updates
  BY DEF Updates
<1>3. InBatchOrder'
  BY <1>1, <1>2 DEF PollerInv, InBatchOrder
<1>4. /\ \A u \in Updates : u \notin queue' => Settled(u)'
      /\ \A u \in Updates : u < offset => Settled(u)'
  BY <1>1 DEF PollerInv
<1>. QED BY <1>2, <1>3, <1>4 DEF PollerInv

(* The poller goes down with what it holds. *)
LEMMA PollerDown ==
  ASSUME PollerInv, WorldGrows, UNCHANGED <<update, queue, offset>>,
         poll' = [poll EXCEPT !.up = FALSE, !.batch = {}], work'["poller"] = Idle
  PROVE  PollerInv'
<1>1. \A u \in Updates : Settled(u) => Settled(u)'
  BY Growing
<1>2. Updates' = Updates
  BY DEF Updates
<1>3. poll' \in PollRec /\ poll'.up = FALSE /\ poll'.batch = {} /\ poll'.next = poll.next
  BY DEF PollerInv, PollRec
<1>4. work'["poller"].pc = "idle" /\ work'["poller"].u = 0
  BY DEF Idle
<1>5. \A v \in Updates : ~(v < 0)
  BY LenProperties DEF PollerInv, Updates
<1>6. InBatchOrder'
  BY <1>2, <1>3, <1>4, <1>5 DEF InBatchOrder
<1>. QED BY <1>1, <1>2, <1>3, <1>4, <1>6 DEF PollerInv

(* What one step of Handle does to its update and to the queue.            *)
LEMMA StepKeepsUpdate ==
  ASSUME RowsInv, HandlersInv, RowsGrow, NEW h \in Handlers,
         Step(h) \/ OperationFails(h) \/ HandleFails(h) \/ SendFails(h)
  PROVE  /\ \A k \in Handlers \ {h} : work'[k] = work[k]
         /\ UNCHANGED <<update, offset>> /\ work[h].pc # "idle" /\ work[h].u \in Updates
         /\ \/ UNCHANGED <<queue, poll>> /\ work'[h].u = work[h].u /\ work'[h].pc # "idle"
            \/ \E ok \in BOOLEAN :
                 Respond(h, ok) /\ (ok => (update'[work[h].u].user \in Allowed => receipt'[work[h].u] # "none"))
<1>0. WorldGrows /\ work \in [Handlers -> HandlerRec] /\ work[h] \in HandlerRec
      /\ (work[h].pc # "idle" => work[h].u \in Updates)
  BY HandlerKnows DEF RowsGrow
<1> DEFINE inner == /\ \A k \in Handlers \ {h} : work'[k] = work[k]
                    /\ UNCHANGED <<update, offset, queue, poll>>
                    /\ work'[h].u = work[h].u /\ work'[h].pc # "idle"
           returns(ok) == /\ Respond(h, ok)
                          /\ ok => (update'[work[h].u].user \in Allowed => receipt'[work[h].u] # "none")
<1>1. ASSUME NEW pc \in AllSteps \ {"idle"}, Proceed(h, pc) PROVE inner
  BY <1>0, <1>1, GotoMoves
<1>2. ASSUME Fail(h) PROVE inner
  BY <1>0, <1>2, FailMoves
<1>3. ASSUME NEW ok \in BOOLEAN, Respond(h, ok)
      PROVE  (\A k \in Handlers \ {h} : work'[k] = work[k]) /\ UNCHANGED <<update, offset>>
  BY <1>0, <1>3, ReturnMoves
<1> SUFFICES work[h].pc # "idle" /\ (inner \/ \E ok \in BOOLEAN : returns(ok))
  <2>1. ASSUME NEW ok \in BOOLEAN, returns(ok)
        PROVE  (\A k \in Handlers \ {h} : work'[k] = work[k]) /\ UNCHANGED <<update, offset>>
    BY <1>3, <2>1
  <2>. QED BY <1>0, <2>1
<1>4. {"finish", "cancel", "plan", "act", "send", "answer"} \subseteq AllSteps \ {"idle"}
  BY DEF AllSteps, Working
<1>5. CASE Refuse(h)
  <2>1. work[h].pc = "claim" /\ Respond(h, TRUE) /\ update[work[h].u].user \notin Allowed
    BY <1>5 DEF Refuse, MaySpeak
  <2>2. UNCHANGED update
    BY <2>1 DEF Respond
  <2>3. returns(TRUE)
    BY <2>1, <2>2
  <2>. QED BY <2>1, <2>3
<1>6. CASE BeginUpdate(h)
  <2>1. work[h].pc = "claim"
    BY <1>6 DEF BeginUpdate
  <2>2. CASE Claimable(work[h].u)
    <3> DEFINE sent == update[work[h].u]
               todo == IF sent.what = "ask" THEN <<"retry">> ELSE <<>>
               res == IF sent.what = "press" THEN sent.button ELSE Task
               step == FirstStep(sent.what)
               next == [work[h] EXCEPT !.pc = step, !.todo = todo, !.res = res]
    <3>1. work' = [work EXCEPT ![h] = next] /\ UNCHANGED <<update, queue, offset, poll>>
      BY <1>6, <2>2 DEF BeginUpdate, telegram
    <3>2. step # "idle"
      BY DEF FirstStep
    <3> HIDE DEF step, todo, res
    <3>3. next.u = work[h].u /\ next.pc = step
      BY <1>0 DEF HandlerRec
    <3> HIDE DEF next
    <3>. QED BY <1>0, <2>1, <3>1, <3>2, <3>3
  <2>3. CASE ~Claimable(work[h].u)
    <3>1. Respond(h, TRUE) /\ UNCHANGED receipt
      BY <1>6, <2>3 DEF BeginUpdate, RepeatIsFine
    <3>2. returns(TRUE)
      BY <2>3, <3>1 DEF Claimable
    <3>. QED BY <2>1, <3>2
  <2>. QED BY <2>2, <2>3
<1>7. CASE Reply(h) \/ CheckTarget(h) \/ CreateCommand(h) \/ FinishUpdate(h)
  <2>1. work[h].pc # "idle" /\ (Fail(h) \/ \E pc \in {"finish", "cancel", "plan", "send"} : Proceed(h, pc))
    BY <1>7 DEF Reply, CheckTarget, CreateCommand, FinishUpdate
  <2>. QED BY <1>1, <1>2, <1>4, <2>1
<1>8. CASE CreatePlan(h)
  <2>1. work[h].pc # "idle" /\ WithKey(work[h].u) # {}
    BY <1>8 DEF CreatePlan, HandlersInv, HandlerOK
  <2>2. PICK p \in DOMAIN plan' :
          work' = [work EXCEPT ![h] = [@ EXCEPT !.pc = "cancel", !.todo = PlanButtons, !.res = p]]
    BY <1>8, <2>1, PlanRows
  <2> DEFINE next == [work[h] EXCEPT !.pc = "cancel", !.todo = PlanButtons, !.res = p]
  <2>3. next.u = work[h].u /\ next.pc = "cancel" /\ work' = [work EXCEPT ![h] = next]
    BY <1>0, <2>2 DEF HandlerRec
  <2> HIDE DEF next
  <2>4. UNCHANGED <<update, queue, offset, poll>>
    BY <1>8, <2>1, PlanRows DEF telegram
  <2>. QED BY <1>0, <2>1, <2>3, <2>4
<1>9. CASE SaveCancel(h)
  <2> DEFINE old == {g \in DOMAIN grant : Pending(g) /\ SameButton(h, g)}
             next == [work[h] EXCEPT !.held = old, !.pc = "insert"]
  <2>1. /\ work[h].pc = "cancel" /\ work' = [work EXCEPT ![h] = next]
        /\ UNCHANGED <<update, queue, offset, poll>>
    BY <1>9 DEF SaveCancel, telegram
  <2> HIDE DEF old
  <2>2. next.u = work[h].u /\ next.pc = "insert"
    BY <1>0 DEF HandlerRec
  <2> HIDE DEF next
  <2>. QED BY <1>0, <2>1, <2>2
<1>10. CASE SaveInsert(h)
  <2> DEFINE step == IF Len(work[h].todo) > 1 THEN "cancel" ELSE "finish"
             rest == Tail(work[h].todo)
             more == work[h].new \cup {Len(grant) + 1}
             next == [work[h] EXCEPT !.pc = step, !.todo = rest, !.held = {}, !.new = more]
  <2>1. /\ work[h].pc = "insert" /\ work' = [work EXCEPT ![h] = next]
        /\ UNCHANGED <<update, queue, offset, poll>>
    BY <1>10 DEF SaveInsert, telegram
  <2>2. step # "idle"
    OBVIOUS
  <2> HIDE DEF step, rest, more
  <2>3. next.u = work[h].u /\ next.pc = step
    BY <1>0 DEF HandlerRec
  <2> HIDE DEF next
  <2>. QED BY <1>0, <2>1, <2>2, <2>3
<1>11. CASE ConsumeCallback(h)
  <2>1. work[h].pc # "idle" /\ (Proceed(h, "act") \/ Fail(h))
    BY <1>11 DEF ConsumeCallback
  <2>. QED BY <1>1, <1>2, <1>4, <2>1
<1>12. CASE Act(h)
  <2>1. work[h].pc # "idle" /\ (Proceed(h, "finish") \/ Fail(h))
    BY <1>12 DEF Act
  <2>. QED BY <1>1, <1>2, <1>4, <2>1
<1>13. CASE SendMessage(h) \/ AnswerCallback(h)
  <2>1. work[h].pc \in {"send", "answer"} /\ (Proceed(h, "answer") \/ Respond(h, TRUE))
    BY <1>13 DEF SendMessage, AnswerCallback
  <2>2. update'[work[h].u].user \in Allowed => receipt'[work[h].u] # "none"
    BY <1>0, <2>1, HandlerKnows
  <2>. QED BY <1>1, <1>4, <2>1, <2>2
<1>14. CASE OperationFails(h)
  <2>1. work[h].pc # "idle" /\ Fail(h)
    BY <1>14 DEF OperationFails, Working
  <2>. QED BY <1>2, <2>1
<1>15. CASE HandleFails(h) \/ SendFails(h)
  <2>1. work[h].pc # "idle" /\ returns(FALSE)
    BY <1>15 DEF HandleFails, SendFails
  <2>. QED BY <2>1
<1>. QED BY <1>5, <1>6, <1>7, <1>8, <1>9, <1>10, <1>11, <1>12, <1>13, <1>14, <1>15 DEF Step

(* Every statement of a handler keeps what the poller has passed.          *)
LEMMA StepPoller ==
  ASSUME OwnerInv, RowsGrow, NEW h \in Handlers,
         Step(h) \/ OperationFails(h) \/ HandleFails(h) \/ SendFails(h)
  PROVE  PollerInv'
<1>0. /\ RowsInv /\ HandlersInv /\ PollerInv /\ WorldGrows /\ RowTypes /\ RowTypes'
      /\ work \in [Handlers -> HandlerRec] /\ "poller" \in Handlers
  BY DEF OwnerInv, RowsGrow, RowsInv, HandlersInv, Handlers
<1>1. /\ \A k \in Handlers \ {h} : work'[k] = work[k]
      /\ UNCHANGED <<update, offset>> /\ work[h].pc # "idle" /\ work[h].u \in Updates
  BY <1>0, StepKeepsUpdate
<1>2. CASE UNCHANGED <<queue, poll>> /\ work'[h].u = work[h].u /\ work'[h].pc # "idle"
  <2>1. /\ work'["poller"].u = work["poller"].u
        /\ work'["poller"].pc = "idle" <=> work["poller"].pc = "idle"
    BY <1>0, <1>1, <1>2
  <2>. QED BY <1>0, <1>1, <1>2, <2>1, PlaceKept
<1>3. ASSUME NEW ok \in BOOLEAN, Respond(h, ok),
             ok => (update'[work[h].u].user \in Allowed => receipt'[work[h].u] # "none")
      PROVE  PollerInv'
  <2>0. \/ h = "poller" /\ ok /\ work'[h].pc = "offset" /\ work'[h].u = work[h].u
        \/ ~(h = "poller" /\ ok) /\ work'[h] = Idle
    BY <1>0, <1>3, ReturnMoves
  <2>1. CASE h = "poller" /\ ok
    <3>1. UNCHANGED <<queue, poll>>
      BY <1>3, <2>1, TelegramAssumption DEF Respond
    <3>2. /\ work'["poller"].u = work["poller"].u
          /\ work'["poller"].pc = "idle" <=> work["poller"].pc = "idle"
      BY <1>1, <2>0, <2>1
    <3>. QED BY <1>0, <1>1, <3>1, <3>2, PlaceKept
  <2>2. CASE h = "poller" /\ ~ok
    <3>1. UNCHANGED queue /\ poll' = [poll EXCEPT !.up = FALSE, !.batch = {}] /\ work'["poller"] = Idle
      BY <1>3, <2>0, <2>2 DEF Respond
    <3>. QED BY <1>0, <1>1, <3>1, PollerDown
  <2>3. CASE h # "poller"
    <3>1. /\ UNCHANGED poll /\ work'["poller"] = work["poller"]
          /\ queue' = IF h \in Hooks /\ ok THEN queue \ {work[h].u} ELSE queue
      BY <1>0, <1>1, <1>3, <2>3 DEF Respond
    <3>2. queue' \subseteq queue
      BY <3>1
    <3>3. ASSUME NEW u \in queue \ queue' PROVE Settled(u)'
      <4>1. ok /\ u = work[h].u
        BY <3>1, <3>3
      <4>. QED BY <1>3, <4>1 DEF Settled
    <3>. QED BY <1>0, <1>1, <3>1, <3>2, <3>3, PlaceKept
  <2>. QED BY <2>1, <2>2, <2>3
<1>. QED BY <1>0, <1>2, <1>3, StepKeepsUpdate

(* A message arrives: it is above everything the poller holds.             *)
LEMMA SendPoller ==
  ASSUME OwnerInv, RowsGrow, NEW usr \in Users, NEW what \in Kinds, NEW b \in 0..MaxGrants,
         Send(usr, what, b)
  PROVE  PollerInv'
<1> DEFINE new == Len(update) + 1
<1>0. RowsInv /\ RowTypes /\ HandlersInv /\ PollerInv /\ WorldGrows
  BY DEF OwnerInv, RowsInv, RowsGrow
<1>1. /\ UNCHANGED <<offset, poll, work>> /\ queue' = queue \cup {new}
      /\ Updates' = Updates \cup {new} /\ Len(update)' = Len(update) + 1
  BY <1>0, SendRows DEF Send
<1>2. Updates = 1..Len(update) /\ Len(update) \in Nat
  BY <1>0, RowFacts
<1>3. /\ poll' \in PollRec /\ poll'.next \in 1..Len(update)' + 1 /\ offset' \in 1..Len(update)' + 1
      /\ queue' \subseteq Updates' /\ poll'.batch \subseteq Updates'
  <2>1. /\ poll \in PollRec /\ poll.next \in 1..Len(update) + 1 /\ offset \in 1..Len(update) + 1
        /\ queue \subseteq Updates /\ poll.batch \subseteq Updates
    BY <1>0 DEF PollerInv
  <2>2. 1..Len(update) + 1 \subseteq 1..(Len(update) + 1) + 1
    BY <1>2
  <2>3. queue' \subseteq Updates' /\ poll'.batch \subseteq Updates'
    BY <1>1, <2>1
  <2>. QED BY <1>1, <2>1, <2>2, <2>3
<1>4. \A u \in Updates : Settled(u) => Settled(u)'
  BY <1>0, Growing
<1>5. work["poller"].u \in Updates \/ work["poller"].u = 0
  BY <1>0 DEF HandlersInv, HandlerOK, Handlers, Idle
<1>6. InBatchOrder'
  <2>1. \A c \in poll.batch \cup {work["poller"].u} : ~(new < c)
    BY <1>0, <1>2, <1>5 DEF PollerInv
  <2>. QED BY <1>0, <1>1, <1>4, <2>1 DEF PollerInv, InBatchOrder
<1>7. \A u \in Updates' : u \notin queue' => Settled(u)'
  BY <1>0, <1>1, <1>4 DEF PollerInv
<1>8. \A u \in Updates' : u < offset' => Settled(u)'
  <2>1. ~(new < offset)
    BY <1>0, <1>2 DEF PollerInv
  <2>. QED BY <1>0, <1>1, <1>4, <2>1 DEF PollerInv
<1>. QED BY <1>0, <1>1, <1>3, <1>6, <1>7, <1>8 DEF PollerInv

(* So does every step.                                                     *)
LEMMA PollerStep == ASSUME OwnerInv, [TelegramNext]_telegramVars, RowsGrow PROVE PollerInv'
<1>0. /\ RowsInv /\ HandlersInv /\ PollerInv /\ WorldGrows /\ RowTypes /\ RowTypes'
      /\ work \in [Handlers -> HandlerRec] /\ "poller" \in Handlers /\ "poller" \notin Hooks
      /\ Updates = 1..Len(update) /\ Len(update) \in Nat /\ HandlerOK("poller")
  BY RowFacts, TelegramAssumption DEF OwnerInv, RowsInv, RowsGrow, HandlersInv, Handlers
<1>00. /\ poll \in PollRec /\ poll.next \in 1..Len(update) + 1 /\ offset \in 1..Len(update) + 1
       /\ queue \subseteq Updates /\ poll.batch \subseteq Updates
       /\ \A u \in Updates : u \notin queue => Settled(u)
       /\ \A u \in Updates : u < offset => Settled(u)
       /\ \A u \in Updates : Settled(u) => Settled(u)'
  BY <1>0, Growing DEF PollerInv
<1>1. ASSUME UNCHANGED <<update, offset, poll, queue>>, work'["poller"] = work["poller"] PROVE PollerInv'
  BY <1>0, <1>1, PlaceKept
<1>2. CASE UNCHANGED telegramVars
  BY <1>1, <1>2 DEF telegramVars, telegram
<1>3. ASSUME NEW usr \in Users, NEW what \in {"plan", "ask", "read", "press"}, NEW b \in 0..MaxGrants,
             Send(usr, what, b)
      PROVE  PollerInv'
  BY <1>3, SendPoller DEF Kinds
<1>4. ASSUME NEW p \in DOMAIN plan, Web(p) PROVE PollerInv'
  BY <1>1, <1>4 DEF Web, telegram
<1>5. ASSUME NEW h \in Hooks, NEW u \in queue, Deliver(h, u) PROVE PollerInv'
  <2>1. UNCHANGED <<update, offset, poll, queue>> /\ h \in Handlers /\ h # "poller"
        /\ work' = [work EXCEPT ![h] = [Idle EXCEPT !.pc = "claim", !.u = u]]
    BY <1>0, <1>5 DEF Deliver, telegram, Handlers
  <2>. QED BY <1>0, <1>1, <2>1
<1>6. CASE PollerStart
  <2>1. /\ UNCHANGED <<update, receipt, queue, offset, work>> /\ ~poll.up
        /\ poll' = [up |-> TRUE, next |-> offset, batch |-> {}]
    BY <1>6 DEF PollerStart, telegram
  <2>2. work["poller"].pc = "idle" /\ work["poller"].u = 0
    BY <1>0, <2>1 DEF PollerInv, HandlerOK, Idle
  <2>3. poll' \in PollRec /\ poll'.up /\ poll'.next = offset /\ poll'.batch = {}
    BY <1>0, <1>00, <2>1 DEF PollRec
  <2>4. InBatchOrder'
    BY <1>0, <2>1, <2>2, <2>3 DEF InBatchOrder, Updates
  <2>. QED BY <1>0, <1>00, <2>1, <2>3, <2>4 DEF PollerInv, Updates
<1>7. CASE GetUpdates
  <2>1. /\ UNCHANGED <<update, receipt, offset, work>> /\ poll.up /\ work["poller"] = Idle
        /\ queue' = {u \in queue : u >= poll.next} /\ poll' = [poll EXCEPT !.batch = queue']
    BY <1>7 DEF GetUpdates
  <2>2. work["poller"].pc = "idle" /\ work["poller"].u = 0 /\ poll.next = offset
    BY <1>0, <2>1 DEF PollerInv, Idle
  <2>3. /\ poll' \in PollRec /\ poll'.up = TRUE /\ poll'.next = offset /\ poll'.batch = queue'
        /\ queue' \subseteq queue
    BY <1>0, <1>00, <2>1, <2>2 DEF PollRec
  <2>4. \A u \in Updates : u \notin queue' => Settled(u)
    <3>1. ASSUME NEW u \in Updates, u \in queue, u \notin queue' PROVE u < offset
      BY <1>0, <1>00, <2>1, <2>2, <3>1
    <3>. QED BY <1>00, <3>1
  <2>5. InBatchOrder'
    <3>1. \A b \in queue' : b >= offset /\ b > 0
      BY <1>0, <1>00, <2>1, <2>2
    <3>. QED BY <1>00, <2>1, <2>2, <2>3, <2>4, <3>1 DEF InBatchOrder, Updates
  <2>. QED BY <1>0, <1>00, <2>1, <2>3, <2>4, <2>5 DEF PollerInv, Updates
<1>8. CASE PollerTake
  <2>1. /\ UNCHANGED <<update, receipt, queue, offset>> /\ poll.up /\ work["poller"] = Idle
        /\ \E u \in First(poll.batch) :
             /\ poll' = [poll EXCEPT !.batch = @ \ {u}]
             /\ work' = IF u < poll.next THEN work
                        ELSE [work EXCEPT !["poller"] = [Idle EXCEPT !.pc = "claim", !.u = u]]
    BY <1>8 DEF PollerTake, telegram
  <2>2. PICK u \in poll.batch :
          /\ \A v \in poll.batch : u <= v
          /\ poll' = [poll EXCEPT !.batch = @ \ {u}]
          /\ work' = IF u < poll.next THEN work
                     ELSE [work EXCEPT !["poller"] = [Idle EXCEPT !.pc = "claim", !.u = u]]
    BY <2>1 DEF First
  <2>3. u >= poll.next /\ u \in Updates /\ poll.next = offset
    BY <1>0, <1>00, <2>1 DEF PollerInv, InBatchOrder
  <2>4. work'["poller"].pc = "claim" /\ work'["poller"].u = u
    <3>1. work' = [work EXCEPT !["poller"] = [Idle EXCEPT !.pc = "claim", !.u = u]]
      BY <1>0, <1>00, <2>2, <2>3
    <3>2. work'["poller"] = [Idle EXCEPT !.pc = "claim", !.u = u]
      BY <1>0, <3>1
    <3>. QED BY <3>2 DEF Idle
  <2>5. /\ poll' \in PollRec /\ poll'.up = TRUE /\ poll'.next = poll.next
        /\ poll'.batch = poll.batch \ {u}
    BY <1>00, <2>1, <2>2 DEF PollRec
  <2>6. \A b \in poll.batch \ {u} : b >= poll.next /\ b > u
    BY <1>0, <1>00, <2>2 DEF PollerInv, InBatchOrder
  <2>7. \A b \in poll.batch, v \in Updates : v < b /\ ~Settled(v) => v \in poll.batch
    <3>1. work["poller"].u = 0
      BY <2>1 DEF Idle
    <3>2. \A v \in Updates : v # 0
      BY <1>0
    <3>. QED BY <1>0, <3>1, <3>2 DEF PollerInv, InBatchOrder
  <2>8. InBatchOrder'
    BY <1>0, <1>00, <2>1, <2>2, <2>3, <2>4, <2>5, <2>6, <2>7 DEF InBatchOrder, Updates
  <2>. QED BY <1>0, <1>00, <2>1, <2>3, <2>4, <2>5, <2>8 DEF PollerInv, Updates
<1>9. CASE SavePollOffset
  <2> DEFINE u == work["poller"].u
  <2>1. /\ UNCHANGED <<update, receipt, queue>> /\ work["poller"].pc = "offset"
        /\ poll' = [poll EXCEPT !.next = u + 1]
        /\ offset' = Larger(offset, u + 1) /\ work' = [work EXCEPT !["poller"] = Idle]
    BY <1>9 DEF SavePollOffset, After, telegram
  <2>2. u \in Updates /\ Settled(u) /\ poll.up /\ poll.next = offset /\ u >= poll.next
    BY <1>0, <1>00, <2>1 DEF PollerInv, InBatchOrder, HandlerOK, PollRec
  <2>3. /\ work'["poller"].pc = "idle" /\ work'["poller"].u = 0
    BY <1>0, <2>1 DEF Idle
  <2> HIDE DEF u
  <2>4. u + 1 \in 1..Len(update) + 1 /\ offset' = u + 1
    BY <1>0, <1>00, <2>1, <2>2 DEF Larger
  <2>5. /\ poll' \in PollRec /\ poll'.up = poll.up /\ poll'.next = u + 1 /\ poll'.batch = poll.batch
    BY <1>00, <2>1, <2>4 DEF PollRec
  <2>6. \A b \in poll.batch : b > u /\ b >= u + 1
    BY <1>0, <1>00, <2>2 DEF PollerInv, InBatchOrder, u
  <2>7. \A v \in Updates : v < u + 1 => Settled(v)
    <3>1. ASSUME NEW v \in Updates, v < u PROVE Settled(v)
      <4>1. ~Settled(v) => v \in poll.batch \/ v = u
        BY <1>0, <3>1 DEF PollerInv, InBatchOrder, u
      <4>2. v \notin poll.batch /\ v # u
        BY <1>0, <2>2, <2>6, <3>1
      <4>. QED BY <4>1, <4>2
    <3>2. \A v \in Updates : v < u + 1 => v < u \/ v = u
      BY <1>0, <2>2
    <3>. QED BY <2>2, <3>1, <3>2
  <2>8. InBatchOrder'
    <3>1. \A b \in poll.batch, v \in Updates : v < b /\ ~Settled(v) => v \in poll.batch
      BY <1>0, <2>2 DEF PollerInv, InBatchOrder, u
    <3>2. \A v \in Updates : ~(v < 0)
      BY <1>0
    <3>3. \A b \in poll.batch : b > 0
      BY <1>0, <1>00
    <3>. QED BY <1>00, <2>1, <2>3, <2>5, <2>6, <3>1, <3>2, <3>3 DEF InBatchOrder, Updates
  <2>. QED BY <1>0, <1>00, <2>1, <2>2, <2>3, <2>4, <2>5, <2>7, <2>8 DEF PollerInv, Updates
<1>10. ASSUME NEW h \in Handlers, Step(h) \/ OperationFails(h) \/ HandleFails(h) \/ SendFails(h)
       PROVE  PollerInv'
  BY <1>10, StepPoller
<1>11. CASE Crash(Hooks)
  <2>1. UNCHANGED <<update, offset, poll, queue>>
        /\ work' = [h \in Handlers |-> IF h \in Hooks THEN Idle ELSE work[h]]
    BY <1>0, <1>11 DEF Crash, telegram
  <2>. QED BY <1>0, <1>1, <2>1
<1>12. CASE Crash({"poller"})
  <2>1. /\ UNCHANGED <<update, offset, queue>> /\ poll' = [poll EXCEPT !.up = FALSE, !.batch = {}]
        /\ work' = [h \in Handlers |-> IF h \in {"poller"} THEN Idle ELSE work[h]]
    BY <1>12 DEF Crash, telegram
  <2>2. work'["poller"] = Idle
    BY <1>0, <2>1
  <2>. QED BY <1>0, <2>1, <2>2, PollerDown
<1>. QED BY <1>2, <1>3, <1>4, <1>5, <1>6, <1>7, <1>8, <1>9, <1>10, <1>11, <1>12 DEF TelegramNext, Polling

-----------------------------------------------------------------------------
(* A sequence is one over whatever set holds its elements.                 *)
LEMMA SeqOver ==
  ASSUME NEW S, NEW s \in Seq(S), NEW T, \A i \in DOMAIN s : s[i] \in T
  PROVE  s \in Seq(T)
<1>1. s \in [1..Len(s) -> S] /\ Len(s) \in Nat /\ DOMAIN s = 1..Len(s)
  BY LenProperties
<1>2. s \in [1..Len(s) -> T]
  BY <1>1
<1>. QED BY <1>1, <1>2, SeqDef

(* The invariant contains the type invariant.                              *)
LEMMA OwnerTypes == OwnerInv => TelegramTypeOK
<1> SUFFICES ASSUME OwnerInv PROVE TelegramTypeOK
  OBVIOUS
<1>0. RowsInv /\ RowTypes /\ HandlersInv /\ PollerInv /\ RowReferences /\ WithinBounds
  BY DEF OwnerInv, RowsInv
<1>1. /\ update \in Seq([user : Users, what : {"plan", "ask", "read", "press"}, button : 0..MaxGrants])
      /\ receipt \in [Updates -> Statuses] /\ calls \in [DOMAIN grant -> Nat]
      /\ shown \subseteq DOMAIN grant /\ failures \in 0..MaxFailures
  <2>1. receipt \in [1..Len(receipt) -> Statuses] /\ DOMAIN receipt = 1..Len(receipt)
    BY <1>0, LenProperties DEF RowTypes
  <2>2. calls \in [1..Len(calls) -> Nat] /\ DOMAIN calls = 1..Len(calls)
    BY <1>0, LenProperties DEF RowTypes
  <2>3. DOMAIN receipt = Updates /\ DOMAIN calls = DOMAIN grant
    BY <1>0, RowFacts
  <2>. QED BY <1>0, <2>1, <2>2, <2>3 DEF RowTypes, SentRec, Kinds
<1>2. /\ queue \subseteq Updates /\ offset \in 1..MaxUpdates + 1
      /\ poll \in [up : BOOLEAN, next : 1..MaxUpdates + 1, batch : SUBSET Updates]
  <2>1. Len(update) <= MaxUpdates /\ Len(update) \in Nat /\ MaxUpdates \in Nat
    <3>1. /\ Len(update) = Sent({"press"}) + Sent({"plan", "ask", "read"})
          /\ Sent({"press"}) \in Nat /\ Sent({"plan", "ask", "read"}) \in Nat /\ Len(update) \in Nat
      BY <1>0, SentAll, RowFacts
    <3>2. MaxTexts \in Nat /\ MaxPresses \in Nat
      BY TelegramAssumption
    <3>3. Sent({"press"}) <= MaxPresses /\ Sent({"plan", "ask", "read"}) <= MaxTexts
      BY <1>0 DEF WithinBounds
    <3>. QED BY <3>1, <3>2, <3>3 DEF MaxUpdates
  <2>2. \A i \in 1..Len(update) + 1 : i \in 1..MaxUpdates + 1
    BY <2>1
  <2>. QED BY <1>0, <2>2 DEF PollerInv, PollRec
<1>3. /\ DOMAIN work = Handlers
      /\ \A h \in Handlers : /\ work[h].pc \in AllSteps /\ work[h].u \in Updates \cup {0}
                             /\ work[h].new \cup work[h].held \subseteq DOMAIN grant
  BY <1>0 DEF HandlersInv, HandlerOK, HandlerRec, Idle
<1>4. command \in Seq(Updates)
  BY <1>0, SeqOver DEF RowTypes, RowReferences
<1>5. plan \in Seq([cmd : DOMAIN command,
                    status : {"discussion", "awaiting_approval", "approved", "cancelled"}])
  <2> DEFINE Rec == [cmd : DOMAIN command,
                     status : {"discussion", "awaiting_approval", "approved", "cancelled"}]
  <2>1. \A p \in DOMAIN plan : plan[p] \in PlanRec /\ plan[p].cmd \in DOMAIN command
    BY <1>0, RowFacts DEF RowReferences
  <2>2. \A p \in DOMAIN plan : plan[p] \in Rec
    BY <2>1 DEF PlanRec
  <2> HIDE DEF Rec
  <2>3. plan \in Seq(Rec)
    BY <1>0, <2>2, SeqOver DEF RowTypes
  <2>. QED BY <2>3 DEF Rec
<1>6. grant \in Seq([action : {"approve", "reject", "show_tasks", "change", "retry"},
                     res : DOMAIN plan \cup {Task}, user : Users,
                     status : {"pending", "consumed", "expired", "cancelled"}])
  <2> DEFINE Rec == [action : {"approve", "reject", "show_tasks", "change", "retry"},
                     res : DOMAIN plan \cup {Task}, user : Users,
                     status : {"pending", "consumed", "expired", "cancelled"}]
  <2>1. \A g \in DOMAIN grant : grant[g] \in GrantRec /\ grant[g].res \in DOMAIN plan \cup {Task}
    BY <1>0, RowFacts DEF RowReferences
  <2>2. \A g \in DOMAIN grant : grant[g] \in Rec
    BY <2>1 DEF GrantRec, Buttons
  <2> HIDE DEF Rec
  <2>3. grant \in Seq(Rec)
    BY <1>0, <2>2, SeqOver DEF RowTypes
  <2>. QED BY <2>3 DEF Rec
<1>. QED BY <1>1, <1>2, <1>3, <1>4, <1>5, <1>6 DEF TelegramTypeOK

(* The invariant holds in every reachable state, for every number of       *)
(* deliveries that overlap, fail or are repeated.                          *)
THEOREM OwnerInterfaceKept == TelegramSpec => []OwnerInv
<1>1. TelegramInit => OwnerInv
  BY InitRows, InitHandlers, InitPoller DEF OwnerInv
<1>2. OwnerInv /\ [TelegramNext]_telegramVars => OwnerInv'
  <2> SUFFICES ASSUME OwnerInv, [TelegramNext]_telegramVars PROVE OwnerInv'
    OBVIOUS
  <2>1. RowsGrow
    BY RowsStep
  <2>. QED BY <2>1, HandlersStep, PollerStep DEF RowsGrow, OwnerInv
<1>. QED BY <1>1, <1>2, PTL DEF TelegramSpec

(* ConsumeCallback and the operation behind it: a button acts at most      *)
(* once, and for the user it was issued to.                                *)
THEOREM ButtonsActSafely == TelegramSpec => []ButtonsAreSafe
<1>1. OwnerInv => ButtonsAreSafe
  BY OwnerTypes DEF OwnerInv, RowsInv, ButtonsAreSafe
<1>. QED BY <1>1, OwnerInterfaceKept, PTL

(* CreateCommand and CreatePlan: however often a message is processed, it  *)
(* has one live plan at most.                                              *)
THEOREM MessageHasOneLivePlan == TelegramSpec => []OneLivePlanPerMessage
<1>1. OwnerInv => OneLivePlanPerMessage
  <2> SUFFICES ASSUME OwnerInv, NEW p \in DOMAIN plan, NEW q \in DOMAIN plan,
                      command[plan[p].cmd] = command[plan[q].cmd],
                      {plan[p].status, plan[q].status} \subseteq Live
               PROVE  p = q
    BY DEF OneLivePlanPerMessage
  <2>1. plan[p].cmd = plan[q].cmd
    BY DEF OwnerInv, RowsInv, RowReferences
  <2>. QED BY <2>1 DEF OwnerInv, RowsInv, OneLivePlanPerCommand
<1>. QED BY <1>1, OwnerInterfaceKept, PTL

(* Poller.Run and SavePollOffset: the offset passes no message of an       *)
(* allowed user that no handler has claimed.                               *)
THEOREM OffsetPassesClaimedOnly == TelegramSpec => []OffsetSkipsNothing
<1>1. OwnerInv => OffsetSkipsNothing
  BY DEF OwnerInv, PollerInv, Settled, OffsetSkipsNothing
<1>. QED BY <1>1, OwnerInterfaceKept, PTL
=============================================================================
