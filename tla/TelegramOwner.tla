---------------------------- MODULE TelegramOwner ----------------------------
(***************************************************************************)
(* The owner's Telegram interface: updates delivered by long polling and   *)
(* by webhook, the receipts that tell a new update from a repeated one,    *)
(* and one-time buttons (internal/usecase/telegram/service.go,             *)
(* telegram_repository.go and poller.go).                                  *)
(*                                                                         *)
(* A handler is one call of Service.Handle; one action is the code up to   *)
(* the commit of its next transaction or the answer of its next request.   *)
(* Telegram keeps an update until it is acknowledged and may deliver it    *)
(* again while an earlier delivery is still at work.                       *)
(***************************************************************************)
EXTENDS Naturals, Sequences, FiniteSets

CONSTANTS
  Hooks,       \* webhook requests that can be at work at once
  Users,       \* users who write to the bot
  Allowed,     \* ... of whom these are on the allowlist
  PlanButtons, \* the buttons under a new plan, in order
  MaxTexts,    \* bound: messages sent
  MaxPresses,  \* bound: buttons pressed
  MaxGrants,   \* bound: buttons issued
  MaxFailures  \* bound: failed calls and crashes

ASSUME TelegramAssumption ==
  /\ Allowed \subseteq Users /\ "poller" \notin Hooks
  /\ {MaxTexts, MaxPresses, MaxGrants, MaxFailures} \subseteq Nat
  /\ PlanButtons \in Seq({"approve", "reject", "show_tasks", "change"}) /\ PlanButtons # <<>>

VARIABLES
  update,   \* what was sent, by update id: user, what, button pressed
  queue,    \* updates Telegram still holds
  receipt,  \* telegram_update.status by update id
  offset,   \* telegram_poll_state.next_offset
  poll,     \* the poller: up or not, its offset in memory, the batch it holds
  work,     \* the handlers
  command,  \* commands, each the id of the update whose key it has
  plan,     \* plans: command, status
  grant,    \* telegram_callback rows
  shown,    \* buttons the owner can see
  calls,    \* how often the operation behind a button was called
  failures

telegram == <<update, queue>>
owner    == <<command, plan, calls>>
telegramVars == <<telegram, receipt, offset, poll, work, owner, grant, shown, failures>>

MaxUpdates == MaxTexts + MaxPresses
Handlers == Hooks \cup {"poller"}
Updates  == DOMAIN update
Task     == 0      \* the resource of a retry button; plans are numbered from 1
Statuses == {"none", "received", "processed", "failed"}
Idle == [pc |-> "idle", u |-> 0, todo |-> <<>>, res |-> 0, held |-> {}, new |-> {}, ok |-> TRUE]

Working  == {"reply", "target", "command", "plan", "cancel", "insert", "consume", "act"}
AllSteps == Working \cup {"idle", "claim", "finish", "send", "answer", "offset"}

TelegramTypeOK ==
  /\ update \in Seq([user : Users, what : {"plan", "ask", "read", "press"}, button : 0..MaxGrants])
  /\ queue \subseteq Updates /\ receipt \in [Updates -> Statuses] /\ offset \in 1..MaxUpdates + 1
  /\ poll \in [up : BOOLEAN, next : 1..MaxUpdates + 1, batch : SUBSET Updates]
  /\ DOMAIN work = Handlers
  /\ \A h \in Handlers : /\ work[h].pc \in AllSteps /\ work[h].u \in Updates \cup {0}
                         /\ work[h].new \cup work[h].held \subseteq DOMAIN grant
  /\ command \in Seq(Updates)
  /\ plan \in Seq([cmd : DOMAIN command,
                   status : {"discussion", "awaiting_approval", "approved", "cancelled"}])
  /\ grant \in Seq([action : {"approve", "reject", "show_tasks", "change", "retry"},
                    res : DOMAIN plan \cup {Task}, user : Users,
                    status : {"pending", "consumed", "expired", "cancelled"}])
  /\ shown \subseteq DOMAIN grant /\ calls \in [DOMAIN grant -> Nat] /\ failures \in 0..MaxFailures

TelegramInit ==
  /\ update = <<>> /\ queue = {} /\ receipt = <<>> /\ offset = 1
  /\ poll = [up |-> FALSE, next |-> 1, batch |-> {}]
  /\ work = [h \in Handlers |-> Idle]
  /\ command = <<>> /\ plan = <<>> /\ grant = <<>> /\ shown = {} /\ calls = <<>> /\ failures = 0

-----------------------------------------------------------------------------
(* Users and Telegram. *)
Sent(kinds) == Cardinality({u \in Updates : update[u].what \in kinds})

Send(usr, what, b) ==
  /\ IF what = "press" THEN b \in shown /\ Sent({"press"}) < MaxPresses
     ELSE b = 0 /\ Sent({"plan", "ask", "read"}) < MaxTexts
  /\ update' = Append(update, [user |-> usr, what |-> what, button |-> b])
  /\ queue' = queue \cup {Len(update) + 1}
  /\ receipt' = Append(receipt, "none")
  /\ UNCHANGED <<offset, poll, work, owner, grant, shown, failures>>

(* The owner submits and approves plans in the web interface too, with the  *)
(* fingerprint on the screen.                                              *)
Web(p) ==
  /\ \/ plan[p].status = "discussion" /\ plan' = [plan EXCEPT ![p].status = "awaiting_approval"]
     \/ plan[p].status = "awaiting_approval" /\ plan' = [plan EXCEPT ![p].status = "approved"]
  /\ UNCHANGED <<telegram, receipt, offset, poll, work, command, calls, grant, shown, failures>>

Deliver(h, u) ==
  /\ h \in Hooks /\ work[h] = Idle /\ u \in queue
  /\ work' = [work EXCEPT ![h] = [Idle EXCEPT !.pc = "claim", !.u = u]]
  /\ UNCHANGED <<telegram, receipt, offset, poll, owner, grant, shown, failures>>

-----------------------------------------------------------------------------
(* Poller.Run.  GetUpdates(offset) acknowledges what is below the offset.  *)
PollerStart ==
  /\ ~poll.up /\ poll' = [up |-> TRUE, next |-> offset, batch |-> {}]
  /\ UNCHANGED <<telegram, receipt, offset, work, owner, grant, shown, failures>>

GetUpdates ==
  /\ poll.up /\ poll.batch = {} /\ work["poller"] = Idle
  /\ queue # {}
  /\ queue' = {u \in queue : u >= poll.next}
  /\ poll' = [poll EXCEPT !.batch = queue']
  /\ UNCHANGED <<update, receipt, offset, work, owner, grant, shown, failures>>

Unsorted(batch) == batch
First(batch)    == {u \in batch : \A v \in batch : u <= v}

PollerTake ==
  /\ poll.up /\ work["poller"] = Idle
  /\ \E u \in First(poll.batch) :
       /\ poll' = [poll EXCEPT !.batch = @ \ {u}]
       /\ work' = IF u < poll.next THEN work
                  ELSE [work EXCEPT !["poller"] = [Idle EXCEPT !.pc = "claim", !.u = u]]
  /\ UNCHANGED <<telegram, receipt, offset, owner, grant, shown, failures>>

Larger(a, b) == IF a > b THEN a ELSE b

After(u) == u + 1

SavePollOffset ==
  /\ work["poller"].pc = "offset"
  /\ poll' = [poll EXCEPT !.next = After(work["poller"].u)]
  /\ offset' = Larger(offset, After(work["poller"].u))
  /\ work' = [work EXCEPT !["poller"] = Idle]
  /\ UNCHANGED <<telegram, receipt, owner, grant, shown, failures>>

(* Handle returns.  A webhook without an error is acknowledged; the poller *)
(* goes on to save its offset, or ends with the error.                     *)
Respond(h, ok) ==
  /\ work' = [work EXCEPT ![h] = IF h = "poller" /\ ok THEN [@ EXCEPT !.pc = "offset"] ELSE Idle]
  /\ queue' = IF h \in Hooks /\ ok THEN queue \ {work[h].u} ELSE queue
  /\ poll' = IF h = "poller" /\ ~ok THEN [poll EXCEPT !.up = FALSE, !.batch = {}] ELSE poll
  /\ UNCHANGED <<update, offset>>

Proceed(h, pc)  == work' = [work EXCEPT ![h].pc = pc] /\ UNCHANGED <<telegram, offset, poll>>
Fail(h)      == /\ work' = [work EXCEPT ![h] = [@ EXCEPT !.pc = "finish", !.ok = FALSE,
                                                          !.new = {}, !.held = {}]]
                /\ UNCHANGED <<telegram, offset, poll>>

-----------------------------------------------------------------------------
(* Service.Handle: who may speak at all, and the claim.  An update is new,  *)
(* or it was seen before and failed.                                       *)
Claimable(u)    == receipt[u] \in {"none", "failed"}
RepeatIsAnError == FALSE
RepeatIsFine    == TRUE

FirstStep(what) == CASE what = "plan" -> "command" [] what = "ask" -> "target"
                     [] what = "press" -> "consume" [] OTHER -> "reply"
MaySpeak(u) == update[u].user \in Allowed

Refuse(h) ==
  /\ work[h].pc = "claim" /\ ~MaySpeak(work[h].u)
  /\ Respond(h, TRUE) /\ UNCHANGED <<receipt, owner, grant, shown, failures>>

BeginUpdate(h) ==
  LET u == work[h].u  sent == update[u] IN
  /\ work[h].pc = "claim" /\ MaySpeak(u)
  /\ IF Claimable(u)
     THEN /\ receipt' = [receipt EXCEPT ![u] = "received"]
          /\ work' = [work EXCEPT ![h] =
                         [@ EXCEPT !.pc = FirstStep(sent.what),
                                   !.todo = IF sent.what = "ask" THEN <<"retry">> ELSE <<>>,
                                   !.res = IF sent.what = "press" THEN sent.button ELSE Task]]
          /\ UNCHANGED <<telegram, offset, poll>>
     ELSE Respond(h, RepeatIsFine) /\ UNCHANGED receipt
  /\ UNCHANGED <<owner, grant, shown, failures>>

(* Commands that change nothing here (/projects, /connect, /analyze,       *)
(* /topology) call their use case; /retry and the like look the target up  *)
(* and offer a button instead of acting on text.                           *)
Reply(h) ==
  /\ work[h].pc = "reply" /\ (Proceed(h, "finish") \/ Fail(h))
  /\ UNCHANGED <<owner, receipt, grant, shown, failures>>

CheckTarget(h) ==
  /\ work[h].pc = "target" /\ (Proceed(h, "cancel") \/ Fail(h))
  /\ UNCHANGED <<owner, receipt, grant, shown, failures>>

(* /plan and free text: CreateCommand under the key of the update, then    *)
(* CreatePlan, which returns an equal plan of the command or replaces its  *)
(* live one, then a row for each button.                                   *)
NoSuchKey(u) == {}
WithKey(u)   == {c \in DOMAIN command : command[c] = u}
Live         == {"discussion", "awaiting_approval", "approved"}

CreateCommand(h) ==
  LET u == work[h].u IN
  /\ work[h].pc = "command" /\ Proceed(h, "plan")
  /\ command' = IF WithKey(u) = {} THEN Append(command, u) ELSE command
  /\ UNCHANGED <<plan, calls, receipt, grant, shown, failures>>

CommandOf(u) == CHOOSE c \in DOMAIN command : /\ command[c] = u
                                              /\ \A d \in DOMAIN command : command[d] = u => d <= c

CreatePlan(h) ==
  LET c == CommandOf(work[h].u)
      cancelled == [p \in DOMAIN plan |->
                      IF plan[p].cmd = c THEN [plan[p] EXCEPT !.status = "cancelled"] ELSE plan[p]]
      buttons(p) ==
        work' = [work EXCEPT ![h] = [@ EXCEPT !.pc = "cancel", !.todo = PlanButtons, !.res = p]]
  IN
  /\ work[h].pc = "plan"
  /\ \/ /\ plan' = Append(cancelled, [cmd |-> c, status |-> "discussion"])
        /\ buttons(Len(plan) + 1)
     \/ \E p \in DOMAIN plan : plan[p].cmd = c /\ buttons(p) /\ UNCHANGED plan
  /\ UNCHANGED <<telegram, offset, poll, command, calls, receipt, grant, shown, failures>>

(* SaveCallback: cancel the pending buttons for the same action, insert.    *)
Held == UNION {work[h].held : h \in Handlers}

SameButton(h, g) == /\ grant[g].action = Head(work[h].todo) /\ grant[g].res = work[h].res
                    /\ grant[g].user = update[work[h].u].user
Pending(g)     == grant[g].status = "pending"

SaveCancel(h) ==
  LET old == {g \in DOMAIN grant : Pending(g) /\ SameButton(h, g)} IN
  /\ work[h].pc = "cancel" /\ old \cap Held = {}
  /\ work' = [work EXCEPT ![h] = [@ EXCEPT !.held = old, !.pc = "insert"]]
  /\ UNCHANGED <<telegram, offset, poll, owner, receipt, grant, shown, failures>>

(* Bound: MaxGrants buttons. *)
SaveInsert(h) ==
  LET w == work[h]
      row == [action |-> Head(w.todo), res |-> w.res, user |-> update[w.u].user,
              status |-> "pending"]
      rows == [g \in DOMAIN grant |->
                 IF g \in w.held THEN [grant[g] EXCEPT !.status = "cancelled"] ELSE grant[g]]
  IN
  /\ w.pc = "insert" /\ Len(grant) < MaxGrants
  /\ grant' = Append(rows, row) /\ calls' = Append(calls, 0)
  /\ work' = [work EXCEPT ![h] =
                 [@ EXCEPT !.pc = IF Len(w.todo) > 1 THEN "cancel" ELSE "finish",
                           !.todo = Tail(w.todo), !.held = {}, !.new = w.new \cup {Len(grant) + 1}]]
  /\ UNCHANGED <<telegram, offset, poll, command, plan, receipt, shown, failures>>

(* ConsumeCallback: by the user it was issued to, once, before it expires.  *)
AnyTime(g, usr) == grant[g].user = usr
Usable(g, usr)  == grant[g].user = usr /\ Pending(g)

ConsumeCallback(h) ==
  LET g == work[h].res IN
  /\ work[h].pc = "consume" /\ g \notin Held
  /\ IF Usable(g, update[work[h].u].user)
     THEN \/ grant' = [grant EXCEPT ![g].status = "consumed"] /\ Proceed(h, "act")
          \/ grant' = [grant EXCEPT ![g].status = "expired"] /\ Fail(h)
     ELSE Fail(h) /\ UNCHANGED grant
  /\ UNCHANGED <<owner, receipt, shown, failures>>

(* The operation behind the button.  decidePlan answers a repeated decision *)
(* with the plan, and wants the plan's fingerprint for a new approval: what *)
(* a button sends has none, so no button approves a plan.                  *)
NoFingerprint == FALSE

Decidable(p, to, fingerprint) ==
  plan[p].status = "awaiting_approval" /\ (to = "approved" => fingerprint)
Outcome(action) == IF action = "approve" THEN "approved" ELSE "cancelled"

Act(h) ==
  LET g == work[h].res  b == grant[g]  to == Outcome(b.action)  done == Proceed(h, "finish") IN
  /\ work[h].pc = "act"
  /\ calls' = [calls EXCEPT ![g] = @ + 1]
  /\ CASE b.action \in {"approve", "reject"} ->
            \/ /\ Decidable(b.res, to, NoFingerprint) /\ done
               /\ plan' = [plan EXCEPT ![b.res].status = to]
            \/ plan[b.res].status = to /\ done /\ UNCHANGED plan
            \/ /\ plan[b.res].status # to /\ ~Decidable(b.res, to, NoFingerprint)
               /\ Fail(h) /\ UNCHANGED plan
       [] b.action = "retry" -> (done \/ Fail(h)) /\ UNCHANGED plan
       [] OTHER -> done /\ UNCHANGED plan
  /\ UNCHANGED <<command, receipt, grant, shown, failures>>

(* The receipt, the message with its buttons, the answer to the press.     *)
Verdict(ok) == IF ok THEN "processed" ELSE "failed"

FinishUpdate(h) ==
  /\ work[h].pc = "finish" /\ Proceed(h, "send")
  /\ receipt' = [receipt EXCEPT ![work[h].u] = Verdict(work[h].ok)]
  /\ UNCHANGED <<owner, grant, shown, failures>>

SendMessage(h) ==
  /\ work[h].pc = "send" /\ shown' = shown \cup work[h].new
  /\ IF update[work[h].u].what = "press" THEN Proceed(h, "answer") ELSE Respond(h, TRUE)
  /\ UNCHANGED <<receipt, owner, grant, failures>>

AnswerCallback(h) ==
  /\ work[h].pc = "answer" /\ Respond(h, TRUE)
  /\ UNCHANGED <<receipt, owner, grant, shown, failures>>

-----------------------------------------------------------------------------
(* What can go wrong: a failed operation fails the update; a failed claim,  *)
(* receipt or answer ends Handle; a message that was perhaps not sent makes *)
(* the update failed; a crash forgets the handlers of a process.  A poll    *)
(* that fails ends Poller.Run, as a crash of the poller does.              *)
Faulty == failures < MaxFailures /\ failures' = failures + 1

OperationFails(h) ==
  /\ Faulty /\ work[h].pc \in Working /\ Fail(h) /\ UNCHANGED <<receipt, owner, grant, shown>>

HandleFails(h) ==
  /\ Faulty /\ work[h].pc \in {"claim", "finish", "answer", "offset"} /\ Respond(h, FALSE)
  /\ UNCHANGED <<receipt, owner, grant, shown>>

SendFails(h) ==
  /\ Faulty /\ work[h].pc = "send" /\ Respond(h, FALSE)
  /\ receipt' = [receipt EXCEPT ![work[h].u] = "failed"]
  /\ shown' \in {shown, shown \cup work[h].new}
  /\ UNCHANGED <<owner, grant>>

Crash(process) ==
  /\ Faulty /\ \E h \in process : work[h] # Idle \/ (h = "poller" /\ poll.up)
  /\ work' = [h \in Handlers |-> IF h \in process THEN Idle ELSE work[h]]
  /\ poll' = IF "poller" \in process THEN [poll EXCEPT !.up = FALSE, !.batch = {}] ELSE poll
  /\ UNCHANGED <<telegram, receipt, offset, owner, grant, shown>>

Step(h) ==
  \/ Refuse(h) \/ BeginUpdate(h) \/ Reply(h) \/ CheckTarget(h) \/ CreateCommand(h) \/ CreatePlan(h)
  \/ SaveCancel(h) \/ SaveInsert(h) \/ ConsumeCallback(h) \/ Act(h) \/ FinishUpdate(h) \/ SendMessage(h)
  \/ AnswerCallback(h)

Polling == GetUpdates \/ PollerTake \/ SavePollOffset

TelegramNext ==
  \/ \E usr \in Users, what \in {"plan", "ask", "read", "press"}, b \in 0..MaxGrants :
       Send(usr, what, b)
  \/ \E p \in DOMAIN plan : Web(p)
  \/ \E h \in Hooks, u \in queue : Deliver(h, u)
  \/ PollerStart \/ Polling
  \/ \E h \in Handlers : Step(h) \/ OperationFails(h) \/ HandleFails(h) \/ SendFails(h)
  \/ Crash(Hooks) \/ Crash({"poller"})

(* A poller that is up goes on, and so does a handler that has begun.  No  *)
(* supervisor starts the poller again after an error of Handle has ended   *)
(* the process; Telegram owes nobody a webhook, and users owe no messages. *)
Fairness == WF_telegramVars(Polling) /\ \A h \in Handlers : WF_telegramVars(Step(h))
TelegramSpec == TelegramInit /\ [][TelegramNext]_telegramVars /\ Fairness

-----------------------------------------------------------------------------
(* A button runs its operation at most once, and only for the user it was  *)
(* issued to: whoever presses it how often, on whatever deliveries, with   *)
(* repeated, concurrent and half-finished handlers.                        *)
ButtonActsOnce ==
  \A g \in DOMAIN grant : calls[g] > 0 =>
     /\ calls[g] = 1 /\ grant[g].status = "consumed"
     /\ \E u \in Updates : update[u].button = g /\ update[u].user = grant[g].user

(* One message never leads to two live plans, although its update is       *)
(* processed again in full after a failure (for instance of the reply).    *)
OneLivePlanPerMessage ==
  \A p, q \in DOMAIN plan :
     command[plan[p].cmd] = command[plan[q].cmd] /\ {plan[p].status, plan[q].status} \subseteq Live
     => p = q

(* The stored offset, which makes Telegram forget, never passes a message  *)
(* of an allowed user that no handler has claimed.                         *)
OffsetSkipsNothing ==
  \A u \in Updates : u < offset /\ update[u].user \in Allowed => receipt[u] # "none"

(* Buttons do what their owner meant: the operation they name, once.       *)
ButtonsAreSafe == TelegramTypeOK /\ ButtonActsOnce

(* No update blocks the poller for good, not even one whose claim was left *)
(* behind by a crash: as long as somebody starts the poller again whenever *)
(* an error has ended it, Telegram gets rid of everything it holds.        *)
QueueDrains == []<>poll.up => \A u \in 1..MaxUpdates : []<>(u \notin queue)

(* The button under a plan that awaits approval approves it: the rehearsal *)
(* presses it and requires the plan approved (rehearsal_test.go:173-179;   *)
(* README.md:588-589, 614-615), and processCallback calls ApprovePlan then *)
(* (service.go:296-299).                                                   *)
ApproveButtonApproves ==
  [][\A h \in Handlers :
       LET b == grant[work[h].res] IN
       Act(h) /\ b.action = "approve" /\ plan[b.res].status = "awaiting_approval"
         => plan'[b.res].status = "approved"]_telegramVars
=============================================================================
