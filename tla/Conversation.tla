----------------------------- MODULE Conversation -----------------------------
(***************************************************************************)
(* One owner conversation with the read-only operator agent: turns of      *)
(* usecase/conversation over their PostgreSQL repository, each of which    *)
(* drives one run of the agent through the event protocol of               *)
(* adapters/codex.  A turn reads the conversation, opens a pending answer, *)
(* attaches the agent's thread when the runner reports it, and completes   *)
(* or fails the answer; requests overlap, and a process may die in a turn. *)
(***************************************************************************)
EXTENDS Naturals, FiniteSets

CONSTANTS
  Turns,   \* the owner's messages
  Threads, \* thread ids the runner may report
  NoThread

(* The runner refuses a thread event with an empty id.                     *)
ASSUME ThreadAssumption == NoThread \notin Threads

VARIABLES
  thread,  \* agent_thread_id of the conversation
  answer,  \* the assistant message of each turn
  turn     \* the request of each turn

talkVars == <<thread, answer, turn>>

TalkTypeOK ==
  /\ thread \in Threads \cup {NoThread}
  /\ answer \in [Turns -> {"none", "pending", "completed", "failed"}]
  /\ \A t \in Turns : /\ turn[t].pc \in {"idle", "read", "run", "complete", "fail", "ended"}
                      /\ turn[t].thread \in Threads \cup {NoThread}
                      /\ turn[t].pc \in {"run", "complete"} => answer[t] = "pending"

TalkInit ==
  /\ thread = NoThread
  /\ answer = [t \in Turns |-> "none"]
  /\ turn = [t \in Turns |-> [pc |-> "idle", thread |-> NoThread, seen |-> FALSE]]

Goes(t, pc) == turn' = [turn EXCEPT ![t].pc = pc]

(* Send reads the conversation and with it the thread to resume.           *)
ReadConversation(t) ==
  /\ turn[t].pc = "idle"
  /\ turn' = [turn EXCEPT ![t].pc = "read", ![t].thread = thread]
  /\ UNCHANGED <<thread, answer>>

(* BeginConversationTurn; a unique index keeps a second pending answer out.*)
NonePending == \A t \in Turns : answer[t] # "pending"

BeginTurn(t) ==
  /\ turn[t].pc = "read"
  /\ IF NonePending THEN Goes(t, "run") /\ answer' = [answer EXCEPT ![t] = "pending"]
     ELSE Goes(t, "ended") /\ UNCHANGED answer
  /\ UNCHANGED thread

(* readProtocol: the thread is reported once, first, and must be the one   *)
(* asked for; AttachConversationThread takes it unless another is attached.*)
FirstOfTurn(t, id) == ~turn[t].seen /\ turn[t].thread \in {NoThread, id}
AnyThread(id) == TRUE
Attachable(id) == thread \in {NoThread, id}

ThreadStarted(t, id) ==
  /\ turn[t].pc = "run"
  /\ IF FirstOfTurn(t, id) /\ Attachable(id)
     THEN /\ thread' = id
          /\ turn' = [turn EXCEPT ![t].seen = TRUE, ![t].thread = id]
     ELSE Goes(t, "fail") /\ UNCHANGED thread
  /\ UNCHANGED answer

(* A result before the thread, of another one, or one that fails decoding, *)
(* the known references or the allowed actions, fails the turn.            *)
ResultArrives(t, id) ==
  /\ turn[t].pc = "run"
  /\ \/ turn[t].seen /\ id = turn[t].thread /\ Goes(t, "complete")
     \/ Goes(t, "fail")
  /\ UNCHANGED <<thread, answer>>

(* The runner exits, times out or reports an error without a result.       *)
RunnerFails(t) == turn[t].pc = "run" /\ Goes(t, "fail") /\ UNCHANGED <<thread, answer>>

CompleteTurn(t) ==
  /\ turn[t].pc = "complete"
  /\ answer' = [answer EXCEPT ![t] = "completed"]
  /\ \/ Goes(t, "ended")
     \/ Goes(t, "fail")   \* the final read of the conversation fails
  /\ UNCHANGED thread

(* FailConversationTurn touches a pending answer only.                     *)
FailPending(t) == answer[t] = "pending"

FailTurn(t) ==
  /\ turn[t].pc = "fail"
  /\ answer' = IF FailPending(t) THEN [answer EXCEPT ![t] = "failed"] ELSE answer
  /\ Goes(t, "ended")
  /\ UNCHANGED thread

(* The process dies: what is pending stays pending.                        *)
TurnDies(t) == turn[t].pc # "ended" /\ Goes(t, "ended") /\ UNCHANGED <<thread, answer>>

TalkNext == \E t \in Turns :
  \/ ReadConversation(t) \/ BeginTurn(t)
  \/ \E id \in Threads : ThreadStarted(t, id) \/ ResultArrives(t, id)
  \/ RunnerFails(t) \/ CompleteTurn(t) \/ FailTurn(t) \/ TurnDies(t)

TalkSpec == TalkInit /\ [][TalkNext]_talkVars

-----------------------------------------------------------------------------
(* Every answer was given by the one thread the conversation resumes,      *)
(* although a turn reads which thread that is before its turn begins, and  *)
(* first turns that overlap start threads of their own.                    *)
AnswersShareOneThread ==
  \A t \in Turns : answer[t] = "completed" => turn[t].thread = thread

(* Turns do not overlap (README: "persisted pending/failed states prevent  *)
(* overlapping turns"): at most one request is driving the operator.       *)
TurnsDoNotOverlap == Cardinality({t \in Turns : turn[t].pc \in {"run", "complete"}}) <= 1

(* One conversation has one operator: turns one after the other, answered  *)
(* by one thread.                                                          *)
OneOperator == TalkTypeOK /\ AnswersShareOneThread /\ TurnsDoNotOverlap

(* An answer, once given, stays: neither an error after the transaction    *)
(* that stored it nor another turn marks it as failed.                     *)
AnswerStays ==
  [][\A t \in Turns : answer[t] = "completed" => answer'[t] = "completed"]_talkVars
=============================================================================
