--------------------------- MODULE TurnExecution ---------------------------
(***************************************************************************)
(* One turn of the agent inside a running app server: the prompt handler   *)
(* that starts it (cool-app-server SessionPrompt, spawn_agent_run), the    *)
(* agent loop and its tool batches (cool-agent loop_runtime.rs), the       *)
(* approval gate, and the clients that steer it, cancel it, decide its     *)
(* approvals and lose their connection meanwhile.  Each transaction of the *)
(* durable store is one step; everything between two awaits of a task is   *)
(* one step.                                                               *)
(*                                                                         *)
(* Content and usage deltas, compaction markers and plan events change     *)
(* nothing here except that appending them can fail: StreamUndeliverable.  *)
(***************************************************************************)
EXTENDS Naturals, Sequences, FiniteSets, FiniteSetsExt, SequencesExt

CONSTANTS
    Calls,          \* the tool calls the model may issue in this turn, in order
    Questions,      \* those of them that call ask_user
    Timed,          \* the questions that carry timeout_secs
    CallId,         \* the call_id of each: the driver's, unique in one answer only
    Steers,         \* the messages clients may steer into the run
    Prompt,         \* the prompt's own user item
    NoMsg,
    MaxIterations   \* AgentLimits.max_iterations

ASSUME ConstantsAssumption ==
    /\ Calls \subseteq Nat /\ IsFiniteSet(Calls)
    /\ Questions \subseteq Calls /\ Timed \subseteq Questions
    /\ CallId \in [Calls -> Nat]
    /\ IsFiniteSet(Steers) /\ Prompt \notin Steers /\ NoMsg \notin Steers \cup {Prompt}
    /\ MaxIterations \in Nat

VARIABLES
    log,          \* the run's events, in seq order
    status,       \* the run's row
    tickets,      \* the approval row of each call_id
    record,       \* the server's RunRecord: absent, live or terminal
    signal,       \* the cancel channel holds a reason
    signalling,   \* a run.cancel handler has committed and not yet signalled
    waiters,      \* approval_waiters: the calls that listen
    answers,      \* the value in each waiter's channel
    notifying,    \* approval.resolve handlers between commit and waiter
    announced,    \* calls whose approval request was fanned out
    link,         \* sends to the owner succeed
    closed,       \* the owner's connection has ended and its runs were signalled
    pc,           \* where the run's task is
    iteration,
    steerCursor,  \* the seq up to which steers were drained
    delivered,    \* the steers in the loop's history, in order
    stage,        \* each call's progress
    gate,         \* each call's position in AppServerApprovalGate::request
    expired       \* questions whose timer fired before an answer

durable == <<log, status, tickets>>
memory  == <<record, signal, signalling, waiters, answers, notifying, announced, link, closed>>
task    == <<pc, iteration, steerCursor, delivered, stage, gate, expired>>
vars    == <<durable, memory, task>>

TerminalKinds == {"RunCompleted", "RunFailed", "RunCancelled"}
ResultKinds   == {"ToolCompleted", "ToolFailed"}
Kinds == TerminalKinds \cup ResultKinds \cup
         {"RunStarted", "UserItem", "AssistantItem", "ToolRequested", "ToolStarted",
          "ApprovalRequired", "ApprovalResolved"}
Statuses == {"running", "awaiting", "completed", "failed", "cancelled"}
Outcomes == {"approved", "denied", "timed_out"}
Stages == {"unused", "listed", "requested", "runnable", "started", "executing",
           "ok", "failed", "aborted", "settled"}
GatePositions == {"outside", "ticketed", "reused", "listening", "announced", "waiting",
                  "error"} \cup Outcomes
Points == {"committed", "registered", "loading", "starting", "prompting", "turn",
           "streaming", "finishing", "completing", "gating", "dispatching", "joining",
           "grace", "closing", "cancelling", "failing", "erred", "ended"}

Id(c) == CallId[c]
\* Two ways a driver names its calls: by the ids of the provider, or, where that has
\* none, by counting them from 1 in every answer (here: one call in each).
ProviderIds == [c \in Calls |-> c]
CountedIds == [c \in Calls |-> 1]
CallIds == {Id(c) : c \in Calls}
IdsOf(calls) == {Id(c) : c \in calls}
Decision(c) == tickets[Id(c)]

Event == [kind : Kinds, calls : SUBSET Calls, msg : Steers \cup {Prompt, NoMsg}]

TypeOK ==
    /\ log \in Seq(Event) /\ status \in Statuses
    /\ tickets \in [CallIds -> {"none", "pending"} \cup Outcomes]
    /\ record \in {"absent", "live", "terminal"}
    /\ signal \in BOOLEAN /\ signalling \in BOOLEAN
    /\ waiters \subseteq Calls /\ notifying \subseteq Calls /\ announced \subseteq Calls
    /\ answers \in [Calls -> {"none"} \cup Outcomes]
    /\ link \in BOOLEAN /\ closed \in BOOLEAN
    /\ pc \in Points /\ iteration \in Nat /\ steerCursor \in Nat
    /\ delivered \in Seq(Steers)
    /\ stage \in [Calls -> Stages] /\ gate \in [Calls -> GatePositions]
    /\ expired \subseteq Calls

\* start_run has just committed; its handler goes on to register the run.
Init ==
    /\ log = <<>> /\ status = "running" /\ tickets = [id \in CallIds |-> "none"]
    /\ record = "absent" /\ signal = FALSE /\ signalling = FALSE
    /\ waiters = {} /\ answers = [c \in Calls |-> "none"]
    /\ notifying = {} /\ announced = {} /\ link = TRUE /\ closed = FALSE
    /\ pc = "committed" /\ iteration = 1 /\ steerCursor = 0 /\ delivered = <<>>
    /\ stage = [c \in Calls |-> "unused"] /\ gate = [c \in Calls |-> "outside"]
    /\ expired = {}

-----------------------------------------------------------------------------
(* The store, as this turn sees it (DurableStore has the whole of it). *)

Terminal == status \in {"completed", "failed", "cancelled"}

EventStatus(kind) ==
    CASE kind \in {"RunStarted", "ApprovalResolved"} -> "running"
      [] kind = "ApprovalRequired" -> "awaiting"
      [] kind = "RunCompleted" -> "completed"
      [] kind = "RunFailed" -> "failed"
      [] kind = "RunCancelled" -> "cancelled"
      [] OTHER -> status

\* Mutant: the ended run is not refused.
AcceptsAfterEnd(kind) == kind \in ResultKinds \/ ~Terminal
\* append_event_tx: an ended run takes nothing, and a run that waits for an
\* approval cannot complete.
Accepts(kind) == ~Terminal /\ ~(status = "awaiting" /\ kind = "RunCompleted")

Ev(kind, calls, msg) == [kind |-> kind, calls |-> calls, msg |-> msg]

Append1(kind, calls, msg) ==
    /\ log' = Append(log, Ev(kind, calls, msg))
    /\ status' = EventStatus(kind)

CallsIn(kinds) == UNION {log[i].calls : i \in {j \in DOMAIN log : log[j].kind \in kinds}}

\* Calls without a durable result, those only listed by the assistant included.
PendingCalls == CallsIn({"AssistantItem", "ToolRequested"}) \ CallsIn(ResultKinds)

\* The k-th smallest of a finite set of numbers.
NthOf(S, k) == CHOOSE x \in S : Cardinality({y \in S : y <= x}) = k

\* accept_cancel: failures for the pending calls, in the order of their ids, then
\* run.cancelled.
AcceptCancel ==
    /\ ~Terminal
    /\ log' = log \o [k \in 1..Cardinality(PendingCalls) |->
                        Ev("ToolFailed", {NthOf(PendingCalls, k)}, NoMsg)]
                  \o <<Ev("RunCancelled", {}, NoMsg)>>
    /\ status' = "cancelled"

-----------------------------------------------------------------------------
(* The event sink *)

\* emit_once answers with the stored event when the run was cancelled under
\* the loop: run.cancelled, or the failure the cancel wrote for a call.
AlreadyStored(kind, calls) ==
    \/ kind = "RunCancelled" /\ status = "cancelled"
    \/ /\ kind = "ToolFailed" /\ Terminal
       /\ \E i \in DOMAIN log : log[i].kind = "ToolFailed" /\ IdsOf(log[i].calls) = IdsOf(calls)

\* Events that carry text of the model, a tool or a user may exceed the
\* negotiated frame.
Sizable == {"AssistantItem", "ToolRequested", "ToolCompleted", "ToolFailed"}

\* Dropping the JoinSet aborts the tools; a dropped gate future removes its
\* waiter only once WaiterCleanup exists.
Dropped(calls) ==
    /\ stage' = [c \in Calls |-> IF c \in calls THEN "aborted" ELSE stage[c]]
    /\ waiters' = waiters \ {c \in calls : gate[c] = "waiting"}
    /\ gate' = [c \in Calls |-> IF c \in calls THEN "outside" ELSE gate[c]]

InJoinSet == {c \in Calls : stage[c] \in {"executing", "ok", "failed"}}

Unwind == pc' = "erred" /\ Dropped(InJoinSet)

\* Emit one event and go on to `next` with call progress `progress`; a frame
\* that is too large, a refused append or an owner that cannot be reached ends
\* the loop with an error.  In the last case the event is durable all the same.
Emit(kind, calls, msg, next, progress) ==
    \E fits \in IF kind \in Sizable THEN BOOLEAN ELSE {TRUE} :
        LET stored  == AlreadyStored(kind, calls)
            appends == ~stored /\ fits /\ Accepts(kind)
        IN  /\ IF appends THEN Append1(kind, calls, msg) ELSE UNCHANGED <<log, status>>
            /\ IF stored \/ (appends /\ link)
               THEN pc' = next /\ stage' = progress /\ UNCHANGED <<gate, waiters>>
               ELSE Unwind
            /\ record' = IF kind \in TerminalKinds /\ (stored \/ appends)
                         THEN "terminal" ELSE record
            /\ UNCHANGED <<tickets, signal, signalling, answers, notifying, announced, link,
                           closed, iteration, steerCursor, delivered, expired>>

\* Control moves on and only the loop's own counters may change.
Move(next) == pc' = next /\ UNCHANGED <<durable, memory, stage, gate, expired>>

-----------------------------------------------------------------------------
(* The prompt handler, up to the spawned task *)

RegisterRun ==
    /\ pc = "committed" /\ pc' = "registered" /\ record' = "live"
    /\ UNCHANGED <<durable, signal, signalling, waiters, answers, notifying, announced, link,
                   closed, iteration, steerCursor, delivered, stage, gate, expired>>

SpawnRun ==
    pc = "registered" /\ Move("loading") /\ UNCHANGED <<iteration, steerCursor, delivered>>

-----------------------------------------------------------------------------
(* The loop *)

IsSteer(e) == e.kind = "UserItem" /\ e.msg # Prompt
SteersAt(s) == {i \in DOMAIN s : IsSteer(s[i])}
SteersIn(s) == [k \in 1..Cardinality(SteersAt(s)) |-> s[NthOf(SteersAt(s), k)].msg]
NewSteers == SteersIn(SubSeq(log, steerCursor + 1, Len(log)))

\* Mutant: the page of unread steers is read newest first.
DrainNewestFirst == delivered' = delivered \o Reverse(NewSteers) /\ steerCursor' = Len(log)
\* drain_steers: unread user items, the loop's own prompt excepted.
DrainSteers == delivered' = delivered \o NewSteers /\ steerCursor' = Len(log)

\* Mutant: the replayed history does not advance the cursor.
LoadHistoryKeepCursor ==
    /\ pc = "loading" /\ Move("starting")
    /\ delivered' = SteersIn(log)
    /\ UNCHANGED <<iteration, steerCursor>>
\* The replayed history holds the steers accepted before the loop started.
LoadHistory ==
    /\ pc = "loading" /\ Move("starting")
    /\ delivered' = SteersIn(log) /\ steerCursor' = Len(log)
    /\ UNCHANGED iteration

StartLoop == pc = "starting" /\ Emit("RunStarted", {}, NoMsg, "prompting", stage)

RecordPrompt ==
    /\ pc = "prompting"
    /\ Emit("UserItem", {}, Prompt, IF MaxIterations = 0 THEN "failing" ELSE "turn", stage)

\* The head of an iteration looks at the cancel channel, then drains.
BeginTurn ==
    /\ pc = "turn" /\ UNCHANGED iteration
    /\ IF signal THEN Move("cancelling") /\ UNCHANGED <<delivered, steerCursor>>
                 ELSE Move("streaming") /\ DrainSteers

\* The model's answer, with the calls it asks for.
ModelAnswers(asked) ==
    /\ pc = "streaming" /\ \A c, d \in asked : Id(c) = Id(d) => c = d
    /\ Emit("AssistantItem", asked, NoMsg, IF asked = {} THEN "finishing" ELSE "gating",
            [c \in Calls |-> IF c \in asked THEN "listed" ELSE stage[c]])

\* Retries are exhausted, the error is final, or a budget is exceeded.
ModelFails ==
    /\ pc = "streaming" /\ Move("failing")
    /\ UNCHANGED <<iteration, steerCursor, delivered>>

StreamInterrupted ==
    /\ pc = "streaming" /\ signal /\ Move("cancelling")
    /\ UNCHANGED <<iteration, steerCursor, delivered>>

StreamUndeliverable ==
    /\ pc = "streaming" /\ (Terminal \/ ~link) /\ Unwind
    /\ UNCHANGED <<durable, record, signal, signalling, answers, notifying, announced, link,
                   closed, iteration, steerCursor, delivered, expired>>

EndIteration ==
    IF iteration = MaxIterations
    THEN Move("failing") /\ UNCHANGED iteration
    ELSE Move("turn") /\ iteration' = iteration + 1

\* An answer without calls ends the run unless a steer arrived meanwhile.
DrainLast ==
    /\ pc = "finishing" /\ DrainSteers
    /\ IF NewSteers = <<>> THEN Move("completing") /\ UNCHANGED iteration ELSE EndIteration

CompleteRun     == pc = "completing" /\ Emit("RunCompleted", {}, NoMsg, "ended", stage)
FinishFailed    == pc = "failing" /\ Emit("RunFailed", {}, NoMsg, "ended", stage)
FinishCancelled == pc = "cancelling" /\ Emit("RunCancelled", {}, NoMsg, "ended", stage)

\* Mutant: the failed run is left as it is.
SettleErrorQuietly ==
    /\ pc = "erred" /\ Move("ended") /\ UNCHANGED <<iteration, steerCursor, delivered>>
\* spawn_agent_run after an error: a run that is still live is cancelled.
SettleError ==
    /\ pc = "erred" /\ pc' = "ended"
    /\ IF Terminal THEN UNCHANGED <<log, status, record>>
                   ELSE AcceptCancel /\ record' = "terminal"
    /\ UNCHANGED <<tickets, signal, signalling, waiters, answers, notifying, announced, link,
                   closed, iteration, steerCursor, delivered, stage, gate, expired>>

-----------------------------------------------------------------------------
(* A tool batch *)

InStage(stages) == {c \in Calls : stage[c] \in stages}
First(calls) == {c \in calls : \A d \in calls : c <= d}

\* The calls are taken in order; the next one starts when the last is decided.
RequestCall(c) ==
    /\ pc = "gating" /\ c \in First(InStage({"listed", "requested"})) /\ stage[c] = "listed"
    /\ Emit("ToolRequested", {c}, NoMsg, pc, [stage EXCEPT ![c] = "requested"])

\* Unknown, hidden, inactive or denied tools, and approvals that were refused.
RefuseCall(c) ==
    /\ pc = "gating" /\ stage[c] = "requested"
    /\ gate[c] \in {"outside"} \cup (Outcomes \ {"approved"})
    /\ Emit("ToolFailed", {c}, NoMsg, pc, [stage EXCEPT ![c] = "settled"])

\* The policy allows the call, or its approval was granted; a question leaves
\* the gate again, to be asked when the tool runs.
AllowCall(c) ==
    /\ pc = "gating" /\ stage[c] = "requested" /\ gate[c] \in {"outside", "approved"}
    /\ stage' = [stage EXCEPT ![c] = "runnable"]
    /\ gate' = [gate EXCEPT ![c] = "outside"]
    /\ UNCHANGED <<durable, memory, pc, iteration, steerCursor, delivered, expired>>

\* The gate's error is the loop's error.
GateFails(c) ==
    /\ pc = "gating" /\ stage[c] = "requested" /\ gate[c] = "error" /\ Unwind
    /\ UNCHANGED <<durable, record, signal, signalling, answers, notifying, announced, link,
                   closed, iteration, steerCursor, delivered, expired>>

EndGating ==
    /\ pc = "gating" /\ InStage({"listed", "requested"}) = {} /\ Move("dispatching")
    /\ UNCHANGED <<iteration, steerCursor, delivered>>

\* Every tool.started is durable before the first tool runs.
StartCall(c) ==
    /\ pc = "dispatching" /\ c \in First(InStage({"runnable"}))
    /\ Emit("ToolStarted", {c}, NoMsg, pc, [stage EXCEPT ![c] = "started"])

SpawnTools ==
    /\ pc = "dispatching" /\ InStage({"runnable"}) = {} /\ pc' = "joining"
    /\ stage' = [c \in Calls |-> IF stage[c] = "started" THEN "executing" ELSE stage[c]]
    /\ UNCHANGED <<durable, memory, iteration, steerCursor, delivered, gate, expired>>

\* A tool's task returns.
FinishTool(c, result) ==
    /\ stage[c] = "executing" /\ c \notin Questions
    /\ stage' = [stage EXCEPT ![c] = result]
    /\ UNCHANGED <<durable, memory, pc, iteration, steerCursor, delivered, gate, expired>>

JoinTool(c) ==
    /\ pc \in {"joining", "grace"} /\ stage[c] \in {"ok", "failed"}
    /\ Emit(IF stage[c] = "ok" THEN "ToolCompleted" ELSE "ToolFailed", {c}, NoMsg, pc,
            [stage EXCEPT ![c] = "settled"])

FinishBatch ==
    /\ pc = "joining" /\ InJoinSet = {} /\ EndIteration
    /\ UNCHANGED <<steerCursor, delivered>>

\* A cancel gives the running tools a second to return, then aborts them.
NoticeCancel ==
    /\ pc = "joining" /\ signal /\ InJoinSet # {} /\ Move("grace")
    /\ UNCHANGED <<iteration, steerCursor, delivered>>

EndGrace ==
    /\ pc = "grace" /\ pc' = "closing" /\ Dropped(InJoinSet)
    /\ UNCHANGED <<durable, record, signal, signalling, answers, notifying, announced, link,
                   closed, iteration, steerCursor, delivered, expired>>

\* tool_batch_cancelled for every call without a result.
CloseCall(c) ==
    /\ pc = "closing" /\ stage[c] = "aborted"
    /\ Emit("ToolFailed", {c}, NoMsg, pc, [stage EXCEPT ![c] = "settled"])

CancelBatch ==
    /\ pc = "closing" /\ InStage({"aborted"}) = {} /\ Move("cancelling")
    /\ UNCHANGED <<iteration, steerCursor, delivered>>

-----------------------------------------------------------------------------
(* AppServerApprovalGate::request, entered by the loop for a call the policy *)
(* wants approved and by the ask_user tool for its question.                 *)

InGate(c) ==
    \/ pc = "gating" /\ stage[c] = "requested"
    \/ c \in Questions /\ stage[c] = "executing"

\* create_approval: one ticket per run and call_id, so a second request finds the
\* first one's.  The request is refused when its event does not fit or the run has
\* ended.
OpenTicket(c) ==
    /\ InGate(c) /\ gate[c] = "outside"
    /\ \/ Decision(c) # "none" /\ gate' = [gate EXCEPT ![c] = "reused"] /\ UNCHANGED durable
       \/ /\ Decision(c) = "none" /\ Accepts("ApprovalRequired")
          /\ tickets' = [tickets EXCEPT ![Id(c)] = "pending"]
          /\ Append1("ApprovalRequired", {c}, NoMsg)
          /\ gate' = [gate EXCEPT ![c] = "ticketed"]
       \/ gate' = [gate EXCEPT ![c] = "error"] /\ UNCHANGED durable
    /\ UNCHANGED <<memory, pc, iteration, steerCursor, delivered, stage, expired>>

\* The waiter is in the map before anyone is told; a ticket that already
\* existed is not announced again.
RegisterWaiter(c) ==
    /\ InGate(c) /\ gate[c] \in {"ticketed", "reused"}
    /\ waiters' = waiters \cup {c} /\ answers' = [answers EXCEPT ![c] = "none"]
    /\ gate' = [gate EXCEPT ![c] = IF @ = "ticketed" THEN "listening" ELSE "announced"]
    /\ UNCHANGED <<durable, record, signal, signalling, notifying, announced, link,
                   closed, pc, iteration, steerCursor, delivered, stage, expired>>

\* The run's last event is fanned out as the approval request.
Announce(c) ==
    /\ InGate(c) /\ gate[c] = "listening"
    /\ announced' = announced \cup (IF Last(log).kind = "ApprovalRequired"
                                    THEN Last(log).calls ELSE {})
    /\ IF link
       THEN gate' = [gate EXCEPT ![c] = "announced"] /\ UNCHANGED waiters
       ELSE gate' = [gate EXCEPT ![c] = "error"] /\ waiters' = waiters \ {c}
    /\ UNCHANGED <<durable, record, signal, signalling, answers, notifying, link, closed,
                   pc, iteration, steerCursor, delivered, stage, expired>>

\* Mutants: the ticket is not read again; any decision counts as consent.
RecheckSkipped(c) ==
    /\ InGate(c) /\ gate[c] = "announced"
    /\ gate' = [gate EXCEPT ![c] = "waiting"]
    /\ UNCHANGED <<durable, memory, pc, iteration, steerCursor, delivered, stage, expired>>
RecheckAnyDecision(c) ==
    /\ InGate(c) /\ gate[c] = "announced"
    /\ gate' = [gate EXCEPT ![c] = IF Decision(c) = "pending" THEN "waiting" ELSE "approved"]
    /\ waiters' = IF Decision(c) = "pending" THEN waiters ELSE waiters \ {c}
    /\ UNCHANGED <<durable, record, signal, signalling, answers, notifying, announced, link,
                   closed, pc, iteration, steerCursor, delivered, stage, expired>>
\* A decision that committed before the waiter was registered is read here.
Recheck(c) ==
    /\ InGate(c) /\ gate[c] = "announced"
    /\ IF Decision(c) = "pending"
       THEN gate' = [gate EXCEPT ![c] = "waiting"] /\ UNCHANGED waiters
       ELSE gate' = [gate EXCEPT ![c] = Decision(c)] /\ waiters' = waiters \ {c}
    /\ UNCHANGED <<durable, record, signal, signalling, answers, notifying, announced, link,
                   closed, pc, iteration, steerCursor, delivered, stage, expired>>

LeaveGate(c, position) ==
    /\ InGate(c) /\ gate[c] = "waiting"
    /\ gate' = [gate EXCEPT ![c] = position] /\ waiters' = waiters \ {c}
    /\ UNCHANGED <<durable, record, signal, signalling, answers, notifying, announced, link,
                   closed, pc, iteration, steerCursor, delivered, stage, expired>>

ReceiveDecision(c) == answers[c] # "none" /\ LeaveGate(c, answers[c])

GateCancelled(c) == signal /\ LeaveGate(c, "error")

-----------------------------------------------------------------------------
(* ask_user: the answer, or the timer *)

\* The tool expires the id it put in its request; the ticket has the id the
\* store gave it.
RequestId(c) == <<"request", c>>
TicketId(c)  == <<"ticket", c>>
Expires(c) == RequestId(c) = TicketId(c) /\ Decision(c) = "pending" /\ ~Terminal

AnswerQuestion(c) ==
    /\ c \in Questions /\ stage[c] = "executing" /\ gate[c] \in Outcomes \cup {"error"}
    /\ stage' = [stage EXCEPT ![c] = IF gate[c] = "approved" THEN "ok" ELSE "failed"]
    /\ gate' = [gate EXCEPT ![c] = "outside"]
    /\ UNCHANGED <<durable, memory, pc, iteration, steerCursor, delivered, expired>>

\* The pending request is dropped with its waiter, if it had got so far.
AbandonQuestion(c) ==
    /\ stage' = [stage EXCEPT ![c] = "failed"]
    /\ gate' = [gate EXCEPT ![c] = "outside"]
    /\ waiters' = IF gate[c] = "waiting" THEN waiters \ {c} ELSE waiters
    /\ UNCHANGED <<record, signal, signalling, answers, notifying, announced, link,
                   closed, pc, iteration, steerCursor, delivered>>

\* The timer fires: an expired ticket ends the question, otherwise an answer
\* that may be on its way gets a last grace period.
QuestionTimesOut(c) ==
    /\ c \in Timed \ expired /\ stage[c] = "executing"
    /\ gate[c] \notin Outcomes \cup {"outside", "error"}
    /\ expired' = expired \cup {c}
    /\ IF Expires(c)
       THEN /\ tickets' = [tickets EXCEPT ![Id(c)] = "timed_out"]
            /\ Append1("ApprovalResolved", {c}, NoMsg)
            /\ AbandonQuestion(c)
       ELSE UNCHANGED <<durable, memory, pc, iteration, steerCursor, delivered, stage, gate>>

QuestionGivesUp(c) ==
    /\ c \in expired /\ stage[c] = "executing" /\ gate[c] \notin Outcomes \cup {"error"}
    /\ AbandonQuestion(c) /\ UNCHANGED <<durable, expired>>

-----------------------------------------------------------------------------
(* Requests of clients, each a store transaction and what follows it *)

SteerRun(m) ==
    /\ ~Terminal /\ \A i \in DOMAIN log : log[i].msg # m
    /\ Append1("UserItem", {}, m)
    /\ UNCHANGED <<tickets, memory, task>>

CancelRun ==
    /\ AcceptCancel /\ signalling' = TRUE
    /\ UNCHANGED <<tickets, record, signal, waiters, answers, notifying, announced, link,
                   closed, task>>

\* Only a registered run that is not known to have ended is signalled.
SignalCancel ==
    /\ signalling /\ signalling' = FALSE
    /\ signal' = (signal \/ record = "live")
    /\ UNCHANGED <<durable, record, waiters, answers, notifying, announced, link,
                   closed, task>>

ResolveApproval(c, decision) ==
    /\ Decision(c) = "pending" /\ ~Terminal /\ c \in CallsIn({"ApprovalRequired"})
    /\ tickets' = [tickets EXCEPT ![Id(c)] = decision]
    /\ Append1("ApprovalResolved", {c}, NoMsg)
    /\ notifying' = notifying \cup {c}
    /\ UNCHANGED <<record, signal, signalling, waiters, answers, announced, link, closed, task>>

\* The waiter, if one is registered by now, is taken out and told.
NotifyWaiter(c) ==
    /\ c \in notifying /\ notifying' = notifying \ {c}
    /\ answers' = [d \in Calls |-> IF d \in waiters /\ Id(d) = Id(c) THEN Decision(c)
                                                                    ELSE answers[d]]
    /\ waiters' = {d \in waiters : Id(d) # Id(c)}
    /\ UNCHANGED <<durable, record, signal, signalling, announced, link, closed, task>>

\* Sends to the owner start to fail.
LinkBreaks ==
    /\ link /\ link' = FALSE
    /\ UNCHANGED <<durable, record, signal, signalling, waiters, answers, notifying,
                   announced, closed, task>>

\* Mutant: the runs of the connection are not signalled.
CloseConnectionSilently ==
    /\ ~closed /\ pc \notin {"committed", "registered"} /\ closed' = TRUE
    /\ UNCHANGED <<durable, record, signal, signalling, waiters, answers, notifying, announced,
                   link, task>>
\* The owner's connection ends, by its own end of file or by a broken link:
\* when its handlers have returned the server signals the runs it owns.
CloseConnection ==
    /\ ~closed /\ pc \notin {"committed", "registered"} /\ closed' = TRUE
    /\ signal' = (signal \/ record = "live")
    /\ UNCHANGED <<durable, record, signalling, waiters, answers, notifying, announced, link,
                   task>>

Finished == pc = "ended" /\ UNCHANGED vars

-----------------------------------------------------------------------------
(* What the server does on its own, and what it waits for *)

LoopStep ==
    \/ RegisterRun \/ SpawnRun \/ LoadHistory \/ StartLoop \/ RecordPrompt \/ BeginTurn
    \/ StreamInterrupted \/ StreamUndeliverable \/ DrainLast
    \/ CompleteRun \/ FinishFailed \/ FinishCancelled \/ SettleError
    \/ EndGating \/ SpawnTools \/ FinishBatch \/ NoticeCancel \/ CancelBatch

CallStep(c) ==
    \/ RequestCall(c) \/ RefuseCall(c) \/ AllowCall(c) \/ GateFails(c) \/ StartCall(c)
    \/ JoinTool(c) \/ CloseCall(c)

GateStep(c) ==
    \/ OpenTicket(c) \/ RegisterWaiter(c) \/ Announce(c) \/ Recheck(c)
    \/ ReceiveDecision(c) \/ GateCancelled(c) \/ AnswerQuestion(c)

Timer(c) == QuestionTimesOut(c) \/ QuestionGivesUp(c)

HandlerStep == SignalCancel \/ CloseConnection \/ \E c \in Calls : NotifyWaiter(c)

ModelStep == ModelFails \/ \E asked \in SUBSET InStage({"unused"}) : ModelAnswers(asked)
ToolStep(c) == \E result \in {"ok", "failed"} : FinishTool(c, result)
UserStep(c) == \E decision \in {"approved", "denied"} : ResolveApproval(c, decision)

Next ==
    \/ LoopStep \/ EndGrace \/ HandlerStep \/ ModelStep
    \/ \E c \in Calls : CallStep(c) \/ GateStep(c) \/ Timer(c) \/ ToolStep(c) \/ UserStep(c)
    \/ CancelRun \/ LinkBreaks \/ \E m \in Steers : SteerRun(m)
    \/ Finished

\* The server's own tasks and timers run; nothing is assumed of the model, the
\* tools or the users.
ServerFairness ==
    /\ WF_vars(LoopStep) /\ WF_vars(EndGrace) /\ WF_vars(SignalCancel)
    /\ WF_vars(~link /\ CloseConnection)
    /\ \A c \in Calls : /\ WF_vars(CallStep(c)) /\ WF_vars(GateStep(c))
                        /\ WF_vars(NotifyWaiter(c))

Spec == Init /\ [][Next]_vars /\ ServerFairness

\* The model answers, tools return and users decide as well.
CooperativeFairness ==
    /\ WF_vars(ModelStep)
    /\ \A c \in Calls : WF_vars(ToolStep(c)) /\ WF_vars(UserStep(c))
CooperativeSpec == Spec /\ CooperativeFairness

-----------------------------------------------------------------------------
(* Properties *)

ResultsOf(c) == {i \in DOMAIN log : log[i].kind \in ResultKinds /\ c \in log[i].calls}

\* The loop, a cancel and the tools' own results race for each call: whenever
\* the model is asked again, and once the run has ended, every call it listed
\* has a result in the log, and no call ever has two.
CallsAnsweredOnce ==
    /\ \A c \in Calls : Cardinality(ResultsOf(c)) <= 1
    /\ Terminal \/ pc \in {"turn", "streaming"} => PendingCalls = {}

\* A call that was put to the user runs only with an approved ticket, whichever
\* way the decision reached the gate, and only after its tool.started.
ConsentBeforeEffect ==
    \A c \in InJoinSet :
        /\ c \in CallsIn({"ToolStarted"})
        /\ c \notin Questions => Decision(c) \in {"none", "approved"}

\* The history the model sees holds every steer up to the cursor once, in the
\* order the clients' steers were accepted.
SteersInOrder == delivered = SteersIn(SubSeq(log, 1, steerCursor))

\* While the model is being asked, in a turn nobody stopped, the run is not
\* waiting for an approval, so it can complete.  (tools.rs on ask_user: without
\* expiring the ticket "the run would sit in `awaiting_approval` forever and
\* `run.completed` would fail its transition".)
NoStaleQuestion ==
    pc \in {"turn", "streaming", "completing"} /\ ~signal => status # "awaiting"

\* A run never completes with an accepted steer unread.  (loop_runtime.rs drains
\* before completing so that no caller sees "delivery reported while the message
\* is never consumed by this run".)
SteersConsumed ==
    status = "completed" => \A i \in DOMAIN log : IsSteer(log[i]) => i <= steerCursor

\* The gate waits only for requests that were fanned out.  (lib.rs: "Subscribers
\* see the approval request even if the owner is gone".)
RequestAnnounced ==
    \A c \in Calls : gate[c] = "waiting" /\ Decision(c) = "pending" /\ ~Terminal
                        => c \in announced

\* An approval the gate passes on was given to the call that waits for it.  (Threat model:
\* that a "stale approval resolves another action" is excluded by a "stable approval id".)
ApprovedForItself ==
    \A c \in Calls : gate[c] = "approved" => c \in CallsIn({"ApprovalResolved"})

\* A turn that was cancelled, or whose owner has gone, ends, whether or not the
\* model, the tools and the users ever answer.
StopsWhenTold == (status = "cancelled" \/ closed \/ ~link) ~> (pc = "ended" /\ Terminal)

\* A decision reaches the gate that waits for it, also when it commits before
\* the waiter is registered.
DecisionReachesGate ==
    \A c \in Calls : (Decision(c) \in Outcomes /\ InGate(c)) ~> ~InGate(c)

\* When the model, the tools and the users answer, the turn ends.
TurnEnds == <>[](pc = "ended" /\ Terminal)

=============================================================================
