------------------------------- MODULE ModelCalls --------------------------------
(***************************************************************************)
(* One call of the model (cool-agent provider.rs, anthropic.rs, gemini.rs  *)
(* and the part of loop_runtime.rs that makes it): the connection and its  *)
(* retries, the spawned task that turns the provider's lines into events,  *)
(* and the loop that puts the answer together while a cancel may come.     *)
(* The provider and the network are external: lines arrive in halves, and  *)
(* the connection may end, break or fall silent at any of them.            *)
(***************************************************************************)
EXTENDS Naturals, FiniteSets, Sequences, SequencesExt

CONSTANTS
    Wires,        \* per driver ("chat", "anthropic", "gemini"): the answers it may be sent
    MaxRetries    \* AgentLimits.max_provider_retries

Providers == {"chat", "anthropic", "gemini"}
\* What a line of the stream carries: some text or reasoning, the head of a tool call, a
\* half of its arguments, a whole call (gemini), the close of the calls, the usage, the
\* end marker, an error the provider reports, and something that is not its JSON.
LineKinds == {"text", "thought", "head", "half", "call", "close", "usage", "stop",
              "overloaded", "garbled"}

ASSUME WiresAssumption == Wires \in [Providers -> SUBSET Seq(LineKinds)] /\ MaxRetries \in Nat

VARIABLES
    driver,       \* which driver the run has
    callAt,       \* where the loop is with this call
    attempt,      \* retries so far
    wire,         \* the answer the provider sends on the present connection
    halves,       \* half-lines of it that arrived
    open,         \* the task still reads
    pieces,       \* its accumulator: the halves a begun call has, none: no call
    queue,        \* events between the task and the loop: <<kind, attempt, line>>
    message,      \* the texts and calls taken so far
    progressed,
    cancelAsked   \* the cancel channel holds a reason

callVars == <<driver, callAt, attempt, wire, halves, open, pieces, queue, message, progressed, cancelAsked>>
taskState == <<wire, halves, open, pieces>>

NoCall == 9
CallEnded == callAt \in {"answered", "failed", "cancelled"}
LoopAt(at) == callAt' = at

-----------------------------------------------------------------------------
(* The task of a stream *)

\* OpenAiToolAccumulator::finish and its like: no arguments are an empty object, half of
\* them are not JSON.
Flushed(halfs) == CASE halfs = 0 -> <<"bare call">> [] halfs = 1 -> <<"bad call">>
                    [] halfs = 2 -> <<"call">> [] OTHER -> <<>>

\* process_sse_line, process_line: the events of one line.
EventsOf(line) ==
    CASE line \in {"text", "thought", "usage", "call"} -> <<line>>
      [] line = "close" -> Flushed(pieces)
      [] line = "stop" -> (IF driver = "gemini" THEN <<>> ELSE Flushed(pieces)) \o <<"finish">>
      [] line = "garbled" -> <<"final">>
      [] line = "overloaded" -> IF driver = "chat" THEN <<>> ELSE <<"retryable">>
      [] OTHER -> <<>>
\* The task returns at the end marker (gemini reads on) and at an error.
Returns(line) ==
    \/ line = "stop" /\ driver # "gemini"
    \/ line = "overloaded" /\ driver # "chat"
    \/ line = "garbled"
PartsAfter(line) ==
    CASE line = "head" -> 0
      [] line = "half" /\ pieces # NoCall -> pieces + 1
      [] line \in {"close", "stop"} -> NoCall
      [] OTHER -> pieces

\* An event is named after its kind, its attempt and the line it came from.
Sent(kinds, line) == queue' = queue \o [i \in DOMAIN kinds |-> <<kinds[i], attempt, line>>]

\* decode_sse_lines keeps what is not a whole line.
Arrives ==
    /\ open /\ halves < 2 * Len(wire) /\ halves' = halves + 1
    /\ IF halves' % 2 = 1 THEN UNCHANGED <<open, pieces, queue>>
       ELSE LET line == wire[halves' \div 2]
            IN  /\ Sent(EventsOf(line), halves' \div 2)
                /\ pieces' = PartsAfter(line) /\ open' = ~Returns(line)
    /\ UNCHANGED <<driver, callAt, attempt, wire, message, progressed, cancelAsked>>

\* The connection ends in order: inside a line that is an error, and otherwise what was
\* accumulated is finished.  The driver of gemini only closes its channel.
Ended == IF halves % 2 = 1 THEN <<"retryable">>
         ELSE IF driver = "gemini" THEN <<>> ELSE Flushed(pieces) \o <<"finish">>
StreamEnds ==
    /\ open /\ open' = FALSE /\ Sent(Ended, halves \div 2)
    /\ UNCHANGED <<driver, callAt, attempt, wire, halves, pieces, message, progressed, cancelAsked>>
\* It breaks or times out, or more came than the policy allows.
StreamBreaks(error) ==
    /\ open /\ open' = FALSE /\ Sent(<<error>>, halves \div 2)
    /\ UNCHANGED <<driver, callAt, attempt, wire, halves, pieces, message, progressed, cancelAsked>>

-----------------------------------------------------------------------------
(* The loop *)

StartsCall ==
    /\ callAt = "idle" /\ LoopAt("connecting")
    /\ UNCHANGED <<driver, attempt, taskState, queue, message, progressed, cancelAsked>>

\* stream_once up to the response; at is "connecting", or "reconnecting" for a stream
\* that is to replace a broken one.
Connects(at) ==
    /\ callAt = at /\ LoopAt("reading")
    /\ wire' \in Wires[driver] /\ halves' = 0 /\ open' = TRUE /\ pieces' = NoCall /\ queue' = <<>>
    /\ UNCHANGED <<driver, attempt, message, progressed, cancelAsked>>

\* Name lookup, request or status fail, or nothing comes before the timeout: not awaited
\* together with the cancel.
Retries(error) == error = "retryable" /\ attempt < MaxRetries
ConnectFails(error) ==
    /\ callAt = "connecting"
    /\ IF Retries(error) THEN attempt' = attempt + 1 /\ LoopAt("backing off")
                         ELSE LoopAt("failed") /\ UNCHANGED attempt
    /\ UNCHANGED <<driver, taskState, queue, message, progressed, cancelAsked>>
ReconnectFails ==
    /\ callAt = "reconnecting" /\ LoopAt("failed")
    /\ UNCHANGED <<driver, attempt, taskState, queue, message, progressed, cancelAsked>>

BacksOff(from, to) ==
    /\ callAt = from /\ LoopAt(to)
    /\ UNCHANGED <<driver, attempt, taskState, queue, message, progressed, cancelAsked>>

\* Mutant: a stream that broke in the middle is asked for again.
RetriesAnyBreak(error) == Retries(error)
RetriesBreak(error) == Retries(error) /\ ~progressed

Takes(event) == message' = Append(message, event) /\ progressed' = TRUE /\ UNCHANGED <<callAt, attempt>>
TakesEvent ==
    /\ callAt = "reading" /\ queue # <<>> /\ queue' = Tail(queue)
    /\ LET event == Head(queue)
           kind == event[1]
       IN  \/ kind \in {"text", "call", "bare call"} /\ Takes(event)
           \/ kind = "thought" /\ progressed' = TRUE /\ UNCHANGED <<callAt, attempt, message>>
           \/ kind = "usage" /\ UNCHANGED <<callAt, attempt, message, progressed>>
           \/ kind = "finish" /\ LoopAt("answered") /\ UNCHANGED <<attempt, message, progressed>>
           \/ /\ kind \in {"retryable", "final", "bad call"} /\ UNCHANGED <<message, progressed>>
              /\ IF RetriesBreak(kind) THEN attempt' = attempt + 1 /\ LoopAt("waiting")
                                       ELSE LoopAt("failed") /\ UNCHANGED attempt
    /\ UNCHANGED <<driver, taskState, cancelAsked>>
\* The sink refuses: an emit fails, reserve_usage finds the budget used up, or the limits are
\* found exceeded at the end.
SinkRefuses ==
    /\ callAt = "reading" /\ LoopAt("failed")
    /\ queue = <<>> => ~open
    /\ queue # <<>> => Head(queue)[1] \in {"text", "thought", "usage", "finish"}
    /\ UNCHANGED <<driver, attempt, taskState, queue, message, progressed, cancelAsked>>
\* The channel is closed: the answer is taken as it is.
ChannelCloses ==
    /\ callAt = "reading" /\ ~open /\ queue = <<>> /\ LoopAt("answered")
    /\ UNCHANGED <<driver, attempt, taskState, queue, message, progressed, cancelAsked>>

CancelComes ==
    /\ callAt # "idle" /\ ~cancelAsked /\ cancelAsked' = TRUE
    /\ UNCHANGED <<driver, callAt, attempt, taskState, queue, message, progressed>>
SeesCancel ==
    /\ cancelAsked /\ callAt \in {"reading", "backing off", "waiting"} /\ LoopAt("cancelled")
    /\ UNCHANGED <<driver, attempt, taskState, queue, message, progressed, cancelAsked>>

-----------------------------------------------------------------------------
CallInit ==
    /\ driver \in Providers /\ callAt = "idle" /\ attempt = 0 /\ wire = <<>> /\ halves = 0
    /\ open = FALSE /\ pieces = NoCall /\ queue = <<>> /\ message = <<>>
    /\ progressed = FALSE /\ cancelAsked = FALSE

ModelLoopStep ==
    \/ BacksOff("backing off", "connecting") \/ BacksOff("waiting", "reconnecting")
    \/ TakesEvent \/ ChannelCloses \/ SeesCancel
\* Mutant: the client is built without a timeout.
NeverTimesOut == FALSE
\* The client's timeout covers the whole request, its body included.
TimesOut == ConnectFails("retryable") \/ ReconnectFails \/ StreamBreaks("retryable")

CallNext ==
    \/ StartsCall \/ ModelLoopStep \/ TimesOut \/ CancelComes \/ SinkRefuses
    \/ Connects("connecting") \/ Connects("reconnecting") \/ ConnectFails("final")
    \/ Arrives \/ StreamEnds \/ StreamBreaks("final")

-----------------------------------------------------------------------------
(* Properties *)

Texts(events) == SelectSeq(events, LAMBDA e : e[1] = "text")
CallsOf(events) == SelectSeq(events, LAMBDA e : e[1] # "text")
Lines(kinds, upTo) == {i \in 1..upTo : wire[i] \in kinds}
LastMarker == Lines({"stop"}, Len(wire)) # {} /\ halves >= 2 * SelectInSeq(wire, LAMBDA k : k = "stop")

\* An answer the loop keeps is one attempt's, from its first line on, each text once and in
\* order, whatever broke and was retried before; if the provider's end marker was read it is
\* all there, with every call and its arguments.
AnswerIsWhole ==
    callAt = "answered" =>
        LET texts == SetToSortSeq(Lines({"text"}, halves \div 2), <)
        IN  /\ IsPrefix(Texts(message), [i \in DOMAIN texts |-> <<"text", attempt, texts[i]>>])
            /\ LastMarker /\ "overloaded" \notin Range(wire) =>
                  /\ Len(Texts(message)) = Cardinality(Lines({"text"}, Len(wire)))
                  /\ Len(CallsOf(message)) = Cardinality(Lines({"head", "call"}, Len(wire)))
                  /\ \A i \in DOMAIN CallsOf(message) : CallsOf(message)[i][1] = "call"

\* Every call of the model ends, also when the provider accepts and then says nothing.
CallEnds == callAt = "connecting" ~> CallEnded

\* An answer was completed by the provider.  (Not so: a stream that ends in order between two
\* lines, before its end marker, is taken as it is.)
OnlyCompleteAnswers == callAt = "answered" => LastMarker
================================================================================
