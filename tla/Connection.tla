------------------------------- MODULE Connection -------------------------------
(***************************************************************************)
(* One client's connection (cool-app-server lib.rs serve_io, Outbound,     *)
(* ConnectionState and the handlers that register with it; client.rs).     *)
(* The serve loop reads requests and starts a handler for each; handlers,  *)
(* and the runs they start, put frames on one bounded queue that a writer  *)
(* task empties into the transport.  A send that meets a full queue for    *)
(* the delivery deadline, or a write that blocks for the write deadline,   *)
(* marks the connection failed.  At its end the loop waits for the         *)
(* handlers, cancels the runs the connection owns, takes its registrations *)
(* back and waits for the writer, which ends when nobody holds the queue.  *)
(***************************************************************************)
EXTENDS Integers, Sequences, FiniteSets

CONSTANTS
    Sends,          \* what a client may send: sequences of kinds of request
    QueueRoom,      \* outbound_queue
    MaxInFlight     \* max_in_flight: permits for handlers

ASSUME ConnectionAssumption ==
    /\ {QueueRoom, MaxInFlight} \subseteq Nat \ {0}
    /\ Sends \subseteq Seq({"init", "bad", "get", "prompt", "aux", "subscribe"})

VARIABLES
    sends,          \* the requests of this client, fixed
    asked,          \* how many it has sent
    got,            \* client: per request, what it knows of its answer
    peer,           \* client: "open", "stalled" (reads no more), "closed"
    serving,        \* the serve loop: where it is, and the request in its hands
    readTo,         \* how many requests were read
    ready,          \* ConnectionState.initialized
    handling,       \* per request: where its handler is
    outgoing,       \* the frames in the queue
    writerAt,       \* the writer task: "up", "ended", "broken"
    failed,         \* the connection_failed flag
    mine,           \* owned_runs and subscribed_runs of this connection
    listed,         \* run_owners and run_subscribers: the entries of this connection
    runOf           \* per request: the run it started

clientVars == <<sends, asked, got, peer>>
connVars == <<clientVars, serving, readTo, ready, handling, outgoing, writerAt, failed, mine, listed, runOf>>

Calls == DOMAIN sends
CallNumbers == UNION {DOMAIN s : s \in Sends}
Kind(r) == sends[r]
InFlight == {r \in Calls : handling[r] \notin {"none", "done"}}
\* The run of a request that somebody drives: it holds the queue open.
Driven(r) == runOf[r] \in {"live", "told"}
RunCalls == {r \in Calls : Kind(r) \in {"prompt", "aux"}}
Frame(r, what) == [to |-> r, what |-> what]
HandlerAt(r, at) == handling' = [handling EXCEPT ![r] = at]

\* Outbound::send: in the queue, or refused because the writer is gone, or given up on a full
\* queue after the deadline; the last two fail the connection.
Puts(frame) ==
    \/ writerAt = "up" /\ Len(outgoing) < QueueRoom /\ outgoing' = Append(outgoing, frame) /\ UNCHANGED failed
    \/ (writerAt # "up" \/ Len(outgoing) = QueueRoom) /\ failed' = TRUE /\ UNCHANGED outgoing
Delivered == failed' = failed

-----------------------------------------------------------------------------
(* The client *)

\* Requests are numbered and remembered before they are written.
ClientAsks ==
    /\ peer # "closed" /\ asked < Len(sends)
    /\ asked' = asked + 1 /\ got' = [got EXCEPT ![asked + 1] = "waiting"]
    /\ UNCHANGED <<sends, peer, serving, readTo, ready, handling, outgoing, writerAt, failed, mine, listed, runOf>>
Stalls ==
    /\ peer = "open" /\ peer' = "stalled"
    /\ UNCHANGED <<sends, asked, got, serving, readTo, ready, handling, outgoing, writerAt, failed, mine, listed, runOf>>
\* fail_pending: what waits when the reader ends hears of it.
Closes ==
    /\ peer # "closed" /\ peer' = "closed"
    /\ got' = [r \in Calls |-> IF got[r] = "waiting" THEN "closed" ELSE got[r]]
    /\ UNCHANGED <<sends, asked, serving, readTo, ready, handling, outgoing, writerAt, failed, mine, listed, runOf>>

-----------------------------------------------------------------------------
(* The serve loop *)

ServesAt(at, r) == serving' = [at |-> at, call |-> r]
NextCall == readTo + 1

\* The loop does not wait for the handler of initialize.
ReadsAhead ==
    /\ serving.at = "reading" /\ readTo < asked
    /\ readTo' = NextCall
    /\ \/ Kind(NextCall) = "bad" /\ ServesAt("parse_error", NextCall) /\ UNCHANGED handling
       \/ Kind(NextCall) = "init" /\ ~ready /\ UNCHANGED serving /\ HandlerAt(NextCall, "start")
       \/ /\ Kind(NextCall) \notin {"bad", "init"} /\ ~ready
          /\ ServesAt("not_initialized", NextCall) /\ UNCHANGED handling
       \/ Kind(NextCall) # "bad" /\ ready /\ UNCHANGED serving /\ HandlerAt(NextCall, "start")
    /\ UNCHANGED <<clientVars, ready, outgoing, writerAt, failed, mine, listed, runOf>>
\* A request is refused when it is not one, came before initialize, or finds no permit; the
\* handler of initialize is waited for before the next request is read.
ReadsRequest ==
    /\ serving.at = "reading" /\ readTo < asked
    /\ readTo' = NextCall
    /\ \/ Kind(NextCall) = "bad" /\ ServesAt("parse_error", NextCall) /\ UNCHANGED handling
       \/ /\ Kind(NextCall) = "init" /\ ~ready
          /\ ServesAt("initializing", NextCall) /\ HandlerAt(NextCall, "start")
       \/ /\ Kind(NextCall) \notin {"bad", "init"} /\ ~ready
          /\ ServesAt("not_initialized", NextCall) /\ UNCHANGED handling
       \/ /\ Kind(NextCall) # "bad" /\ ready
          /\ IF Cardinality(InFlight) < MaxInFlight
             THEN UNCHANGED serving /\ HandlerAt(NextCall, "start")
             ELSE ServesAt("server_overloaded", NextCall) /\ UNCHANGED handling
    /\ UNCHANGED <<clientVars, ready, outgoing, writerAt, failed, mine, listed, runOf>>
\* The loop sends a refusal itself, and ends when it cannot.
SendsRefusal ==
    /\ serving.at \in {"parse_error", "not_initialized", "server_overloaded"}
    /\ Puts(Frame(serving.call, serving.at))
    /\ ServesAt(IF Delivered THEN "reading" ELSE "joining", 0)
    /\ UNCHANGED <<clientVars, readTo, ready, handling, writerAt, mine, listed, runOf>>
Initialized ==
    /\ serving.at = "initializing" /\ handling[serving.call] = "done" /\ ServesAt("reading", 0)
    /\ UNCHANGED <<clientVars, readTo, ready, handling, outgoing, writerAt, failed, mine, listed, runOf>>
\* Only the end of its input stops the loop.
StopsAtEnd ==
    /\ serving.at = "reading" /\ peer = "closed" /\ readTo = asked
    /\ ServesAt("joining", 0)
    /\ UNCHANGED <<clientVars, readTo, ready, handling, outgoing, writerAt, failed, mine, listed, runOf>>
StopsReading ==
    /\ serving.at = "reading" /\ (failed \/ (peer = "closed" /\ readTo = asked))
    /\ ServesAt("joining", 0)
    /\ UNCHANGED <<clientVars, readTo, ready, handling, outgoing, writerAt, failed, mine, listed, runOf>>

\* The connection's runs are read before its handlers are waited for.
JoinsLater ==
    /\ serving.at = "joining"
    /\ serving' = [at |-> "cancelling", call |-> 0, runs |-> mine.owned, subs |-> mine.subscribed]
    /\ UNCHANGED <<clientVars, readTo, ready, handling, outgoing, writerAt, failed, mine, listed, runOf>>
\* The handlers are waited for; then the connection's runs are read, cancelled one by one,
\* its registrations taken back and its hold on the queue dropped.
Joins ==
    /\ serving.at = "joining" /\ InFlight = {}
    /\ serving' = [at |-> "cancelling", call |-> 0, runs |-> mine.owned, subs |-> mine.subscribed]
    /\ UNCHANGED <<clientVars, readTo, ready, handling, outgoing, writerAt, failed, mine, listed, runOf>>
Cancels(r) ==
    /\ serving.at = "cancelling" /\ r \in serving.runs
    /\ serving' = [serving EXCEPT !.runs = @ \ {r}]
    /\ runOf' = [runOf EXCEPT ![r] = IF @ = "live" THEN "told" ELSE @]
    /\ UNCHANGED <<clientVars, readTo, ready, handling, outgoing, writerAt, failed, mine, listed>>
DropsRegistrations ==
    /\ serving.at = "cancelling" /\ serving.runs = {}
    /\ listed' = [owner |-> {}, subscriber |-> listed.subscriber \ serving.subs]
    /\ ServesAt("flushing", 0)
    /\ UNCHANGED <<clientVars, readTo, ready, handling, outgoing, writerAt, failed, mine, runOf>>
\* A failed connection does not wait for its writer, any other waits until it has ended.
ServeEnds ==
    /\ serving.at = "flushing" /\ (failed \/ writerAt # "up")
    /\ ServesAt("done", 0) /\ writerAt' = IF writerAt = "up" THEN "broken" ELSE writerAt
    /\ UNCHANGED <<clientVars, readTo, ready, handling, outgoing, failed, mine, listed, runOf>>

-----------------------------------------------------------------------------
(* Handlers *)

Keeps == UNCHANGED <<clientVars, serving, readTo, writerAt>>
\* initialize marks the connection before it answers; any other handler answers at its end.
Initializes(r) ==
    /\ handling[r] = "start" /\ Kind(r) = "init"
    /\ HandlerAt(r, IF ready THEN "already" ELSE "answer") /\ ready' = TRUE
    /\ Keeps /\ UNCHANGED <<outgoing, failed, mine, listed, runOf>>
Handles(r) ==
    /\ handling[r] = "start" /\ Kind(r) = "get" /\ HandlerAt(r, "answer")
    /\ Keeps /\ UNCHANGED <<ready, outgoing, failed, mine, listed, runOf>>
\* session.prompt: the turn is begun and its cancel channel made; answered; then owned,
\* listed and driven.
Begins(r) ==
    /\ handling[r] = "start" /\ Kind(r) \in {"prompt", "aux"}
    /\ runOf' = [runOf EXCEPT ![r] = "begun"]
    /\ HandlerAt(r, IF Kind(r) = "prompt" THEN "answer" ELSE "own")
    /\ Keeps /\ UNCHANGED <<ready, outgoing, failed, mine, listed>>
Owns(r) ==
    /\ handling[r] = "own" /\ HandlerAt(r, "register")
    /\ mine' = [mine EXCEPT !.owned = IF Kind(r) = "prompt" THEN @ \cup {r} ELSE @]
    /\ Keeps /\ UNCHANGED <<ready, outgoing, failed, listed, runOf>>
RegistersOwner(r) ==
    /\ handling[r] = "register" /\ Kind(r) \in {"prompt", "aux"} /\ HandlerAt(r, "spawn")
    /\ listed' = [listed EXCEPT !.owner = @ \cup {r}]
    /\ Keeps /\ UNCHANGED <<ready, outgoing, failed, mine, runOf>>
\* plan.execute, research.start and inspector.replay answer when the run is driven already.
Drives(r) ==
    /\ handling[r] = "spawn" /\ runOf' = [runOf EXCEPT ![r] = "live"]
    /\ HandlerAt(r, IF Kind(r) = "prompt" THEN "done" ELSE "answer")
    /\ Keeps /\ UNCHANGED <<ready, outgoing, failed, mine, listed>>
\* run.subscribe follows a run of another connection: it registers, then notes it, then reads
\* the run again and takes both back when it has ended meanwhile.
RegistersFollower(r) ==
    /\ handling[r] = "start" /\ Kind(r) = "subscribe" /\ HandlerAt(r, "note")
    /\ listed' = [listed EXCEPT !.subscriber = @ \cup {r}]
    /\ Keeps /\ UNCHANGED <<ready, outgoing, failed, mine, runOf>>
NotesFollowed(r) ==
    /\ handling[r] = "note" /\ HandlerAt(r, "reread")
    /\ mine' = [mine EXCEPT !.subscribed = @ \cup {r}]
    /\ Keeps /\ UNCHANGED <<ready, outgoing, failed, listed, runOf>>
FindsItLive(r) ==
    /\ handling[r] = "reread" /\ HandlerAt(r, "answer")
    /\ Keeps /\ UNCHANGED <<ready, outgoing, failed, mine, listed, runOf>>
FindsItEnded(r) ==
    /\ handling[r] = "reread" /\ HandlerAt(r, "answer")
    /\ listed' = [listed EXCEPT !.subscriber = @ \ {r}]
    /\ mine' = [mine EXCEPT !.subscribed = @ \ {r}]
    /\ Keeps /\ UNCHANGED <<ready, outgoing, failed, runOf>>
HandlerAnswers(r) ==
    /\ handling[r] \in {"answer", "already"}
    /\ Puts(Frame(r, IF handling[r] = "already" THEN "already_initialized" ELSE "result"))
    /\ HandlerAt(r, IF Kind(r) = "prompt" THEN "own" ELSE "done")
    /\ Keeps /\ UNCHANGED <<ready, mine, listed, runOf>>

-----------------------------------------------------------------------------
(* Runs and the writer *)

\* An event of a run; a send that fails does not stop the run, the handler of a cancel does.
Emits(r) ==
    /\ Driven(r) /\ Puts(Frame(0, "event"))
    /\ Keeps /\ UNCHANGED <<ready, handling, mine, listed, runOf>>
RunEnds(r) ==
    /\ Driven(r) /\ runOf' = [runOf EXCEPT ![r] = "ended"]
    /\ listed' = [listed EXCEPT !.owner = @ \ {r}]
    /\ Keeps /\ UNCHANGED <<ready, handling, outgoing, failed, mine>>

StopsTold(r) == runOf[r] = "told" /\ RunEnds(r)

Writes ==
    /\ writerAt = "up" /\ outgoing # <<>> /\ peer = "open"
    /\ outgoing' = Tail(outgoing)
    /\ LET f == Head(outgoing) IN
       got' = IF f.to # 0 /\ got[f.to] = "waiting" THEN [got EXCEPT ![f.to] = f.what] ELSE got
    /\ UNCHANGED <<sends, asked, peer, serving, readTo, ready, handling, writerAt, failed, mine, listed, runOf>>
\* A peer that does not read blocks the write for the deadline, one that is gone breaks it.
WriteFails ==
    /\ writerAt = "up" /\ outgoing # <<>> /\ peer # "open"
    /\ writerAt' = "broken" /\ failed' = TRUE /\ outgoing' = <<>>
    /\ UNCHANGED <<clientVars, serving, readTo, ready, handling, mine, listed, runOf>>
\* The queue closes when the loop, the handlers, the runs and the registrations let it go.
WriterEnds ==
    /\ writerAt = "up" /\ outgoing = <<>> /\ serving.at = "flushing"
    /\ InFlight = {} /\ listed.subscriber = {} /\ \A r \in Calls : ~Driven(r)
    /\ writerAt' = "ended"
    /\ UNCHANGED <<clientVars, serving, readTo, ready, handling, outgoing, failed, mine, listed, runOf>>

ConnectionInit ==
    /\ sends \in Sends /\ asked = 0 /\ got = [r \in DOMAIN sends |-> "none"] /\ peer = "open"
    /\ serving = [at |-> "reading", call |-> 0] /\ readTo = 0 /\ ready = FALSE
    /\ handling = [r \in DOMAIN sends |-> "none"] /\ outgoing = <<>> /\ writerAt = "up" /\ failed = FALSE
    /\ mine = [owned |-> {}, subscribed |-> {}] /\ listed = [owner |-> {}, subscriber |-> {}]
    /\ runOf = [r \in DOMAIN sends |-> "none"]

ServeStep ==
    \/ ReadsRequest \/ SendsRefusal \/ Initialized \/ StopsReading
    \/ Joins \/ (\E r \in Calls : Cancels(r)) \/ DropsRegistrations \/ ServeEnds
HandlerStep(r) ==
    \/ Initializes(r) \/ Handles(r) \/ Begins(r) \/ Owns(r) \/ RegistersOwner(r) \/ Drives(r)
    \/ RegistersFollower(r) \/ NotesFollowed(r) \/ FindsItLive(r) \/ FindsItEnded(r) \/ HandlerAnswers(r)
WriterStep == Writes \/ WriteFails \/ WriterEnds
ConnectionNext ==
    \/ ClientAsks \/ Stalls \/ Closes \/ ServeStep \/ WriterStep
    \/ \E r \in Calls : HandlerStep(r) \/ Emits(r) \/ RunEnds(r)

ConnectionSpec == ConnectionInit /\ [][ConnectionNext]_connVars

\* Tasks are scheduled, deadlines pass, and a run that was told to stop does.
ConnectionFairness ==
    /\ WF_connVars(ServeStep) /\ WF_connVars(WriterStep)
    /\ \A r \in CallNumbers : WF_connVars(r \in Calls /\ HandlerStep(r))
    /\ \A r \in CallNumbers : WF_connVars(r \in Calls /\ StopsTold(r))

-----------------------------------------------------------------------------
(* Properties *)

\* When serve_io has returned nothing of the connection is left: no handler, every run it owns
\* told to stop or ended, no entry of its in the registries, although prompts and
\* subscriptions were half done when it ended.
TornDown == serving.at = "done" =>
    /\ InFlight = {} /\ listed = [owner |-> {}, subscriber |-> {}]
    /\ \A r \in Calls : Kind(r) = "prompt" => runOf[r] \in {"none", "told", "ended"}
\* A client that sends initialize first and does not wait for its answer is never told that
\* the connection is not initialized.
NoFalseRefusal == \A r \in Calls :
    got[r] = "not_initialized" => \A q \in 1..r : Kind(q) # "init"
ConnectionHolds == TornDown /\ NoFalseRefusal

\* A connection whose client is gone, or that failed, ends, unless a run it does not own (of a
\* plan, a research, a replay) is still driven: that one is not told.
ConnectionEnds == (peer = "closed" \/ failed) ~> (serving.at = "done" \/ \E r \in Calls : Kind(r) = "aux" /\ Driven(r))
================================================================================
