------------------------------ MODULE ExtensionCalls -----------------------------
(***************************************************************************)
(* What the program asks of its extensions (cool-extensions runtime.rs,    *)
(* hooks.rs, mcp.rs, worker.rs): an event runs its hooks in their order,   *)
(* each a command, or a tool call on an MCP server over HTTP or over the   *)
(* pipes of a process of its own; and requests to the one compatibility    *)
(* worker, which is supervised: who sends holds its lock, and a request    *)
(* that fails restarts it.  Servers, processes and worker are external:    *)
(* they act, answer, die or fall silent at any point, and whoever awaits a *)
(* request may give it up.                                                 *)
(***************************************************************************)
EXTENDS Naturals, Sequences, FiniteSets, SequencesExt

CONSTANTS
    Hooks,        \* per hook of the event: its order, whether it is parallel, its transport
    Reviews,      \* the reviews that may be: subsets of the hooks, those approved as they are
    WorkerCalls,  \* requests to the worker, those of the heartbeat among them
    MaxRestarts,  \* bound: restarts of the worker
    MaxExpiries   \* bound: sessions the HTTP server forgets

NoCaller == "nobody"

ASSUME ExtensionAssumption ==
    /\ \A h \in DOMAIN Hooks : Hooks[h].order \in Nat /\ Hooks[h].parallel \in BOOLEAN
                               /\ Hooks[h].over \in {"http", "stdio", "command"}
    /\ Reviews \subseteq SUBSET DOMAIN Hooks /\ {MaxRestarts, MaxExpiries} \subseteq Nat
    /\ NoCaller \notin WorkerCalls

HookIds == DOMAIN Hooks

VARIABLES
    reviewed,     \* the hooks whose review holds for what they are now
    hook,         \* per hook: where its invocation is, its attempt, and how often it acted
    sessions,     \* the sessions the HTTP server knows
    expiries,
    audit,        \* the lines of the audit file: <<hook, outcome>>
    holder,       \* who holds the lock of the workers
    request,      \* per request: where it is, its id, whose answer it was given, how often it acted
    worker,       \* alive, attempt, the next id, half a line left in its input, what it reads
    toWorker, fromWorker    \* its pipes: <<id, request>>

extVars == <<reviewed, hook, sessions, expiries, audit, holder, request, worker, toWorker,
             fromWorker>>
hookVars == <<reviewed, hook, sessions, expiries, audit>>
workerVars == <<holder, request, worker, toWorker, fromWorker>>

HookAt(h, at) == hook' = [hook EXCEPT ![h].at = at]
ActsAnd(h, at) == hook' = [hook EXCEPT ![h].at = at, ![h].acts = @ + 1]
RequestAt(c, at) == request' = [request EXCEPT ![c].at = at]
Again(h) == [hook EXCEPT ![h].at = "opening", ![h].attempt = 1]
HookEnded(h) == hook[h].at \in {"completed", "failed", "blocked"}

-----------------------------------------------------------------------------
(* The hooks of one event *)

\* lifecycle_event: by order; of one order the parallel ones side by side, then the others
\* one after the other.
Before(g, h) ==
    \/ Hooks[g].order < Hooks[h].order
    \/ Hooks[g].order = Hooks[h].order /\ Hooks[g].parallel /\ ~Hooks[h].parallel
    \/ Hooks[g].order = Hooks[h].order /\ Hooks[g].parallel = Hooks[h].parallel
       /\ ~Hooks[h].parallel /\ g < h
ItsTurn(h) == \A g \in HookIds : Before(g, h) => HookEnded(g)

\* Mutant: a hook is known by its name.
InvokesByName(h) ==
    /\ hook[h].at = "waiting" /\ ItsTurn(h) /\ HookAt(h, "opening") /\ UNCHANGED audit
    /\ UNCHANGED <<reviewed, sessions, expiries, workerVars>>
\* invoke: a hook that was not reviewed as it is, or that the policy does not let run, is
\* noted and passed over; it fails when the reviews or the audit file cannot be had.
Invokes(h) ==
    /\ hook[h].at = "waiting" /\ ItsTurn(h)
    /\ \/ h \in reviewed /\ HookAt(h, "opening") /\ UNCHANGED audit
       \/ HookAt(h, "blocked") /\ audit' = audit \cup {<<h, "blocked">>}
       \/ HookAt(h, "failed") /\ UNCHANGED audit
    /\ UNCHANGED <<reviewed, sessions, expiries, workerVars>>

\* A process is started for each call over pipes, initialized, called, and killed once the
\* answer was read, past whatever else it writes, or none came in time.
EndsProcess(h) ==
    /\ ActsAnd(h, "answered") \/ ActsAnd(h, "broken") \/ HookAt(h, "broken")
    /\ UNCHANGED <<reviewed, sessions, expiries, audit, workerVars>>
CallsProcess(h) == hook[h].at = "opening" /\ Hooks[h].over = "stdio" /\ EndsProcess(h)
\* command: the process is the hook itself: its exit code, output or the timeout decide.
RunsCommand(h) == hook[h].at = "opening" /\ Hooks[h].over = "command" /\ EndsProcess(h)

\* http_session_request: initialize opens a session ...
OpensSession(h) ==
    /\ hook[h].at = "opening" /\ Hooks[h].over = "http"
    /\ \/ /\ HookAt(h, "opened") /\ sessions' = sessions \cup {<<h, hook[h].attempt>>}
       \/ HookAt(h, "broken") /\ UNCHANGED sessions
    /\ UNCHANGED <<reviewed, expiries, audit, workerVars>>
\* ... and when the server has forgotten it, a second one is opened, once.
HasSession(h) == <<h, hook[h].attempt>> \in sessions
Expired(h, at) ==
    /\ hook[h].at = at /\ Hooks[h].over = "http" /\ ~HasSession(h)
    /\ hook' = IF hook[h].attempt = 0 THEN Again(h)
                                      ELSE [hook EXCEPT ![h].at = "broken"]
    /\ UNCHANGED <<reviewed, sessions, expiries, audit, workerVars>>
Notifies(h) ==
    /\ hook[h].at = "opened"
    /\ (HasSession(h) /\ HookAt(h, "initialized")) \/ HookAt(h, "broken")
    /\ UNCHANGED <<reviewed, sessions, expiries, audit, workerVars>>
PostsCall(h) ==
    /\ hook[h].at = "initialized" /\ HasSession(h) /\ ActsAnd(h, "acted")
    /\ UNCHANGED <<reviewed, sessions, expiries, audit, workerVars>>
\* Mutant: a call that broke is tried again.
BreaksOnce(h) ==
    /\ hook[h].at \in {"initialized", "acted"}
    /\ IF hook[h].attempt = 0 THEN hook' = Again(h)
                              ELSE HookAt(h, "broken")
    /\ UNCHANGED <<reviewed, sessions, expiries, audit, workerVars>>
CallBreaks(h) ==
    /\ hook[h].at \in {"initialized", "acted"} /\ HookAt(h, "broken")
    /\ UNCHANGED <<reviewed, sessions, expiries, audit, workerVars>>
CallAnswered(h) ==
    /\ hook[h].at = "acted" /\ HookAt(h, "answered")
    /\ UNCHANGED <<reviewed, sessions, expiries, audit, workerVars>>
ServerForgets(s) ==
    /\ expiries < MaxExpiries /\ expiries' = expiries + 1 /\ sessions' = sessions \ {s}
    /\ UNCHANGED <<reviewed, hook, audit, workerVars>>

\* The outcome is written to the audit file; when that fails, so does the hook.
Audits(h) ==
    /\ hook[h].at \in {"answered", "broken"}
    /\ LET outcome == IF hook[h].at = "answered" THEN "completed" ELSE "failed"
       IN  \/ HookAt(h, outcome) /\ audit' = audit \cup {<<h, outcome>>}
           \/ HookAt(h, "failed") /\ UNCHANGED audit
    /\ UNCHANGED <<reviewed, sessions, expiries, workerVars>>

-----------------------------------------------------------------------------
(* The worker *)

TakesLock(c) ==
    /\ request[c].at = "new" /\ holder = NoCaller /\ holder' = c /\ RequestAt(c, "locked")
    /\ UNCHANGED <<hookVars, worker, toWorker, fromWorker>>

\* request_cancellable: the next id is taken, then the line is written.  What follows half a
\* line is not read as a line of its own.
NextId(c) == request' = [request EXCEPT ![c].id = worker.next, ![c].at = "sent"]
WritesLine(c) ==
    /\ request[c].at = "locked" /\ worker.alive /\ NextId(c)
    /\ worker' = [worker EXCEPT !.next = @ + 1, !.torn = FALSE]
    /\ toWorker' = IF worker.torn THEN toWorker ELSE Append(toWorker, <<worker.next, c>>)
    /\ UNCHANGED <<hookVars, holder, fromWorker>>
SendFails(c) ==
    /\ request[c].at = "locked" /\ ~worker.alive /\ RequestAt(c, "failing")
    /\ UNCHANGED <<hookVars, holder, worker, toWorker, fromWorker>>

\* Mutant: the next line is taken for the answer.
ReadsAnyLine(c) ==
    /\ request[c].at = "sent" /\ fromWorker # <<>> /\ fromWorker' = Tail(fromWorker)
    /\ request' = [request EXCEPT ![c].at = "completed", ![c].answer = Head(fromWorker)[2]]
    /\ holder' = NoCaller
    /\ UNCHANGED <<hookVars, worker, toWorker>>
\* Lines of other ids are passed over.
ReadsAnswer(c) ==
    /\ request[c].at = "sent" /\ fromWorker # <<>> /\ fromWorker' = Tail(fromWorker)
    /\ IF Head(fromWorker)[1] # request[c].id THEN UNCHANGED <<request, holder>>
       ELSE /\ request' = [request EXCEPT ![c].at = "completed", ![c].answer = Head(fromWorker)[2]]
            /\ holder' = NoCaller
    /\ UNCHANGED <<hookVars, worker, toWorker>>
\* The deadline, the end of its output, an error it reports, or a line that is no answer.
AnswerFails(c) ==
    /\ request[c].at = "sent" /\ RequestAt(c, "failing")
    /\ UNCHANGED <<hookVars, holder, worker, toWorker, fromWorker>>

\* terminate, then spawn and handshake: the request is not sent again.
Respawned == [alive |-> TRUE, attempt |-> worker.attempt + 1, next |-> 2, torn |-> FALSE]
Restarts(c) ==
    /\ request[c].at = "failing" /\ worker.attempt < MaxRestarts
    /\ worker' = Respawned /\ toWorker' = <<>> /\ fromWorker' = <<>>
    /\ RequestAt(c, "unknown outcome") /\ holder' = NoCaller
    /\ UNCHANGED hookVars
\* Mutant: the new worker is sent what the old one may have had.
RestartsAndResends(c) ==
    /\ request[c].at = "failing" /\ worker.attempt < MaxRestarts
    /\ worker' = [Respawned EXCEPT !.next = 3] /\ toWorker' = <<<<2, c>>>> /\ fromWorker' = <<>>
    /\ request' = [request EXCEPT ![c].at = "sent", ![c].id = 2]
    /\ UNCHANGED <<hookVars, holder>>
RestartFails(c) ==
    /\ request[c].at = "failing" /\ worker.attempt < MaxRestarts /\ RequestAt(c, "error") /\ holder' = NoCaller
    /\ worker' = [worker EXCEPT !.alive = FALSE, !.attempt = @ + 1]
    /\ toWorker' = <<>> /\ fromWorker' = <<>>
    /\ UNCHANGED hookVars

\* The caller gives up, also in the middle of a line: the lock is free, the worker as it is.
GivesUp(c) ==
    /\ holder = c /\ holder' = NoCaller /\ RequestAt(c, "given up")
    /\ worker' = [worker EXCEPT !.torn = @ \/ (request[c].at = "locked" /\ worker.alive)]
    /\ UNCHANGED <<hookVars, toWorker, fromWorker>>

WorkerActs ==
    /\ worker.alive /\ toWorker # <<>> /\ toWorker' = Tail(toWorker)
    /\ request' = [request EXCEPT ![Head(toWorker)[2]].acts = @ + 1]
    /\ fromWorker' = Append(fromWorker, Head(toWorker)) \/ UNCHANGED fromWorker
    /\ UNCHANGED <<hookVars, holder, worker>>
WorkerDies ==
    /\ worker.alive /\ worker' = [worker EXCEPT !.alive = FALSE] /\ toWorker' = <<>>
    /\ UNCHANGED <<hookVars, holder, request, fromWorker>>

-----------------------------------------------------------------------------
ExtensionInit ==
    /\ reviewed \in Reviews
    /\ hook = [h \in HookIds |-> [at |-> "waiting", attempt |-> 0, acts |-> 0]]
    /\ sessions = {} /\ expiries = 0 /\ audit = {} /\ holder = NoCaller
    /\ request = [c \in WorkerCalls |-> [at |-> "new", id |-> 0, answer |-> NoCaller, acts |-> 0]]
    /\ worker = [alive |-> TRUE, attempt |-> 1, next |-> 2, torn |-> FALSE]
    /\ toWorker = <<>> /\ fromWorker = <<>>

HookStep(h) ==
    \/ Invokes(h) \/ CallsProcess(h) \/ RunsCommand(h) \/ OpensSession(h) \/ Notifies(h) \/ PostsCall(h)
    \/ Expired(h, "opened") \/ Expired(h, "initialized") \/ CallBreaks(h) \/ CallAnswered(h)
    \/ Audits(h)
RequestStep(c) ==
    \/ TakesLock(c) \/ WritesLine(c) \/ SendFails(c) \/ ReadsAnswer(c) \/ AnswerFails(c)
    \/ Restarts(c) \/ RestartFails(c) \/ GivesUp(c)
HooksNext == (\E h \in HookIds : HookStep(h)) \/ (\E s \in sessions : ServerForgets(s))
WorkerNext == (\E c \in WorkerCalls : RequestStep(c)) \/ WorkerActs \/ WorkerDies
ExtensionNext == HooksNext \/ WorkerNext

-----------------------------------------------------------------------------
(* Properties *)

\* However sessions expire, answers come late, the worker dies between any two steps or a
\* caller leaves: no tool call of a hook and no request is carried out twice, and what is
\* reported as completed was carried out, the worker's answer being the one to that request
\* (worker.rs: "did not replay the request, even when the caller supplied an idempotency key").
ActsOnce ==
    /\ \A h \in HookIds :
          hook[h].acts <= 1 /\ (hook[h].at = "completed" => hook[h].acts = 1)
    /\ \A c \in WorkerCalls :
          /\ request[c].acts <= 1
          /\ request[c].at = "completed" => request[c].acts = 1 /\ request[c].answer = c

\* A hook acts only as it was reviewed, and after those before it have ended.
HooksInTurn ==
    \A h \in HookIds : hook[h].acts > 0 => h \in reviewed /\ ItsTurn(h)

ExtensionsHold == ActsOnce /\ HooksInTurn

\* A request that is answered with an error was not carried out; one that may have been is
\* told as an unknown outcome.  (Not so: when the worker cannot be started again, the error
\* of the start is the answer.)
ErrorsAreClean == \A c \in WorkerCalls : request[c].at = "error" => request[c].acts = 0

\* A hook that acted is in the audit file once it has ended.  (Not so when that write fails.)
ActsAreAudited ==
    \A h \in HookIds :
        HookEnded(h) /\ hook[h].acts > 0 => audit \cap {<<h, "completed">>, <<h, "failed">>} # {}
===================================================================================
