---------------------------- MODULE DurableStore ----------------------------
(***************************************************************************)
(* The durable canonical-run store of cool-state.                          *)
(*                                                                         *)
(* The SQLite tables are the state: sessions, runs and events are         *)
(* append-only tables, so each is a sequence whose index is the rowid (0   *)
(* stands for SQL NULL).  Every operation of the crate holds the single    *)
(* connection mutex for one IMMEDIATE transaction and rolls back on error, *)
(* so an operation is one atomic action and a rejected one changes         *)
(* nothing.  recover_incomplete_runs is the exception: it reads the live   *)
(* runs in one query and then commits one transaction per run, so a crash  *)
(* may fall between two of them.                                           *)
(*                                                                         *)
(* A request whose idempotency key is already recorded answers from the    *)
(* record (or with a conflict when its fingerprint differs) and changes    *)
(* nothing; a request of another actor is rejected.  Neither is an action  *)
(* here: the local actor owns every row.                                   *)
(***************************************************************************)
EXTENDS Integers, Sequences, FiniteSets, FiniteSetsExt

CONSTANTS
    Call,          \* tool-call ids, numbered in the order of their strings
    Key,           \* idempotency keys clients use
    Conversation,  \* legacy conversation ids
    AppendKinds,   \* the kinds of event the executors append in this instance
    MaxRequests,   \* how many keys each scope may consume (a bound per operation)
    MaxSessions, MaxRuns, MaxAuxRuns, MaxEvents, MaxApprovals, MaxImported, MaxCrashes,
    MaxExecutorRows   \* how many events the executors append to all runs together

\* Kinds of canonical event, as far as the store tells them apart.
\* "RunInterrupted" is the run.failed(core_restarted) event of recovery and
\* "SteerItem" the user's item whose source is cool-state-steer.
TerminalKinds == {"RunCompleted", "RunFailed", "RunInterrupted", "RunCancelled"}
ToolResultKinds == {"ToolCompleted", "ToolFailed"}
ExecutorKinds == {"RunStarted", "UserItem", "AssistantItem", "ToolRequested",
                  "SessionCompacted", "RunCompleted", "RunFailed", "RunCancelled"}
                    \cup ToolResultKinds
Kinds == ExecutorKinds \cup {"SteerItem", "ApprovalRequired", "ApprovalResolved",
                             "RunRewound", "RunInterrupted"}

Statuses == {"queued", "running", "awaiting_approval", "completed", "failed",
             "cancelled", "rewound"}
Purposes == {"turn", "auxiliary", "seed"}
Decisions == {"approved", "denied"}
Scopes == {"session.create", "session.fork", "session.rewind",
           "session.for_conversation", "session.prompt", "session.steer",
           "run.cancel", "approval.resolve"}

ASSUME StoreAssumption ==
    /\ Call \subseteq Nat /\ IsFiniteSet(Call)
    /\ AppendKinds \subseteq ExecutorKinds
    /\ MaxRequests \in [Scopes -> Nat]
    /\ MaxSessions \in Nat /\ MaxRuns \in Nat /\ MaxAuxRuns \in Nat
    /\ MaxEvents \in Nat /\ MaxApprovals \in Nat /\ MaxImported \in Nat
    /\ MaxCrashes \in Nat /\ MaxExecutorRows \in Nat

VARIABLES
    sessions,   \* rust_sessions: the active_run_id column
    runs,       \* rust_runs
    events,     \* rust_events
    idem,       \* rust_idempotency: the id in the recorded result, 0 when absent
    intents,    \* rust_cancel_intents
    approvals,  \* rust_approvals
    links,      \* rust_conversation_links, 0 when absent
    mode,       \* the process: "serving", "down" or "recovering"
    todo,       \* recovery's query result: runs still to close
    crashes     \* number of crashes so far

vars == <<sessions, runs, events, idem, intents, approvals, links, mode, todo, crashes>>

Sessions == DOMAIN sessions
Runs == DOMAIN runs
Rows == DOMAIN events
Approvals == DOMAIN approvals

\* One row of each table.  `ref` is compact_up_to_cursor of a compaction marker
\* and the approval id of an approval event; `origin` is the rowid of the event
\* whose content a fork or a rewind copied (its own rowid otherwise).
SessionRow == [activeRun : Nat]
RunRow == [session : Nat, status : Statuses, lastSeq : Nat, purpose : Purposes]
EventRow == [run : Nat, seq : Nat, kind : Kinds, calls : SUBSET Call, ref : Nat, origin : Nat]
ApprovalRow == [run : Nat, call : Call,
                state : Decisions \cup {"pending", "timed_out"}, revision : Nat]

TypeOK ==
    /\ sessions \in Seq(SessionRow)
    /\ runs \in Seq(RunRow)
    /\ events \in Seq(EventRow)
    /\ idem \in [Scopes -> [Key -> Nat]]
    /\ intents \subseteq Nat
    /\ approvals \in Seq(ApprovalRow)
    /\ links \in [Conversation -> Nat]
    /\ mode \in {"serving", "down", "recovering"}
    /\ todo \subseteq [run : Nat, cancelled : BOOLEAN]
    /\ crashes \in Nat

-----------------------------------------------------------------------------
(* Statuses and the run log. *)

\* Mutant: the status rewind added is missing from the list.
IsTerminalBeforeRewind(status) == status \in {"completed", "failed", "cancelled"}
IsTerminal(status) == status \in {"completed", "failed", "cancelled", "rewound"}

\* Mutant: an awaiting run cannot fail.
TransitionAllowedAwaitingStuck(from, to) ==
    \/ from = to
    \/ from = "queued" /\ to \in {"running", "cancelled"}
    \/ from = "running" /\ to \in {"awaiting_approval", "completed", "failed", "cancelled"}
    \/ from = "awaiting_approval" /\ to \in {"running", "cancelled"}
TransitionAllowed(from, to) ==
    \/ from = to
    \/ from = "queued" /\ to \in {"running", "cancelled"}
    \/ from = "running" /\ to \in {"awaiting_approval", "completed", "failed", "cancelled"}
    \/ from = "awaiting_approval" /\ to \in {"running", "failed", "cancelled"}

\* event_status(e).unwrap_or(status): the status after an event of this kind.
EventStatus(kind, status) ==
    CASE kind \in {"RunStarted", "ApprovalResolved"} -> "running"
      [] kind = "ApprovalRequired" -> "awaiting_approval"
      [] kind = "RunCompleted" -> "completed"
      [] kind \in {"RunFailed", "RunInterrupted"} -> "failed"
      [] kind = "RunCancelled" -> "cancelled"
      [] OTHER -> status

IsHistoryKind(kind) ==
    kind \in {"UserItem", "SteerItem", "AssistantItem", "SessionCompacted"} \cup ToolResultKinds

\* An event before append_event_tx gives it its run, its seq and its rowid.
Body(kind, calls, ref) == [kind |-> kind, calls |-> calls, ref |-> ref, origin |-> 0]

\* The rows a transaction inserts for these bodies: consecutive seqs after
\* `base`, consecutive rowids at the end of the table.
RowsOf(r, base, bodies) ==
    [i \in 1..Len(bodies) |->
        [run |-> r, seq |-> base + i, kind |-> bodies[i].kind,
         calls |-> bodies[i].calls, ref |-> bodies[i].ref,
         origin |-> IF bodies[i].origin = 0 THEN Len(events) + i ELSE bodies[i].origin]]

\* Mutant: the transition alone is checked (completed to completed is one).
AcceptsEventByTransition(r, next) == TransitionAllowed(runs[r].status, next)
\* A terminal run takes no event.
AcceptsEvent(r, next) ==
    /\ ~IsTerminal(runs[r].status)
    /\ TransitionAllowed(runs[r].status, next)

\* Mutants: last_seq advances by one per transaction; only an end is recorded;
\* the column's spelling drifts from the one run_status parses.
AppendedRunMisspelt(row, next, n) ==
    [row EXCEPT !.status = IF next = "cancelled" THEN "canceled" ELSE next, !.lastSeq = @ + n]
AppendedRunOneSeq(row, next, n) == [row EXCEPT !.status = next, !.lastSeq = @ + 1]
AppendedRunEndOnly(row, next, n) ==
    [row EXCEPT !.status = IF IsTerminal(next) THEN next ELSE @, !.lastSeq = @ + n]
AppendedRun(row, next, n) == [row EXCEPT !.status = next, !.lastSeq = @ + n]

\* append_event_tx for each of the bodies, in order, within one transaction.
\* Only the last body may carry a status: the ones before it are tool failures.
\* A run that ends stops being active.
AppendTx(r, bodies) ==
    LET next == EventStatus(bodies[Len(bodies)].kind, runs[r].status)
        s == runs[r].session
    IN  /\ AcceptsEvent(r, next)
        /\ events' = events \o RowsOf(r, runs[r].lastSeq, bodies)
        /\ runs' = [runs EXCEPT ![r] = AppendedRun(@, next, Len(bodies))]
        /\ sessions' = IF IsTerminal(next) /\ sessions[s].activeRun = r
                       THEN [sessions EXCEPT ![s].activeRun = 0]
                       ELSE sessions

\* The sequence of the members of a finite set in the order `before`, as a set
\* of one element to pick with \E: the i-th member has i - 1 members before it.
Orderings(S, before(_, _)) ==
    LET ordered == [i \in 1..Cardinality(S) |->
                        CHOOSE e \in S : Cardinality({d \in S : before(d, e)}) = i - 1]
    IN  {ordered} \cap [1..Cardinality(S) -> S]

Less(a, b) == a < b

\* Calls asked for in run r and not answered by a later result: the `pending`
\* map of append_interrupted_tool_failures.
PendingCalls(r) ==
    {c \in Call : \E i \in Rows :
        /\ events[i].run = r /\ c \in events[i].calls
        /\ events[i].kind \in {"AssistantItem", "ToolRequested"}
        /\ \A j \in Rows : j > i /\ events[j].run = r /\ c \in events[j].calls
                              => events[j].kind \notin ToolResultKinds}

\* Mutant: the calls are left unanswered.
InterruptionBare(calls, closing) == <<Body(closing, {}, 0)>>
\* One tool.failed per pending call, in call-id order, then the closing event.
Interruption(calls, closing) ==
    [i \in 1..Len(calls) |-> Body("ToolFailed", {calls[i]}, 0)] \o <<Body(closing, {}, 0)>>

-----------------------------------------------------------------------------
(* Idempotency, sessions and runs. *)

Recorded(scope) == {k \in Key : idem[scope][k] # 0}

\* Mutant: the key is not looked up.
FreshAlways(scope, k) == Cardinality(Recorded(scope)) < MaxRequests[scope]
\* lookup_idempotency found nothing: the request is executed, and
Fresh(scope, k) ==
    /\ idem[scope][k] = 0
    /\ Cardinality(Recorded(scope)) < MaxRequests[scope]
\* insert_idempotency records its result in the same transaction.
Record(scope, k, result) == idem' = [idem EXCEPT ![scope][k] = result]

Serving == mode = "serving"
Room(n) == Len(events) + n <= MaxEvents
ExecutorRows == {i \in Rows : runs[events[i].run].purpose # "seed"}
NewSession == Len(sessions) + 1
NewRun == Len(runs) + 1

CreateSession(k) ==
    /\ Serving /\ Fresh("session.create", k)
    /\ Len(sessions) < MaxSessions
    /\ sessions' = Append(sessions, [activeRun |-> 0])
    /\ Record("session.create", k, NewSession)
    /\ UNCHANGED <<runs, events, intents, approvals, links, mode, todo, crashes>>

\* Mutant: the active run is not looked at.
StartRunUnguarded(s, k) ==
    /\ Serving /\ Fresh("session.prompt", k)
    /\ Len(runs) < MaxRuns
    /\ runs' = Append(runs, [session |-> s, status |-> "running", lastSeq |-> 0,
                             purpose |-> "turn"])
    /\ sessions' = [sessions EXCEPT ![s].activeRun = NewRun]
    /\ Record("session.prompt", k, NewRun)
    /\ UNCHANGED <<events, intents, approvals, links, mode, todo, crashes>>
\* Rejected while the session's active run is live.
StartRun(s, k) ==
    /\ Serving /\ Fresh("session.prompt", k)
    /\ Len(runs) < MaxRuns
    /\ sessions[s].activeRun # 0 => IsTerminal(runs[sessions[s].activeRun].status)
    /\ runs' = Append(runs, [session |-> s, status |-> "running", lastSeq |-> 0,
                             purpose |-> "turn"])
    /\ sessions' = [sessions EXCEPT ![s].activeRun = NewRun]
    /\ Record("session.prompt", k, NewRun)
    /\ UNCHANGED <<events, intents, approvals, links, mode, todo, crashes>>

\* Out-of-band runs (compaction, delegation, replay): no guard, never active.
StartAuxiliaryRun(s) ==
    /\ Serving
    /\ Len(runs) < MaxRuns
    /\ Cardinality({r \in Runs : runs[r].purpose = "auxiliary"}) < MaxAuxRuns
    /\ runs' = Append(runs, [session |-> s, status |-> "running", lastSeq |-> 0,
                             purpose |-> "auxiliary"])
    /\ UNCHANGED <<sessions, events, idem, intents, approvals, links, mode, todo, crashes>>

\* The tool calls and the cursor an event of this kind may carry.  A compaction
\* marker covers the transcript of its session up to one of its rows.
EventCalls(kind) ==
    CASE kind = "AssistantItem" -> SUBSET Call
      [] kind \in ToolResultKinds \cup {"ToolRequested"} -> {{c} : c \in Call}
      [] OTHER -> {{}}

\* Rows of runs no rewind superseded: the window session.history reads.
VisibleRows(s) ==
    {i \in Rows : /\ runs[events[i].run].session = s
                  /\ runs[events[i].run].status # "rewound"}

EventRefs(r, kind) ==
    IF kind = "SessionCompacted"
    THEN {i \in VisibleRows(runs[r].session) :
             IsHistoryKind(events[i].kind) /\ events[i].kind # "SessionCompacted"}
    ELSE {0}

\* append_event_auto: an executor appends one event to its run.
AppendEventAuto(r, kind, calls, ref) ==
    /\ Serving /\ Room(1) /\ Cardinality(ExecutorRows) < MaxExecutorRows
    /\ AppendTx(r, <<Body(kind, calls, ref)>>)
    /\ UNCHANGED <<idem, intents, approvals, links, mode, todo, crashes>>

\* Mutant: a repeated steer is executed again.
SteerRunAgain(r, k) ==
    /\ Serving /\ FreshAlways("session.steer", k) /\ Room(1)
    /\ AppendTx(r, <<Body("SteerItem", {}, 0)>>)
    /\ Record("session.steer", k, Len(events) + 1)
    /\ UNCHANGED <<intents, approvals, links, mode, todo, crashes>>
\* A user message injected into a live run.
SteerRun(r, k) ==
    /\ Serving /\ Fresh("session.steer", k) /\ Room(1)
    /\ AppendTx(r, <<Body("SteerItem", {}, 0)>>)
    /\ Record("session.steer", k, Len(events) + 1)
    /\ UNCHANGED <<intents, approvals, links, mode, todo, crashes>>

\* The cancel intent, the failures of the unanswered calls and run.cancelled
\* commit together.
AcceptCancel(r, k) ==
    /\ Serving /\ Fresh("run.cancel", k)
    /\ Room(Cardinality(PendingCalls(r)) + 1)
    /\ \E calls \in Orderings(PendingCalls(r), Less) :
           AppendTx(r, Interruption(calls, "RunCancelled"))
    /\ intents' = intents \cup {r}
    /\ Record("run.cancel", k, r)
    /\ UNCHANGED <<approvals, links, mode, todo, crashes>>

-----------------------------------------------------------------------------
(* Approval tickets: one per (run, call). *)

CreateApproval(r, c) ==
    /\ Serving /\ Room(1) /\ Len(approvals) < MaxApprovals
    /\ ~\E a \in Approvals : approvals[a].run = r /\ approvals[a].call = c
    /\ TransitionAllowed(runs[r].status, "awaiting_approval")
    /\ approvals' = Append(approvals, [run |-> r, call |-> c, state |-> "pending",
                                       revision |-> 1])
    /\ AppendTx(r, <<Body("ApprovalRequired", {c}, Len(approvals) + 1)>>)
    /\ UNCHANGED <<idem, intents, links, mode, todo, crashes>>

\* Mutant: the ticket is decided and no event is written.
DecideApprovalSilently(a, state) ==
    /\ approvals' = [approvals EXCEPT ![a].state = state, ![a].revision = @ + 1]
    /\ UNCHANGED <<sessions, runs, events>>
\* The ticket's new state and tool.approval.resolved commit together; when the
\* run has ended the append fails and the ticket stays as it was.
DecideApproval(a, state) ==
    /\ approvals' = [approvals EXCEPT ![a].state = state, ![a].revision = @ + 1]
    /\ AppendTx(approvals[a].run, <<Body("ApprovalResolved", {approvals[a].call}, a)>>)

ResolveApproval(a, k, expectedRevision, decision) ==
    /\ Serving /\ Fresh("approval.resolve", k) /\ Room(1)
    /\ approvals[a].revision = expectedRevision
    /\ approvals[a].state = "pending"
    /\ DecideApproval(a, decision)
    /\ Record("approval.resolve", k, a)
    /\ UNCHANGED <<intents, links, mode, todo, crashes>>

\* Mutant: a timeout that lost the race against an answer still decides.
ExpireApprovalLate(a) ==
    /\ Serving /\ Room(1)
    /\ DecideApproval(a, "timed_out")
    /\ UNCHANGED <<idem, intents, links, mode, todo, crashes>>
ExpireApproval(a) ==
    /\ Serving /\ Room(1)
    /\ approvals[a].state = "pending"
    /\ DecideApproval(a, "timed_out")
    /\ UNCHANGED <<idem, intents, links, mode, todo, crashes>>

-----------------------------------------------------------------------------
(* Fork, rewind and import write a whole completed run in one transaction. *)

\* The order fork and rewind copy in: by run rowid, then by seq.
CopyOrder(a, b) ==
    \/ events[a].run < events[b].run
    \/ events[a].run = events[b].run /\ events[a].seq < events[b].seq

\* The rows of session s that a copy takes: fork bounds the cursor and each
\* event's own seq, rewind the cursor.
CopiedRows(s, cursor, maxSeq) ==
    {i \in VisibleRows(s) : i <= cursor /\ events[i].seq <= maxSeq
                              /\ IsHistoryKind(events[i].kind)}

\* The bounds a request can tell apart: any other one copies the rows of the
\* nearest of these below it.
CopyCursors(s) == {0} \cup CopiedRows(s, Len(events), Len(events))
CopySeqs(s) == {events[i].seq : i \in CopyCursors(s) \ {0}} \cup {Len(events)}

\* Mutant: the covered boundary is excluded.
RemapCursorExclusive(source, i) ==
    LET covered == {j \in 1..(i - 1) : source[j] < events[source[i]].ref}
    IN  CASE events[source[i]].kind # "SessionCompacted" -> events[source[i]].ref
          [] covered = {} -> Len(events) + 1
          [] OTHER -> Len(events) + 1 + Max(covered)
\* compact_up_to_cursor of the i-th copy: the new rowid of the nearest earlier
\* copy the marker covered, else the seed's run.started row.
RemapCursor(source, i) ==
    LET covered == {j \in 1..(i - 1) : source[j] <= events[source[i]].ref}
        boundary == Len(events) + 1
    IN  CASE events[source[i]].kind # "SessionCompacted" -> events[source[i]].ref
          [] covered = {} -> boundary
          [] OTHER -> boundary + Max(covered)

\* A copy's source is the fork or the rewind, whoever wrote the original.
CopiedKind(kind) == IF kind = "SteerItem" THEN "UserItem" ELSE kind
CopyBodies(source) ==
    [i \in 1..Len(source) |->
        [kind |-> CopiedKind(events[source[i]].kind), calls |-> events[source[i]].calls,
         ref |-> RemapCursor(source, i), origin |-> events[source[i]].origin]]

\* Inserts run NewRun of session s holding these events; it starts running and
\* active, and its last event completes it.
SeedEvents(middle) ==
    events' = events \o RowsOf(NewRun, 0,
        <<Body("RunStarted", {}, 0)>> \o middle \o <<Body("RunCompleted", {}, 0)>>)
\* Mutant: run.completed is not counted.
SeedRunShort(s, middle) ==
    [session |-> s, status |-> "completed", lastSeq |-> Len(middle) + 1, purpose |-> "seed"]
SeedRun(s, middle) ==
    [session |-> s, status |-> "completed", lastSeq |-> Len(middle) + 2, purpose |-> "seed"]

ForkSession(s, k, cursor, maxSeq) ==
    /\ Serving /\ Fresh("session.fork", k)
    /\ Len(sessions) < MaxSessions /\ Len(runs) < MaxRuns
    /\ Room(Cardinality(CopiedRows(s, cursor, maxSeq)) + 2)
    /\ \E source \in Orderings(CopiedRows(s, cursor, maxSeq), CopyOrder) :
           /\ SeedEvents(CopyBodies(source))
           /\ runs' = Append(runs, SeedRun(NewSession, source))
    /\ sessions' = Append(sessions, [activeRun |-> 0])
    /\ Record("session.fork", k, NewSession)
    /\ UNCHANGED <<intents, approvals, links, mode, todo, crashes>>

\* Every run of the session is superseded and the retained prefix is copied to
\* a seed run.  Rejected while a run of the session is live and when no visible
\* event lies beyond the cursor.
RewindSession(s, k, cursor) ==
    /\ Serving /\ Fresh("session.rewind", k)
    /\ Len(runs) < MaxRuns
    /\ \A r \in Runs : runs[r].session = s => IsTerminal(runs[r].status)
    /\ \E i \in VisibleRows(s) : i > cursor
    /\ Room(Cardinality(CopiedRows(s, cursor, Len(events))) + 3)
    /\ \E source \in Orderings(CopiedRows(s, cursor, Len(events)), CopyOrder) :
           LET middle == Append(CopyBodies(source), Body("RunRewound", {}, cursor))
           IN  /\ SeedEvents(middle)
               /\ runs' = Append([r \in Runs |-> IF runs[r].session = s
                                                 THEN [runs[r] EXCEPT !.status = "rewound"]
                                                 ELSE runs[r]],
                                 SeedRun(s, middle))
    /\ sessions' = [sessions EXCEPT ![s].activeRun = 0]
    /\ Record("session.rewind", k, NewRun)
    /\ UNCHANGED <<intents, approvals, links, mode, todo, crashes>>

\* First link of a legacy conversation: a new session with the imported
\* transcript, n messages long.
LinkNewConversation(c, k, n) ==
    /\ links[c] = 0
    /\ Len(sessions) < MaxSessions /\ Len(runs) < MaxRuns /\ Room(n + 2)
    /\ LET imported == [i \in 1..n |-> Body("UserItem", {}, 0)]
       IN  /\ SeedEvents(imported)
           /\ runs' = Append(runs, SeedRun(NewSession, imported))
    /\ sessions' = Append(sessions, [activeRun |-> 0])
    /\ links' = [links EXCEPT ![c] = NewSession]
    /\ Record("session.for_conversation", k, NewSession)

\* Later calls answer with the linked session.
LinkKnownConversation(c, k) ==
    /\ links[c] # 0
    /\ Record("session.for_conversation", k, links[c])
    /\ UNCHANGED <<sessions, runs, events, links>>

LinkConversation(c, k, n) ==
    /\ Serving /\ Fresh("session.for_conversation", k)
    /\ LinkNewConversation(c, k, n) \/ LinkKnownConversation(c, k)
    /\ UNCHANGED <<intents, approvals, mode, todo, crashes>>

\* Mutant: the session may be linked elsewhere already.
BindAnySession(c, s, k) ==
    /\ Serving /\ Fresh("session.for_conversation", k)
    /\ links[c] \in {0, s}
    /\ links' = [links EXCEPT ![c] = s]
    /\ Record("session.for_conversation", k, s)
    /\ UNCHANGED <<sessions, runs, events, intents, approvals, mode, todo, crashes>>
\* Fork flow: an unlinked conversation takes an unlinked session; binding the
\* pair again is accepted, anything else conflicts.
BindSessionToConversation(c, s, k) ==
    /\ Serving /\ Fresh("session.for_conversation", k)
    /\ \/ links[c] = s
       \/ links[c] = 0 /\ \A d \in Conversation : links[d] # s
    /\ links' = [links EXCEPT ![c] = s]
    /\ Record("session.for_conversation", k, s)
    /\ UNCHANGED <<sessions, runs, events, intents, approvals, mode, todo, crashes>>

-----------------------------------------------------------------------------
(* Crash and recovery. *)

Crash ==
    /\ crashes < MaxCrashes
    /\ mode # "down"
    /\ mode' = "down" /\ todo' = {} /\ crashes' = crashes + 1
    /\ UNCHANGED <<sessions, runs, events, idem, intents, approvals, links>>

\* Mutant: runs waiting for an approval are not selected.
RecoverableRunning == {"queued", "running"}
\* The statuses recovery selects.
RecoverableStatuses == {"queued", "running", "awaiting_approval"}

\* The start of recover_incomplete_runs: one query for the live runs and their
\* cancel intents.
BeginRecovery ==
    /\ mode = "down"
    /\ mode' = "recovering"
    /\ todo' = {[run |-> r, cancelled |-> r \in intents] :
                   r \in {x \in Runs : runs[x].status \in RecoverableStatuses}}
    /\ UNCHANGED <<sessions, runs, events, idem, intents, approvals, links, crashes>>

\* One run of the query, closed in a transaction of its own.
RecoverRun(t) ==
    /\ mode = "recovering"
    /\ \E calls \in Orderings(PendingCalls(t.run), Less) :
           AppendTx(t.run, Interruption(calls, IF t.cancelled THEN "RunCancelled"
                                                              ELSE "RunInterrupted"))
    /\ todo' = todo \ {t}
    /\ UNCHANGED <<idem, intents, approvals, links, mode, crashes>>

FinishRecovery ==
    /\ mode = "recovering" /\ todo = {}
    /\ mode' = "serving"
    /\ UNCHANGED <<sessions, runs, events, idem, intents, approvals, links, todo, crashes>>

-----------------------------------------------------------------------------
Init ==
    /\ sessions = <<>> /\ runs = <<>> /\ events = <<>> /\ approvals = <<>>
    /\ idem = [scope \in Scopes |-> [k \in Key |-> 0]]
    /\ intents = {}
    /\ links = [c \in Conversation |-> 0]
    /\ mode = "serving" /\ todo = {} /\ crashes = 0

SessionNext ==
    \/ \E k \in Key : CreateSession(k)
    \/ \E s \in Sessions, k \in Key : StartRun(s, k)
    \/ \E s \in Sessions : StartAuxiliaryRun(s)
    \/ \E s \in Sessions, k \in Key : \E cursor \in CopyCursors(s), maxSeq \in CopySeqs(s) :
           ForkSession(s, k, cursor, maxSeq)
    \/ \E s \in Sessions, k \in Key : \E cursor \in CopyCursors(s) : RewindSession(s, k, cursor)
    \/ \E c \in Conversation, k \in Key, n \in 0..MaxImported : LinkConversation(c, k, n)
    \/ \E c \in Conversation, s \in Sessions, k \in Key : BindSessionToConversation(c, s, k)

RunNext ==
    \/ \E r \in Runs, kind \in AppendKinds :
           \E calls \in EventCalls(kind), ref \in EventRefs(r, kind) :
               AppendEventAuto(r, kind, calls, ref)
    \/ \E r \in Runs, k \in Key : SteerRun(r, k) \/ AcceptCancel(r, k)

ApprovalNext ==
    \/ \E r \in Runs, c \in Call : CreateApproval(r, c)
    \/ \E a \in Approvals, k \in Key, revision \in 1..2, decision \in Decisions :
           ResolveApproval(a, k, revision, decision)
    \/ \E a \in Approvals : ExpireApproval(a)

RecoveryNext ==
    \/ BeginRecovery
    \/ \E t \in todo : RecoverRun(t)
    \/ FinishRecovery

Next == SessionNext \/ RunNext \/ ApprovalNext \/ Crash \/ RecoveryNext

\* Recovery runs to completion at start-up unless the process dies again.
Spec == Init /\ [][Next]_vars /\ WF_vars(RecoveryNext)

-----------------------------------------------------------------------------
(* Properties. *)

Live(r) == runs[r].status \in {"queued", "running", "awaiting_approval"}
RowsOfRun(r) == {i \in Rows : events[i].run = r}

\* The foreign keys of the schema hold.
ReferencesValid ==
    /\ \A r \in Runs : runs[r].session \in Sessions
    /\ \A i \in Rows : events[i].run \in Runs
    /\ \A a \in Approvals : approvals[a].run \in Runs
    /\ \A t \in todo : t.run \in Runs
    /\ intents \subseteq Runs

\* start_run's guard reads active_run_id only, so it admits at most one live
\* turn per session exactly when the column always names the live turn: it is
\* set by start_run and cleared by whatever ends the run (executor, cancel,
\* recovery, rewind).
OneLiveTurn ==
    /\ \A r \in Runs : Live(r) /\ runs[r].purpose = "turn"
                          => sessions[runs[r].session].activeRun = r
    /\ \A s \in Sessions : LET r == sessions[s].activeRun
                           IN  r # 0 => r \in Runs /\ Live(r) /\ runs[r].session = s

\* run.events pages and resumes on seq: the seqs of a run are 1..last_seq, in
\* rowid order, whichever of the eight writers appended them.
LogGapFree ==
    \A r \in Runs :
        /\ {events[i].seq : i \in RowsOfRun(r)} = 1..runs[r].lastSeq
        /\ \A i, j \in RowsOfRun(r) : i < j => events[i].seq < events[j].seq

\* replay_run rebuilds a run's status from its log alone.
StatusKinds == TerminalKinds \cup {"RunStarted", "ApprovalRequired", "ApprovalResolved"}
ReplayStatus(r) ==
    LET decisive == {i \in RowsOfRun(r) : events[i].kind \in StatusKinds}
    IN  IF decisive = {} THEN "running"
        ELSE EventStatus(events[Max(decisive)].kind, "running")

Sealed ==
    /\ \A i \in Rows : i \in Rows' /\ events'[i] = events[i]
    /\ \A r \in Runs : ~Live(r) =>
          /\ runs'[r].lastSeq = runs[r].lastSeq
          /\ runs'[r].status \in {runs[r].status, "rewound"}
\* The log is append-only, and a run that has ended stays ended: it gets no
\* further event and can only be superseded by a rewind.
EndedRunsSealed == [][Sealed]_vars

\* An accepted cancel is final, and neither a cancel nor a crash leaves a tool
\* call without a result in the history the next turn replays.
CancelHonoured ==
    /\ \A r \in intents : runs[r].status \in {"cancelled", "rewound"}
    /\ \A r \in Runs : r \in intents \/ (\E i \in RowsOfRun(r) : events[i].kind = "RunInterrupted")
                          => PendingCalls(r) = {}

\* The tickets, the status column and the log tell one story: a ticket has one
\* request event, and one resolution event exactly when it is decided, at
\* revision 2; a run no rewind superseded has the status its log replays to; and
\* a run only waits while somebody can still answer: otherwise it would stay in
\* awaiting_approval until the next restart.
ApprovalLedger ==
    /\ \A r \in Runs : runs[r].status \in {ReplayStatus(r), "rewound"}
    /\ \A a \in Approvals :
          LET about(kind) == {i \in RowsOfRun(approvals[a].run) :
                                 events[i].kind = kind /\ events[i].ref = a}
              decided == approvals[a].state # "pending"
          IN  /\ Cardinality(about("ApprovalRequired")) = 1
              /\ Cardinality(about("ApprovalResolved")) = IF decided THEN 1 ELSE 0
              /\ approvals[a].revision = IF decided THEN 2 ELSE 1
    /\ \A r \in Runs : runs[r].status = "awaiting_approval" =>
          \E a \in Approvals : approvals[a].run = r /\ approvals[a].state = "pending"

\* A retry under a recorded key has no second effect: turns, accepted steers, cancels and
\* users' decisions are one-to-one with the keys that asked for them
\* (lookup_idempotency and insert_idempotency in each operation's transaction).
KeysMatchEffects ==
    LET oneToOne(scope, effects) ==
            /\ {idem[scope][k] : k \in Recorded(scope)} = effects
            /\ Cardinality(Recorded(scope)) = Cardinality(effects)
    IN  /\ oneToOne("session.prompt", {r \in Runs : runs[r].purpose = "turn"})
        /\ oneToOne("session.steer", {i \in Rows : events[i].kind = "SteerItem"})
        /\ oneToOne("run.cancel", intents)
        /\ oneToOne("approval.resolve",
                    {a \in Approvals : approvals[a].state \in Decisions})

\* A session belongs to at most one legacy conversation, and a conversation
\* never moves to another session.
LinksStable ==
    [][/\ \A c \in Conversation : links[c] # 0 => links'[c] = links[c]
       /\ \A c, d \in Conversation : c # d /\ links'[c] # 0 => links'[c] # links'[d]]_vars

HandsOverClean == mode = "recovering" /\ mode' = "serving" => \A r \in Runs : ~Live(r)
\* When recovery hands over to the server no run of an earlier process is live,
\* so every session accepts a prompt.
RecoveryLeavesNoLiveRun == [][HandsOverClean]_vars

\* Recovery terminates: the closing event is a legal transition from every
\* status a crash can leave, so start-up never fails on an old run.
RecoveryCompletes == (mode = "down") ~> (mode = "serving")

\* The rows up to `cursor` that the next turn of session s is built from:
\* history_from_event_rows drops what a compaction marker covers.
Transcript(s, cursor) ==
    LET rows == CopiedRows(s, cursor, Len(events))
        markers == {i \in rows : events[i].kind = "SessionCompacted"}
        covered == Max({0} \cup {events[i].ref : i \in markers})
    IN  {events[i].origin : i \in {j \in rows \ markers : j > covered}}

NextTurnReads(s) == Transcript(s, Len(events))

\* Fork and rewind give the next turn exactly the messages it would have been
\* built from at the cursor (a rewind's cursor is in its run.rewound event).
Answered(scope) == idem'[scope] # idem[scope]
CopyKeepsTranscript ==
    [][/\ Answered("session.rewind") =>
             \A s \in {runs'[NewRun].session} :
                 NextTurnReads(s)' = Transcript(s, events'[Len(events') - 1].ref)
       /\ Answered("session.fork") =>
             \A s \in Sessions, k \in Key, new \in {NewSession} :
                 \A cursor \in CopyCursors(s) :
                     ForkSession(s, k, cursor, Len(events))
                         => NextTurnReads(new)' = Transcript(s, cursor)]_vars

-----------------------------------------------------------------------------
(* Refinement. *)

Phase(status) == CASE status = "rewound" -> "superseded"
                   [] status \in {"completed", "failed", "cancelled"} -> "closed"
                   [] OTHER -> "open"

Lifecycle == INSTANCE RunLifecycle WITH
    Ends <- TerminalKinds,
    phase <- [r \in Runs |-> Phase(runs[r].status)],
    length <- [r \in Runs |-> runs[r].lastSeq],
    log <- [r \in Runs |-> {[seq |-> events[i].seq, kind |-> events[i].kind] : i \in RowsOfRun(r)}]

\* Whatever the nineteen operations, the crashes and the restarts do, a reader
\* of a run sees the lifecycle RunLifecycle promises: no event after the
\* terminal one, no gap, no rewritten event, and an end that nothing reopens.
RunsFollowLifecycle == Lifecycle!Spec
=============================================================================
