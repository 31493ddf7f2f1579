------------------------------- MODULE AcpBridge -------------------------------
(***************************************************************************)
(* One session of an editor that speaks ACP (cool-acp connection.rs): each *)
(* session/prompt is a bridge that starts a run, follows its events through  *)
(* the client's bounded buffer (cool-app-server client.rs), falls back on  *)
(* the log when the buffer overran, puts every approval to the editor and  *)
(* answers with a stop reason when it has seen the run's end.  The serving *)
(* loop handles cancels, the editor's decisions and the end of input.      *)
(***************************************************************************)
EXTENDS Integers, Sequences, SequencesExt, FiniteSets

CONSTANTS
    AcpPrompts,   \* session/prompt requests of the editor
    NoPrompt,
    MaxRunLog,    \* bound: per prompt, events of its run before it ends
    Slots,        \* capacity of the client's event buffer
    AcpPage,      \* events of one run.events page
    MaxAcpCancels,\* bound: session/cancel notifications, the end of input included
    MaxMisreads   \* bound: run.events requests that fail

ASSUME AcpAssumption ==
    /\ MaxRunLog \in [AcpPrompts -> Nat \ {0}] /\ {Slots, AcpPage} \subseteq Nat \ {0}
    /\ {MaxAcpCancels, MaxMisreads} \subseteq Nat

VARIABLES
    turn,         \* per prompt: the log of its run, and the ticket of its last approval
    inflight,     \* events appended and not yet sent to the connection: <<prompt, seq>>
    inbox,        \* per prompt: its receiver, the events not taken and an overrun
    bridge,         \* per prompt: where its bridge is
    active,       \* the session's entry: the prompt whose run it names
    permission,   \* per prompt: its request to the editor, "none", "open" or the decision
    canceller,    \* the serving loop inside cancel_session or shutdown
    acpCancels,
    shown,        \* history: per prompt, the events that were projected
    misreads      \* history: prompts whose catch-up could not read the log

acpVars == <<turn, inflight, inbox, bridge, active, permission, canceller, acpCancels,
             shown, misreads>>
serverVars == <<turn, inflight>>
loopVars == <<canceller, acpCancels>>

EndKinds == {"completed", "failed", "cancelled"}
Settled(p) == turn[p].log # <<>> /\ Last(turn[p].log) \in EndKinds
Running(p) == turn[p].log # <<>> /\ ~Settled(p)
NewTask == [at |-> "new", cursor |-> 0, page |-> <<>>, more |-> FALSE, back |-> "receiving"]
ByLoop == {"text", "ask", "completed", "failed"}
PromptAt(p) == bridge[p].at
Moves(p, at) == bridge' = [bridge EXCEPT ![p].at = at]

-----------------------------------------------------------------------------
(* The server: a live run of the session, and the buffer of the connection *)

Logs(p, kind, ticket) ==
    /\ turn' = [turn EXCEPT ![p].log = Append(@, kind), ![p].ticket = ticket]
    /\ inflight' = inflight \cup {<<p, Len(turn[p].log) + 1>>}

\* The loop appends and sends one event after the other, and waits for its tickets.
Works(p) ==
    /\ Running(p) /\ turn[p].ticket # "pending"
    /\ \A e \in inflight : e[1] = p => turn[p].log[e[2]] \notin ByLoop
    /\ \E kind \in ByLoop :
          /\ Len(turn[p].log) < MaxRunLog[p] \/ kind \in EndKinds
          /\ Logs(p, kind, IF kind = "ask" THEN "pending" ELSE turn[p].ticket)
    /\ UNCHANGED <<inbox, bridge, active, permission, loopVars, shown, misreads>>

\* The gate gives a ticket up.
TicketExpires(p) ==
    /\ Running(p) /\ turn[p].ticket = "pending"
    /\ turn' = [turn EXCEPT ![p].ticket = "denied"]
    /\ UNCHANGED <<inflight, inbox, bridge, active, permission, loopVars, shown, misreads>>

\* The reader bridge broadcasts to every receiver; a full one loses its oldest event.
Listens(q) == PromptAt(q) \notin {"new", "checked", "answered", "refused"}
Broadcasts(e) ==
    /\ inflight' = inflight \ {e}
    /\ inbox' = [q \in AcpPrompts |->
          IF ~Listens(q) THEN inbox[q]
          ELSE IF Len(inbox[q].events) < Slots THEN [inbox[q] EXCEPT !.events = Append(@, e)]
          ELSE [events |-> Append(Tail(inbox[q].events), e), lagged |-> TRUE]]
    /\ UNCHANGED <<turn, bridge, active, permission, loopVars, shown, misreads>>

-----------------------------------------------------------------------------
(* A prompt bridge *)

\* The session's entry is checked ...
PromptChecks(p) ==
    /\ PromptAt(p) = "new" /\ canceller.at = "idle"
    /\ Moves(p, IF active = NoPrompt THEN "checked" ELSE "refused")
    /\ UNCHANGED <<serverVars, inbox, active, permission, loopVars, shown, misreads>>
\* ... then the bridge subscribes and sends the prompt, which the server refuses while a
\* run of the session is live ...
PromptSends(p) ==
    /\ PromptAt(p) = "checked" /\ Moves(p, "sent")
    /\ UNCHANGED <<serverVars, inbox, active, permission, loopVars, shown, misreads>>
PromptAccepted(p) ==
    /\ PromptAt(p) = "sent"
    /\ IF \E q \in AcpPrompts : Running(q) THEN Moves(p, "refused") /\ UNCHANGED serverVars
       ELSE Moves(p, "accepted") /\ Logs(p, "text", "none")
    /\ UNCHANGED <<inbox, active, permission, loopVars, shown, misreads>>
\* ... and the entry is made when the answer has come.
PromptEnters(p) ==
    /\ PromptAt(p) = "accepted" /\ Moves(p, "receiving") /\ active' = p
    /\ UNCHANGED <<serverVars, inbox, permission, loopVars, shown, misreads>>

\* consume_event: project, put an approval to the editor, notice the end.
Consumes(p, seq, back, page) ==
    LET kind == turn[p].log[seq]
    IN  /\ shown' = [shown EXCEPT ![p] = Append(@, seq)]
        /\ bridge' = [bridge EXCEPT ![p] =
              [@ EXCEPT !.cursor = seq, !.page = page, !.back = back,
                        !.at = CASE kind = "ask" -> "asking" [] kind \in EndKinds -> "leaving"
                                 [] OTHER -> back]]

\* Mutant: what the buffer dropped is not looked for.
IgnoresLag(p) ==
    /\ PromptAt(p) = "receiving" /\ inbox[p].lagged
    /\ inbox' = [inbox EXCEPT ![p].lagged = FALSE]
    /\ UNCHANGED <<serverVars, bridge, active, permission, loopVars, shown, misreads>>
Lags(p) ==
    /\ PromptAt(p) = "receiving" /\ inbox[p].lagged
    /\ inbox' = [inbox EXCEPT ![p].lagged = FALSE] /\ Moves(p, "reading")
    /\ UNCHANGED <<serverVars, active, permission, loopVars, shown, misreads>>
\* Events of another run, or at or below the cursor, are passed over.
Receives(p) ==
    /\ PromptAt(p) = "receiving" /\ ~inbox[p].lagged /\ inbox[p].events # <<>>
    /\ inbox' = [inbox EXCEPT ![p].events = Tail(@)]
    /\ LET e == Head(inbox[p].events)
       IN  IF e[1] = p /\ e[2] > bridge[p].cursor THEN Consumes(p, e[2], "receiving", <<>>)
           ELSE UNCHANGED <<bridge, shown>>
    /\ UNCHANGED <<serverVars, active, permission, loopVars, misreads>>

\* catch_up_run: pages of the log above the cursor; a read that fails ends it.
ReadsPage(p) ==
    /\ PromptAt(p) = "reading"
    /\ LET from == bridge[p].cursor + 1
           to == IF Len(turn[p].log) < bridge[p].cursor + AcpPage THEN Len(turn[p].log)
                 ELSE bridge[p].cursor + AcpPage
       IN  bridge' = [bridge EXCEPT ![p] = [@ EXCEPT !.at = "paging", !.page = [i \in 1..(to - from + 1) |-> from + i - 1],
                                                 !.more = to < Len(turn[p].log)]]
    /\ UNCHANGED <<serverVars, inbox, active, permission, loopVars, shown, misreads>>
Misreads(p) ==
    /\ PromptAt(p) = "reading" /\ Cardinality(misreads) < MaxMisreads
    /\ misreads' = misreads \cup {p} /\ Moves(p, "receiving")
    /\ UNCHANGED <<serverVars, inbox, active, permission, loopVars, shown>>
PagesOn(p) ==
    /\ PromptAt(p) = "paging"
    /\ IF bridge[p].page # <<>> THEN Consumes(p, Head(bridge[p].page), "paging", Tail(bridge[p].page))
       ELSE Moves(p, IF bridge[p].more THEN "reading" ELSE "receiving") /\ UNCHANGED shown
    /\ UNCHANGED <<serverVars, inbox, active, permission, loopVars, misreads>>

\* The approval that the run's last ticket is about.
OpenAsk(p) == SelectLastInSubSeq(turn[p].log, 1, Len(turn[p].log), LAMBDA kind : kind = "ask")

\* resolve_permission: register, ask, and wait for a decision or the timeout; then
\* resolve the approval, if it is still to be decided.
Asks(p) ==
    /\ PromptAt(p) = "asking" /\ Moves(p, "waiting") /\ permission' = [permission EXCEPT ![p] = "open"]
    /\ UNCHANGED <<serverVars, inbox, active, loopVars, shown, misreads>>
\* Mutant: the editor's answer is awaited without a timeout.
WaitsOn(p) ==
    /\ PromptAt(p) = "waiting" /\ permission[p] # "open" /\ Moves(p, "deciding")
    /\ UNCHANGED <<serverVars, inbox, active, permission, loopVars, shown, misreads>>
StopsWaiting(p) ==
    /\ PromptAt(p) = "waiting" /\ Moves(p, "deciding")
    /\ permission' = [permission EXCEPT ![p] = IF @ = "open" THEN "denied" ELSE @]
    /\ UNCHANGED <<serverVars, inbox, active, loopVars, shown, misreads>>
Decides(p) ==
    /\ PromptAt(p) = "deciding" /\ Moves(p, bridge[p].back)
    /\ IF Running(p) /\ turn[p].ticket = "pending" /\ OpenAsk(p) = bridge[p].cursor
       THEN Logs(p, "answered", permission[p])
       ELSE UNCHANGED serverVars
    /\ permission' = [permission EXCEPT ![p] = "none"]
    /\ UNCHANGED <<inbox, active, loopVars, shown, misreads>>

\* The entry is removed, whoever it names, then the session's requests are denied.
Denied == [q \in AcpPrompts |-> IF permission[q] = "open" THEN "denied" ELSE permission[q]]
Leaves(p) ==
    /\ PromptAt(p) = "leaving" /\ Moves(p, "denying") /\ active' = NoPrompt
    /\ UNCHANGED <<serverVars, inbox, permission, loopVars, shown, misreads>>
Answers(p) ==
    /\ PromptAt(p) = "denying" /\ permission' = Denied
    /\ bridge' = [bridge EXCEPT ![p] = [NewTask EXCEPT !.at = "answered"]]
    /\ inbox' = [inbox EXCEPT ![p] = [events |-> <<>>, lagged |-> FALSE]]
    /\ UNCHANGED <<serverVars, active, loopVars, shown, misreads>>

-----------------------------------------------------------------------------
(* The serving loop: one frame after the other *)

EditorDecides(p) ==
    /\ permission[p] = "open" /\ canceller.at = "idle"
    /\ \E decision \in {"approved", "denied"} : permission' = [permission EXCEPT ![p] = decision]
    /\ UNCHANGED <<serverVars, inbox, bridge, active, loopVars, shown, misreads>>

\* session/cancel, or the end of input, after which the editor sends nothing more:
\* without an entry there is nothing to cancel.
CancelBegins ==
    /\ canceller.at = "idle"
    /\ acpCancels < MaxAcpCancels /\ acpCancels' = acpCancels + 1
    /\ canceller' = IF active = NoPrompt THEN canceller ELSE [at |-> "found", prompt |-> active]
    /\ UNCHANGED <<serverVars, inbox, bridge, active, permission, shown, misreads>>
CancelsFound ==
    /\ canceller.at = "found" /\ canceller' = [canceller EXCEPT !.at = "denying"]
    /\ IF Running(canceller.prompt)
       THEN Logs(canceller.prompt, "cancelled", turn[canceller.prompt].ticket)
       ELSE UNCHANGED serverVars
    /\ UNCHANGED <<inbox, bridge, active, permission, acpCancels, shown, misreads>>
CancelDenies ==
    /\ canceller.at = "denying" /\ canceller' = [at |-> "idle", prompt |-> NoPrompt]
    /\ permission' = Denied
    /\ UNCHANGED <<serverVars, inbox, bridge, active, acpCancels, shown, misreads>>

-----------------------------------------------------------------------------
AcpInit ==
    /\ turn = [p \in AcpPrompts |-> [log |-> <<>>, ticket |-> "none"]]
    /\ inflight = {} /\ inbox = [p \in AcpPrompts |-> [events |-> <<>>, lagged |-> FALSE]]
    /\ bridge = [p \in AcpPrompts |-> NewTask]
    /\ active = NoPrompt /\ permission = [p \in AcpPrompts |-> "none"]
    /\ canceller = [at |-> "idle", prompt |-> NoPrompt] /\ acpCancels = 0
    /\ shown = [p \in AcpPrompts |-> <<>>] /\ misreads = {}

TaskStep(p) ==
    \/ PromptSends(p) \/ PromptAccepted(p) \/ PromptEnters(p) \/ Lags(p) \/ Receives(p)
    \/ ReadsPage(p) \/ PagesOn(p) \/ Asks(p) \/ StopsWaiting(p) \/ Decides(p)
    \/ Leaves(p) \/ Answers(p)
ServingStep == CancelsFound \/ CancelDenies
AcpNext ==
    \/ \E p \in AcpPrompts :
          \/ Works(p) \/ TicketExpires(p) \/ PromptChecks(p) \/ TaskStep(p) \/ Misreads(p)
          \/ EditorDecides(p)
    \/ \E e \in inflight : Broadcasts(e)
    \/ CancelBegins \/ ServingStep

\* What was appended is sent, tasks and their timeouts run; nothing is assumed of the
\* runs or of the editor.
AcpFairness ==
    /\ WF_acpVars(\E e \in inflight : Broadcasts(e)) /\ WF_acpVars(ServingStep)
    /\ \A p \in AcpPrompts : WF_acpVars(TaskStep(p))

AcpSpec == AcpInit /\ [][AcpNext]_acpVars /\ AcpFairness

-----------------------------------------------------------------------------
(* Properties *)

AcpTypeOK ==
    /\ \A e \in inflight : e[1] \in AcpPrompts /\ e[2] \in DOMAIN turn[e[1]].log
    /\ active \in AcpPrompts \cup {NoPrompt}
    /\ \A p \in AcpPrompts :
          /\ Len(inbox[p].events) <= Slots /\ bridge[p].cursor <= Len(turn[p].log)
          /\ permission[p] \in {"none", "open", "approved", "denied"}

\* The editor is shown each event at most once and in the order of the log, and when the
\* prompt of a run that came to its own end is answered it has seen everything the loop
\* logged, whatever the buffer dropped.  (A cancel's event may be sent before an earlier
\* one of the loop and end the prompt first.)
ShownInOrder ==
    \A p \in AcpPrompts :
        /\ \A i, j \in DOMAIN shown[p] : i < j => shown[p][i] < shown[p][j]
        /\ PromptAt(p) = "answered" /\ p \notin misreads /\ Last(turn[p].log) # "cancelled" =>
              \A seq \in DOMAIN turn[p].log :
                  turn[p].log[seq] \in ByLoop => seq \in Range(shown[p])

\* A prompt whose run has ended is answered, also when the end was dropped by the buffer,
\* when an approval was put to an editor that never answers, or when cancels and another
\* prompt of the session fall anywhere in between.
PromptsAnswered ==
    \A p \in AcpPrompts :
        (PromptAt(p) = "receiving" /\ Settled(p) /\ p \notin misreads) ~> (PromptAt(p) = "answered" \/ p \in misreads)

\* A prompt that follows its run can be cancelled.
PromptCancellable == \A p \in AcpPrompts : PromptAt(p) = "receiving" => active = p
================================================================================
