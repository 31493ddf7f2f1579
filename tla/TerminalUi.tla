------------------------------ MODULE TerminalUi -------------------------------
(***************************************************************************)
(* The terminal client (cool-tui) over the events of its connection: one    *)
(* loop that takes a key or an event and waits for the answer to what it     *)
(* asks, the state it keeps of a run (ClientState of cool-protocol), and the *)
(* bounded buffer between the connection and the loop (cool-app-server       *)
(* client.rs).  The server admits one live run per session and publishes     *)
(* each log once and in order, to this connection also what an earlier       *)
(* session of the user goes on doing.                                        *)
(***************************************************************************)
EXTENDS Integers, Sequences, SequencesExt, FiniteSets

CONSTANTS
    Sessions,   \* the sessions of the user
    Scripts,    \* what a run may log: sequences of kinds of events, the last one terminal
    Capacity,   \* the buffer of live events
    MaxRuns,    \* bound: runs
    MaxKeys     \* bound: keys that ask the server for something

ASSUME TerminalAssumption == {MaxRuns, MaxKeys} \subseteq Nat /\ Capacity \in Nat \ {0}

None == 0
Terminal == {"completed", "failed", "cancelled"}
NoRun == [seq |-> 0, status |-> "none", content |-> <<>>, approvals |-> {}]
NoRequest == [command |-> "none", about |-> None, answer |-> "none"]

VARIABLES
    runs,      \* the runs of this connection: session, what is to be logged, how much of it is,
               \* whether a cancel was accepted
    buffer,    \* events received and not yet handled
    lagged,    \* the buffer has dropped one
    keys,
    asked,     \* the request the loop waits for, and its answer when it is there
    session, runId, busy, approval, prompted, quit,   \* TuiState
    canonical, canonicalRun,                          \* the view, and whose it is
    shown      \* the answers the transcript holds since it was last cleared, as written

uiVars == <<runs, buffer, lagged, keys, asked, session, runId, busy, approval, prompted, quit,
            canonical, canonicalRun, shown>>
serverVars == <<runs, buffer, lagged>>
viewVars == <<session, runId, busy, approval, canonical, canonicalRun, shown>>

-----------------------------------------------------------------------------
(* The server *)

Runs == DOMAIN runs
Ended(r) == runs[r].at > 0 /\ runs[r].script[runs[r].at] \in Terminal
Live(s) == {r \in Runs : runs[r].session = s /\ ~Ended(r)}
KindOf(r, n) == runs[r].script[n]

\* The connection's reader gives every event to the buffer, which drops its oldest for it.
Gives(e) ==
    IF Len(buffer) < Capacity THEN buffer' = Append(buffer, e) /\ UNCHANGED lagged
    ELSE buffer' = Append(Tail(buffer), e) /\ lagged' = TRUE
\* A run logs its next event, or its end once a cancel was accepted.
Publishes(r) ==
    /\ ~Ended(r)
    /\ LET n == runs[r].at + 1
       IN  /\ \/ runs' = [runs EXCEPT ![r].at = n]
              \/ /\ runs[r].cancelled /\ n > 1
                 /\ runs' = [runs EXCEPT ![r].at = n, ![r].script =
                                SubSeq(@, 1, n - 1) \o <<"cancelled">>]
           /\ Gives([run |-> r, seq |-> n, kind |-> runs'[r].script[n]])
    /\ UNCHANGED <<keys, asked, prompted, quit, viewVars>>

-----------------------------------------------------------------------------
(* ClientState *)

Next1(state) == state.seq + 1
\* What an event changes in the state of its run.
Reduced(state, e) ==
    LET after == [state EXCEPT !.seq = e.seq]
    IN  CASE e.kind = "started" -> [after EXCEPT !.status = "running"]
          [] e.kind \in Terminal -> [after EXCEPT !.status = e.kind]
          [] e.kind = "content" -> [after EXCEPT !.content = Append(@, <<e.run, e.seq>>)]
          [] e.kind = "asked" -> [after EXCEPT !.approvals = @ \cup {<<e.run, e.seq>>}]
          [] e.kind = "settled" -> [after EXCEPT !.approvals = {a \in @ : a[1] # e.run}]
\* Mutant: an event after a gap is taken.
AcceptsLater(state, e) == e.seq > state.seq
\* try_apply: the first is 1, and the next is the next.
Accepts(state, e) == e.seq = Next1(state)

\* The state of a run whose first n events are applied to nothing.
Replay(r, n) ==
    FoldLeft(Reduced, NoRun, [i \in 1..n |-> [run |-> r, seq |-> i, kind |-> KindOf(r, i)]])

-----------------------------------------------------------------------------
(* Events *)

\* finish_run: what the view holds goes to the transcript.
Finishes(view) ==
    /\ busy' = FALSE /\ approval' = None
    /\ shown' = IF view.content = <<>> THEN shown ELSE Append(shown, view.content)
\* on_event: the events of another run are passed over unless they begin one.
OnEvent(e) ==
    LET foreign == canonicalRun \notin {None, e.run}
        before == IF foreign THEN NoRun ELSE canonical
    IN  IF foreign /\ e.seq # 1
        THEN UNCHANGED viewVars
        ELSE IF ~Accepts(before, e)
        THEN canonical' = before /\ UNCHANGED <<session, runId, busy, approval, canonicalRun, shown>>
        ELSE /\ canonical' = Reduced(before, e) /\ canonicalRun' = e.run /\ UNCHANGED session
             /\ runId' = IF e.kind = "started" /\ runId = None THEN e.run ELSE runId
             /\ CASE e.kind \in Terminal -> Finishes(canonical')
                  [] e.kind = "started" -> busy' = TRUE /\ UNCHANGED <<approval, shown>>
                  [] e.kind = "asked" -> approval' = e.run /\ UNCHANGED <<busy, shown>>
                  [] OTHER -> UNCHANGED <<busy, approval, shown>>
Free == asked = NoRequest /\ ~quit
Receives ==
    /\ Free /\ ~lagged /\ buffer # <<>>
    /\ OnEvent(Head(buffer)) /\ buffer' = Tail(buffer)
    /\ UNCHANGED <<runs, lagged, keys, asked, prompted, quit>>
\* Mutant: the loop goes on as if nothing were missing.
LagsOn ==
    /\ Free /\ lagged /\ lagged' = FALSE /\ buffer' = <<>>
    /\ UNCHANGED <<runs, keys, asked, prompted, quit, viewVars>>
\* Lagged: the user is told, and the loop listens from the newest event on.
Lags ==
    /\ Free /\ lagged /\ lagged' = FALSE /\ buffer' = <<>> /\ busy' = FALSE
    /\ UNCHANGED <<runs, keys, asked, prompted, quit, session, runId, approval, canonical,
                   canonicalRun, shown>>

-----------------------------------------------------------------------------
(* Keys *)

Asks(command, about) ==
    /\ keys < MaxKeys /\ keys' = keys + 1
    /\ asked' = [command |-> command, about |-> about, answer |-> "none"]
    /\ UNCHANGED <<serverVars, prompted, session, runId, canonical, canonicalRun, shown>>
\* An approval on the screen takes every key.
Chats == Free /\ approval = None
Submit ==
    /\ Chats /\ UNCHANGED <<quit, approval, busy>>
    /\ \/ busy /\ runId # None /\ Asks("steer", runId)
       \/ ~busy /\ session # None /\ Asks("prompt", session)
Retry ==
    /\ Chats /\ prompted /\ ~busy /\ busy' = TRUE
    /\ session # None /\ Asks("prompt", session)
    /\ UNCHANGED <<quit, approval>>
SwitchTo(s) ==
    /\ Chats /\ Asks("switch", s) /\ UNCHANGED <<quit, approval, busy>>
AnswersApproval ==
    /\ Free /\ approval # None /\ approval' = None
    /\ Asks("decide", approval) /\ UNCHANGED <<quit, busy>>
Interrupt ==
    /\ Chats
    /\ IF busy /\ runId # None
       THEN Asks("cancel", runId) /\ UNCHANGED <<quit, approval, busy>>
       ELSE quit' = TRUE /\ UNCHANGED <<serverVars, keys, asked, prompted, viewVars>>

-----------------------------------------------------------------------------
(* Answers *)

Answers(answer, about) ==
    /\ asked' = [asked EXCEPT !.answer = answer, !.about = about]
    /\ UNCHANGED <<buffer, lagged, keys, prompted, quit, viewVars>>
\* The server's handlers, as far as the view depends on them.
Serves ==
    /\ asked # NoRequest /\ asked.answer = "none"
    /\ CASE asked.command = "prompt" ->
              IF Live(asked.about) = {}
              THEN /\ Len(runs) < MaxRuns
                   /\ \E script \in Scripts :
                        runs' = Append(runs, [session |-> asked.about, script |-> script, at |-> 0,
                                              cancelled |-> FALSE])
                   /\ Answers("accepted", Len(runs'))
              ELSE Answers("refused", asked.about) /\ UNCHANGED runs
         [] asked.command = "cancel" ->
              /\ runs' = [runs EXCEPT ![asked.about].cancelled = TRUE]
              /\ Answers("done", asked.about)
         [] OTHER -> Answers("done", asked.about) /\ UNCHANGED runs

\* set_connected_session: another session begins with nothing; load_session then reads its history.
Connects(s) ==
    /\ session' = s /\ shown' = <<>>
    /\ IF s = session THEN UNCHANGED <<runId, busy, approval, canonical, canonicalRun>>
       ELSE /\ runId' = None /\ busy' = FALSE /\ approval' = None
            /\ canonical' = NoRun /\ canonicalRun' = None
\* Mutant: the view of the previous run is kept.
AdoptsKeeping(r) ==
    /\ runId' = r /\ busy' = TRUE /\ canonicalRun' = None /\ prompted' = TRUE
    /\ UNCHANGED <<session, approval, canonical, shown>>
Adopts(r) ==
    /\ runId' = r /\ busy' = TRUE /\ canonicalRun' = None /\ canonical' = NoRun /\ prompted' = TRUE
    /\ UNCHANGED <<session, approval, shown>>
Takes ==
    /\ asked # NoRequest /\ asked.answer # "none" /\ asked' = NoRequest
    /\ CASE asked.answer = "accepted" -> Adopts(asked.about)
         [] asked.answer = "refused" ->
              /\ busy' = FALSE
              /\ UNCHANGED <<prompted, session, runId, approval, canonical, canonicalRun, shown>>
         [] asked.command = "switch" -> Connects(asked.about) /\ UNCHANGED prompted
         [] OTHER -> UNCHANGED <<prompted, viewVars>>
    /\ UNCHANGED <<serverVars, keys, quit>>
\* No answer comes in time.
TimesOut ==
    /\ asked # NoRequest /\ asked' = NoRequest
    /\ busy' = IF asked.command = "prompt" THEN FALSE ELSE busy
    /\ UNCHANGED <<serverVars, keys, quit, prompted, session, runId, approval, canonical,
                   canonicalRun, shown>>

-----------------------------------------------------------------------------
\* bootstrap: the newest session is loaded, if there is one.
TerminalInit ==
    /\ runs = <<>> /\ buffer = <<>> /\ lagged = FALSE /\ keys = 0 /\ asked = NoRequest
    /\ session = (CHOOSE s \in Sessions : TRUE) /\ runId = None /\ busy = FALSE /\ approval = None
    /\ prompted = FALSE /\ quit = FALSE /\ canonical = NoRun /\ canonicalRun = None /\ shown = <<>>

TerminalLoop == Receives \/ Lags
KeyStep == Submit \/ Retry \/ (\E s \in Sessions : SwitchTo(s)) \/ AnswersApproval \/ Interrupt
AnswerStep == Serves \/ Takes \/ TimesOut
TerminalNext == (\E r \in Runs : Publishes(r)) \/ TerminalLoop \/ KeyStep \/ AnswerStep

\* The server ends its runs, requests end by their answer or in time, and tokio's select takes
\* each of its branches again and again.
TerminalFairness ==
    /\ \A r \in 1..MaxRuns : WF_uiVars(r \in Runs /\ Publishes(r))
    /\ WF_uiVars(TerminalLoop) /\ WF_uiVars(AnswerStep)

-----------------------------------------------------------------------------
(* Properties *)

\* What the screen holds is a run's log up to a point, replayed: with dropped events, with the
\* events of other runs in between and after a change of session, never a mixture and never a
\* view with a hole; and each answer of the transcript is that of one ended run, whole, and
\* there once.
ViewIsReplay ==
    /\ canonical = IF canonicalRun = None THEN NoRun ELSE Replay(canonicalRun, canonical.seq)
    /\ \A n \in DOMAIN shown :
          \E r \in Runs : Ended(r) /\ shown[n] = Replay(r, runs[r].at).content
    /\ IsInjective(shown)

\* The terminal is never busy for good: whatever it misses, it takes prompts again.
BusyEnds == busy ~> (~busy \/ quit)

\* A cancel is for the run on the screen.  (Not so when the answer to a prompt was late: the run
\* is adopted by its first event, and run_id stays that of an earlier one.)
CancelsWhatIsShown ==
    asked.command = "cancel" /\ canonicalRun # None => asked.about = canonicalRun

\* An approval on the screen is pending.  (Not so when it was settled elsewhere or timed out: only
\* the end of the run clears it.)
AskedIsPending == approval # None => ~Ended(approval) /\ canonical.approvals # {}
================================================================================
