----------------------------- MODULE LegacyMirror -----------------------------
(***************************************************************************)
(* The write-through projection of the durable log into the legacy tables  *)
(* agent_runs, run_events and spend_log (cool-app-server legacy/mirror.rs, *)
(* cool-store domains/runs.rs).  Whoever appends an event projects it      *)
(* afterwards, in several transactions of the other database; a sweep at   *)
(* start-up and when a conversation is linked replays what lies above a    *)
(* row's watermark and closes the rows of ended runs.                      *)
(***************************************************************************)
EXTENDS Integers, Sequences, FiniteSets

CONSTANTS
    MaxMirrored,    \* bound: events of the turn
    MaxSweep,       \* MIRROR_SWEEP_EVENTS_PER_RUN
    MaxMishaps      \* bound: crashes, and transactions of the legacy store that fail

\* The turn's log starts with one event.
ASSUME MirrorAssumption == {MaxMirrored, MaxSweep, MaxMishaps} \subseteq Nat /\ MaxMirrored # 0

VARIABLES
    logged,      \* the durable log of each run: kinds, with the copies of a rewind marked
    phase,       \* its status: "none", "live", "ended" or "rewound"
    tied,        \* whether the session is linked to a conversation
    row,         \* the run's row in agent_runs
    entries,     \* run_events: the seqs that have one, 0 for a finish without an event
    counted,     \* spend_log: how often each event's usage was counted
    hand,        \* what each projecting task does: its queue and its position in project
    sweepList,   \* runs the sweep has still to visit, and whether they had ended
    booted,     \* FALSE from a restart until the start-up's sweep is done
    restarts, slips,
    clean        \* history: no crash, failure or link met a projection half way

mirrorVars == <<logged, phase, tied, row, entries, counted, hand, sweepList, booted, restarts, slips, clean>>
logVars == <<logged, phase, tied>>
rowVars == <<row, entries, counted>>

MirrorRuns == {"turn", "seed"}
Hands == {"executor", "request", "sweep"}
NoRow == [exists |-> FALSE, status |-> "running", finished |-> FALSE, cursor |-> 0]
OpenStatus == {"running", "awaiting_approval"}
ClosedStatus == {"completed", "cancelled"}
Rest == [at |-> "idle", queue |-> <<>>]
Entry(kind, copied) == [kind |-> kind, copied |-> copied]

Resting(h) == hand[h].at = "idle" /\ hand[h].queue = <<>>
Current(h) == Head(hand[h].queue)                          \* <<run, seq>>
CurrentEvent(h) == logged[Current(h)[1]][Current(h)[2]]
Proceeds(h, at) == hand' = [hand EXCEPT ![h].at = at]
NextUp(h) == hand' = [hand EXCEPT ![h] = [at |-> "idle", queue |-> Tail(@.queue)]]
Given(h, queue) == hand' = [hand EXCEPT ![h].queue = @ \o queue]
Seqs(r, from, to) == [i \in 1..(to - from + 1) |-> <<r, from + i - 1>>]

\* list_session_runs, newest first.
SessionRuns ==
    (IF phase["seed"] = "none" THEN <<>> ELSE <<[run |-> "seed", ended |-> TRUE]>>)
        \o <<[run |-> "turn", ended |-> phase["turn"] # "live"]>>

MirrorInit ==
    /\ logged = [r \in MirrorRuns |-> IF r = "turn" THEN <<Entry("start", FALSE)>> ELSE <<>>]
    /\ phase = [r \in MirrorRuns |-> IF r = "turn" THEN "live" ELSE "none"]
    /\ tied \in BOOLEAN
    /\ row = [r \in MirrorRuns |-> NoRow]
    /\ entries = [r \in MirrorRuns |-> {}]
    /\ counted = [r \in MirrorRuns |-> [i \in 1..(MaxMirrored + 2) |-> 0]]
    /\ hand = [h \in Hands |-> IF h = "executor" THEN [Rest EXCEPT !.queue = <<<<"turn", 1>>>>]
                                                 ELSE Rest]
    /\ sweepList = <<>> /\ booted = TRUE /\ restarts = 0 /\ slips = 0 /\ clean = TRUE

-----------------------------------------------------------------------------
(* Writers of the log *)

Count(kind) == Cardinality({i \in DOMAIN logged["turn"] : logged["turn"][i].kind = kind})
Sweeping == sweepList # <<>> \/ ~Resting("sweep")

\* append_event, session.steer, run.cancel: the event is projected by the task that
\* appended it.  The gate's request and the user's answer are not projected by anyone.
\* ("text" stands for the kinds that only leave an entry; the requests' suffice.)
LogsEvent(h, kind) ==
    /\ Resting(h) /\ booted /\ phase["turn"] = "live"
    /\ kind \in IF h = "executor" THEN {"usage", "asked", "end"}
                ELSE {"text", "answered", "end"}
    /\ kind = "answered" => Count("answered") < Count("asked")
    /\ Len(logged["turn"]) < MaxMirrored \/ kind = "end"
    /\ logged' = [logged EXCEPT !["turn"] = Append(@, Entry(kind, FALSE))]
    /\ phase' = [phase EXCEPT !["turn"] = IF kind = "end" THEN "ended" ELSE @]
    /\ IF kind \in {"asked", "answered"} THEN UNCHANGED hand
       ELSE Given(h, <<<<"turn", Len(logged["turn"]) + 1>>>>)
    /\ clean' = (clean /\ ~Sweeping)
    /\ UNCHANGED <<tied, rowVars, sweepList, booted, restarts, slips>>

\* session.rewind: the seed run's log is inserted whole, its copies marked; mirror_rewind
\* projects it and then closes the row of the run it replaced.
RewindsSession ==
    /\ phase["turn"] = "ended" /\ phase["seed"] = "none" /\ Resting("request") /\ booted
    /\ logged' = [logged EXCEPT !["seed"] =
                     <<Entry("start", FALSE), Entry("usage", TRUE), Entry("end", FALSE)>>]
    /\ phase' = [phase EXCEPT !["turn"] = "rewound", !["seed"] = "ended"]
    /\ Given("request", Seqs("seed", 1, 3) \o <<<<"turn", 0>>>>)
    /\ clean' = (clean /\ ~Sweeping)
    /\ UNCHANGED <<tied, rowVars, sweepList, booted, restarts, slips>>

\* session.conversation: the link is stored, then reconcile_linked_session sweeps the
\* session while its turn goes on.
Links ==
    /\ booted /\ ~tied /\ tied' = TRUE
    /\ sweepList' = SessionRuns
    /\ clean' = (clean /\ \A h \in Hands : Resting(h))
    /\ UNCHANGED <<logged, phase, rowVars, hand, booted, restarts, slips>>

\* A crash, and the start-up that follows: recovery ends a live run, then the server is
\* built, which sweeps; mirror_recovered projects the recovered event after the sweep.
Restarts ==
    /\ restarts + slips < MaxMishaps /\ restarts' = restarts + 1
    /\ LET live == phase["turn"] = "live"
       IN  /\ logged' = IF live THEN [logged EXCEPT !["turn"] = Append(@, Entry("end", FALSE))]
                        ELSE logged
           /\ phase' = IF live THEN [phase EXCEPT !["turn"] = "ended"] ELSE phase
           /\ hand' = [h \in Hands |-> IF h = "request" /\ live
                                       THEN [Rest EXCEPT !.queue = <<<<"turn", Len(logged'["turn"])>>>>]
                                       ELSE Rest]
    /\ sweepList' = (IF tied THEN SessionRuns' ELSE <<>>) /\ booted' = FALSE
    /\ clean' = (clean /\ ~Sweeping /\ \A h \in Hands : Resting(h))
    /\ UNCHANGED <<tied, rowVars, slips>>

StartUpEnds ==
    /\ ~booted /\ ~Sweeping /\ Resting("request") /\ booted' = TRUE
    /\ UNCHANGED <<logVars, rowVars, hand, sweepList, restarts, slips, clean>>

-----------------------------------------------------------------------------
(* project, one transaction after another *)

\* Between two events; after a restart the sweep goes first.
MayProject(h) == hand[h].queue # <<>> /\ (h = "sweep" \/ booted \/ ~Sweeping)

\* The link, the row (made at the first event) and its watermark.
Opens(h) ==
    /\ hand[h].at = "idle" /\ MayProject(h) /\ Current(h)[2] # 0
    /\ LET r == Current(h)[1]
       IN  IF ~tied THEN NextUp(h) /\ UNCHANGED rowVars
           ELSE /\ row' = [row EXCEPT ![r].exists = TRUE]
                /\ IF Current(h)[2] <= row[r].cursor THEN NextUp(h) ELSE Proceeds(h, "entry")
                /\ UNCHANGED <<entries, counted>>
    /\ UNCHANGED <<logVars, sweepList, booted, restarts, slips, clean>>

\* append_run_event_at; what follows depends on the event, and copies are not accounted.
Enters(h) ==
    /\ hand[h].at = "entry"
    /\ entries' = [entries EXCEPT ![Current(h)[1]] = @ \cup {Current(h)[2]}]
    /\ Proceeds(h, CASE CurrentEvent(h).copied \/ CurrentEvent(h).kind = "text" -> "mark"
                 [] CurrentEvent(h).kind = "end" -> "finish"
                 [] OTHER -> "progress")
    /\ UNCHANGED <<logVars, row, counted, sweepList, booted, restarts, slips, clean>>

\* update_run_progress leaves a finished row alone.
\* Mutant: it does not.
ProgressesAnyway(h) ==
    /\ hand[h].at = "progress"
    /\ row' = [row EXCEPT ![Current(h)[1]].status =
                  CASE CurrentEvent(h).kind = "asked" -> "awaiting_approval"
                    [] CurrentEvent(h).kind \in {"start", "answered"} -> "running"
                    [] OTHER -> @]
    /\ Proceeds(h, IF CurrentEvent(h).kind = "usage" THEN "spend" ELSE "mark")
    /\ UNCHANGED <<logVars, entries, counted, sweepList, booted, restarts, slips, clean>>
Progresses(h) ==
    /\ hand[h].at = "progress"
    /\ LET r == Current(h)[1]
       IN  row' = IF row[r].finished THEN row
                  ELSE [row EXCEPT ![r].status =
                           CASE CurrentEvent(h).kind = "asked" -> "awaiting_approval"
                             [] CurrentEvent(h).kind \in {"start", "answered"} -> "running"
                             [] OTHER -> @]
    /\ Proceeds(h, IF CurrentEvent(h).kind = "usage" THEN "spend" ELSE "mark")
    /\ UNCHANGED <<logVars, entries, counted, sweepList, booted, restarts, slips, clean>>

\* log_spend.
Spends(h) ==
    /\ hand[h].at = "spend"
    /\ counted' = [counted EXCEPT ![Current(h)[1]][Current(h)[2]] = @ + 1]
    /\ Proceeds(h, "mark")
    /\ UNCHANGED <<logVars, row, entries, sweepList, booted, restarts, slips, clean>>

\* finish_run.
Closed(r, status) == row' = [row EXCEPT ![r].status = status, ![r].finished = TRUE]
Finishes(h) ==
    /\ hand[h].at = "finish"
    /\ Closed(Current(h)[1], "completed") /\ Proceeds(h, "mark")
    /\ UNCHANGED <<logVars, entries, counted, sweepList, booted, restarts, slips, clean>>

\* set_run_mirror_cursor keeps the larger seq.
\* Mutant: it keeps the last one.
RaisesMarkAnyway(h) ==
    /\ hand[h].at = "mark"
    /\ row' = [row EXCEPT ![Current(h)[1]].cursor = Current(h)[2]]
    /\ NextUp(h)
    /\ UNCHANGED <<logVars, entries, counted, sweepList, booted, restarts, slips, clean>>
RaisesMark(h) ==
    /\ hand[h].at = "mark"
    /\ LET seq == Current(h)[2]
       IN  row' = [row EXCEPT ![Current(h)[1]].cursor = IF seq > @ THEN seq ELSE @]
    /\ NextUp(h)
    /\ UNCHANGED <<logVars, entries, counted, sweepList, booted, restarts, slips, clean>>

\* A transaction fails: project gives the event up, with a warning.
Slips(h) ==
    /\ restarts + slips < MaxMishaps /\ slips' = slips + 1
    /\ hand[h].queue # <<>> /\ MayProject(h)
    /\ NextUp(h) /\ clean' = FALSE
    /\ UNCHANGED <<logVars, rowVars, sweepList, booted, restarts>>

-----------------------------------------------------------------------------
(* Sweeps and closings *)

\* The sweep reads the watermark and at most MaxSweep events above it.
SweepReads ==
    /\ Resting("sweep") /\ sweepList # <<>>
    /\ LET r == Head(sweepList).run
           last == IF Len(logged[r]) < row[r].cursor + MaxSweep THEN Len(logged[r])
                   ELSE row[r].cursor + MaxSweep
       IN  Given("sweep", Seqs(r, row[r].cursor + 1, last)
                             \o (IF Head(sweepList).ended THEN <<<<r, 0>>>> ELSE <<>>))
    /\ sweepList' = Tail(sweepList)
    /\ UNCHANGED <<logVars, rowVars, booted, restarts, slips, clean>>

\* close_terminal_run: a row that is not finished gets a finish entry of its own ...
ClosingStarts(h) ==
    /\ hand[h].at = "idle" /\ MayProject(h) /\ Current(h)[2] = 0
    /\ LET r == Current(h)[1]
       IN  IF ~tied \/ ~row[r].exists \/ row[r].finished
           THEN NextUp(h) /\ UNCHANGED entries
           ELSE entries' = [entries EXCEPT ![r] = @ \cup {0}] /\ Proceeds(h, "close")
    /\ UNCHANGED <<logVars, row, counted, sweepList, booted, restarts, slips, clean>>
\* ... and is finished in the next transaction, with the status the sweep listed or the
\* "cancelled" of a rewind.
ClosingEnds(h) ==
    /\ hand[h].at = "close"
    /\ \E status \in CASE phase[Current(h)[1]] # "rewound" -> {"completed"}
                      [] h = "request" -> {"cancelled"}
                      [] OTHER -> ClosedStatus :
          Closed(Current(h)[1], status)
    /\ NextUp(h)
    /\ UNCHANGED <<logVars, entries, counted, sweepList, booted, restarts, slips, clean>>

MirrorNext ==
    \/ \E h \in {"executor", "request"} :
          \E kind \in {"text", "usage", "asked", "answered", "end"} : LogsEvent(h, kind)
    \/ RewindsSession \/ Links \/ Restarts \/ StartUpEnds \/ SweepReads
    \/ \E h \in Hands :
          \/ Opens(h) \/ Enters(h) \/ Progresses(h) \/ Spends(h) \/ Finishes(h) \/ RaisesMark(h)
          \/ Slips(h) \/ ClosingStarts(h) \/ ClosingEnds(h)

MirrorSpec == MirrorInit /\ [][MirrorNext]_mirrorVars

-----------------------------------------------------------------------------
(* Properties *)

MirrorTypeOK ==
    /\ \A r \in MirrorRuns : row[r].status \in OpenStatus \cup ClosedStatus
                             /\ row[r].cursor \in 0..Len(logged[r])
    /\ phase \in [MirrorRuns -> {"none", "live", "ended", "rewound"}]
    /\ \A h \in Hands : hand[h].at \in {"idle", "entry", "progress", "spend", "finish", "mark", "close"}

\* A row that says its run has ended tells the truth and is never opened again, whatever
\* late projection or sweep meets it (update_run_progress, close_terminal_run).
ClosedRowsStay ==
    \A r \in MirrorRuns :
        row[r].finished => phase[r] \in {"ended", "rewound"} /\ row[r].status \in ClosedStatus

\* As long as no failure, crash or link falls into a projection, a model call is counted
\* in spend_log at most once and a rewind's copy never, in whatever order the writers
\* project and however often the server restarts (set_run_mirror_cursor: "regression would
\* let a later sweep re-project already-accounted events").
SpendCountedOnce ==
    clean => \A r \in MirrorRuns : \A i \in DOMAIN logged[r] :
                counted[r][i] <= IF logged[r][i].copied THEN 0 ELSE 1

\* The legacy tables tell the truth about a run: its end and what it cost.
MirrorIsTrue == ClosedRowsStay /\ SpendCountedOnce

\* Once nothing is being projected, everything up to a row's watermark has its entry.
\* (mirror.rs: "Every event appended on a run whose session is bound to a legacy
\* conversation lands here".)
EverythingMirrored ==
    (\A h \in Hands : Resting(h)) /\ tied /\ slips = 0 =>
        \A r \in MirrorRuns : 1..row[r].cursor \subseteq entries[r]
================================================================================
