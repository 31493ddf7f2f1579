--------------------------- MODULE ContextCompaction ---------------------------
(***************************************************************************)
(* The model's view of one session: the history a turn's loop keeps in     *)
(* memory, shortened by summary_drop_candidates and compact_history of     *)
(* cool-agent context.rs when it nears the context window, and the view a  *)
(* later turn replays from the durable log (history_from_event_rows of     *)
(* loop_runtime.rs), where a session.compacted event hides everything up   *)
(* to a cursor behind a summary.  Beside the turn a client may steer it    *)
(* and may compact the conversation (compact_conversation of the server).  *)
(* A message is its cursor in the log and a token cost; a summary is the   *)
(* set of messages it was written from.                                    *)
(***************************************************************************)
EXTENDS Integers, Sequences, SequencesExt, FiniteSets, FiniteSetsExt

CONSTANTS
    Costs,          \* token estimates of a message
    Window,         \* context_tokens of the request
    Trigger,        \* compaction engages above this estimate (85 %)
    MaxReserve,     \* COMPACTION_SUMMARY_RESERVE
    KeepLast,       \* COMPACTION_KEEP_LAST_GROUPS
    Threshold, Keep,\* items compact_conversation needs, and leaves verbatim
    MaxEvents,      \* bound: events of the session
    MaxSteers,      \* bound: steers
    MaxManual       \* bound: conversations.compact commands

ASSUME ContextAssumption ==
    /\ Costs \subseteq Nat \ {0} /\ {Window, Trigger, KeepLast} \subseteq Nat \ {0}
    /\ {MaxReserve, Threshold, Keep, MaxEvents, MaxSteers, MaxManual} \subseteq Nat
    /\ Keep < Threshold

VARIABLES
    prompted,   \* whether the turns have a system prompt
    log,        \* the session's events that make or hide messages
    context,    \* the loop's history
    turn,       \* the loop's step
    drainedTo,  \* steer_cursor: user events up to here were taken
    covering,   \* what an in-loop summary in the making covers: ids, upTo
    manual,     \* compact_conversation: step, ids, upTo
    steered, compactions,
    taken,      \* messages the loop has had in its context (history)
    dropped     \* messages given up without a summary (history)

contextVars == <<prompted, log, context, turn, drainedTo, covering, manual, steered,
                 compactions, taken, dropped>>

Message(kind, id, calls, cost) == [kind |-> kind, ids |-> {id}, calls |-> calls, cost |-> cost]
SystemPrompt == [kind |-> "prompt", ids |-> {}, calls |-> FALSE, cost |-> 1]
Summary(ids, cost) == [kind |-> "summary", ids |-> ids, calls |-> FALSE, cost |-> cost]
Event(kind, calls, cost, own) ==
    [kind |-> kind, calls |-> calls, cost |-> cost, own |-> own, ids |-> {}, upTo |-> 0]
Compacted(ids, upTo, cost) ==
    [kind |-> "mark", calls |-> FALSE, cost |-> cost, own |-> FALSE, ids |-> ids, upTo |-> upTo]
Nothing == [ids |-> {}, upTo |-> 0]

Tokens(h) == FoldLeft(LAMBDA n, m : n + m.cost, 0, h)
Ids(h) == UNION {h[i].ids : i \in DOMAIN h}
IsSystem(m) == m.kind \in {"prompt", "summary"}
IsSummary(m) == m.kind = "summary"

-----------------------------------------------------------------------------
(* context.rs *)

\* The first system message, as a sequence of at most one.
Leading(h) == SelectInSeq(h, IsSystem)
System(h) == IF Leading(h) = 0 THEN <<>> ELSE <<h[Leading(h)]>>

\* history_groups: an assistant message with calls owns the results that follow it.
Joins(groups, m) == m.kind = "tool" /\ groups # <<>> /\ Last(groups)[1].calls
Groups(h) ==
    FoldLeft(LAMBDA groups, m : IF Joins(groups, m)
                                THEN [groups EXCEPT ![Len(groups)] = Append(@, m)]
                                ELSE Append(groups, <<m>>),
             <<>>, SelectSeq(h, LAMBDA m : ~IsSystem(m)))

Newest(groups, n) == FlattenSeq(SubSeq(groups, Len(groups) - n + 1, Len(groups)))
Oldest(groups, n) == FlattenSeq(SubSeq(groups, 1, n))

\* retained_group_count: the newest groups that fit, at most KeepLast, at least one.
RetainedCount(groups, budget) ==
    LET fit == {n \in 1..Len(groups) : n <= KeepLast
                   /\ \A k \in 2..n : Tokens(Newest(groups, k)) <= budget}
    IN IF fit = {} THEN 0 ELSE Max(fit)

Monus(a, b) == IF a > b THEN a - b ELSE 0
Available(h) == Monus(Window, Tokens(System(h)))
Reserve(available) == Min({MaxReserve, available \div 4})

\* summary_drop_candidates: earlier summaries and all but the groups to keep.
KeptGroups(h) == RetainedCount(Groups(h), Monus(Available(h), Reserve(Available(h))))
\* Mutant: earlier summaries are not folded into the next one.
CandidatesForget(h) ==
    LET groups == Groups(h) IN
    IF Len(groups) <= KeptGroups(h) THEN <<>> ELSE Oldest(groups, Len(groups) - KeptGroups(h))
Candidates(h) ==
    LET groups == Groups(h) IN
    IF Len(groups) <= KeptGroups(h) THEN <<>>
    ELSE SelectSeq(h, IsSummary) \o Oldest(groups, Len(groups) - KeptGroups(h))

\* compact_history with a summary: the newest groups that fit beside it.
WithSummary(h, summary) ==
    LET groups == Groups(h)
        keep == RetainedCount(groups, Monus(Available(h), summary.cost))
    IN System(h) \o <<summary>> \o Newest(groups, keep)

\* compact_history without one: the oldest groups go until the rest fits; summaries stay.
WithoutSummary(h) ==
    IF Tokens(h) <= Window THEN h
    ELSE LET groups == Groups(h)
             fits == {n \in 1..Len(groups) : Tokens(Newest(groups, n)) <= Available(h)}
             keep == IF groups = <<>> THEN 0 ELSE IF fits = {} THEN 1 ELSE Max(fits)
             system == System(h)
             summaries == SelectSeq(h, IsSummary)
         IN system \o (IF system # <<>> /\ IsSummary(system[1]) THEN Tail(summaries) ELSE summaries)
                   \o Newest(groups, keep)

-----------------------------------------------------------------------------
(* history_from_event_rows *)

Marks == {c \in DOMAIN log : log[c].kind = "mark" /\ log[c].ids # {}}
CoveredThrough == Max({log[c].upTo : c \in Marks} \cup {0})
Replay ==
    LET visible == SelectSeq([c \in DOMAIN log |-> c], LAMBDA c : c > CoveredThrough)
        marks == SelectSeq(visible, LAMBDA c : c \in Marks)
        messages == SelectSeq(visible, LAMBDA c : log[c].kind # "mark")
    IN [i \in DOMAIN marks |-> Summary(log[marks[i]].ids, log[marks[i]].cost)]
       \o [i \in DOMAIN messages |-> LET c == messages[i] IN
              Message(log[c].kind, c, log[c].calls, log[c].cost)]

-----------------------------------------------------------------------------
(* The loop of a turn *)

Room == Len(log) < MaxEvents
Logs(e) == Room /\ log' = Append(log, e)
Takes(m) == context' = Append(context, m) /\ taken' = taken \cup m.ids

\* load_history and the configured system prompt.
Loads ==
    /\ turn = "idle" /\ Room
    /\ context' = (IF prompted THEN <<SystemPrompt>> ELSE <<>>) \o Replay
    /\ taken' = Ids(Replay)
    /\ drainedTo' = Len(log) /\ turn' = "begin"
    /\ UNCHANGED <<prompted, log, covering, manual, steered, compactions, dropped>>

\* The prompt is recorded as the loop's own user item and pushed.
Begins ==
    /\ turn = "begin"
    /\ \E cost \in Costs : Logs(Event("user", FALSE, cost, TRUE))
                           /\ Takes(Message("user", Len(log'), FALSE, cost))
    /\ turn' = "drain"
    /\ UNCHANGED <<prompted, drainedTo, covering, manual, steered, compactions, dropped>>

\* drain_steers at the top of an iteration.
Steers == {c \in DOMAIN log : c > drainedTo /\ log[c].kind = "user" /\ ~log[c].own}
TakesSteers ==
    /\ LET new == SetToSortSeq(Steers, <)
       IN context' = context \o [i \in DOMAIN new |-> Message("user", new[i], FALSE, log[new[i]].cost)]
    /\ taken' = taken \cup Steers /\ drainedTo' = Len(log)
Drains ==
    /\ turn = "drain" /\ TakesSteers
    /\ turn' = IF Tokens(context') > Trigger THEN "hook" ELSE "model"
    /\ UNCHANGED <<prompted, log, covering, manual, steered, compactions, dropped>>

\* before_compaction has returned; summarize_for_compaction reads the log and maps
\* the messages it leaves onto the log's last ones.
MessageCursors == SelectSeq([c \in DOMAIN log |-> c], LAMBDA c : log[c].kind # "mark")
\* Mutant: the cursor of the oldest message that is left.
CoversOneMore(left) ==
    LET index == Len(MessageCursors) - left + 1
    IN IF index \in 1..Len(MessageCursors) THEN MessageCursors[index] ELSE 0
Covers(left) ==
    LET index == Len(MessageCursors) - left IN IF index >= 1 THEN MessageCursors[index] ELSE 0

Summarizes ==
    /\ turn = "hook" /\ Candidates(context) # <<>>
    /\ LET left == Len(FlattenSeq(Groups(context)))
                     - Len(SelectSeq(Candidates(context), LAMBDA m : ~IsSystem(m)))
       IN covering' = [ids |-> Ids(Candidates(context)), upTo |-> Covers(left)]
    /\ turn' = "summary"
    /\ UNCHANGED <<prompted, log, context, drainedTo, manual, steered, compactions, taken, dropped>>

\* The summary is there: session.compacted is recorded with the pending cursor.
CompactsWithSummary ==
    /\ turn = "summary"
    /\ \E cost \in 1..Max({1, Reserve(Available(context))}) :
          LET summary == Summary(covering.ids, cost)
          IN context' = WithSummary(context, summary)
             /\ Logs(Compacted(covering.ids, covering.upTo, cost))
    /\ covering' = Nothing /\ turn' = "model"
    /\ UNCHANGED <<prompted, drainedTo, manual, steered, compactions, taken, dropped>>

\* No candidates, or the provider gave no summary: the window decides alone, and the
\* event carries no summary.
CompactsWithout ==
    /\ turn = "summary" \/ (turn = "hook" /\ Candidates(context) = <<>>)
    /\ context' = WithoutSummary(context)
    /\ IF Len(context') < Len(context) THEN Logs(Compacted({}, 0, 1)) ELSE UNCHANGED log
    /\ dropped' = dropped \cup (Ids(context) \ Ids(context'))
    /\ covering' = Nothing /\ turn' = "model"
    /\ UNCHANGED <<prompted, drainedTo, manual, steered, compactions, taken>>

\* The provider answers: with a tool call, or with the turn's last message.
ModelAnswers ==
    /\ turn = "model"
    /\ \E calls \in BOOLEAN, cost \in Costs :
          /\ Logs(Event("assistant", calls, cost, TRUE))
          /\ Takes(Message("assistant", Len(log'), calls, cost))
          /\ turn' = IF calls THEN "tool" ELSE "finish"
    /\ UNCHANGED <<prompted, drainedTo, covering, manual, steered, compactions, dropped>>

ToolEnds ==
    /\ turn = "tool"
    /\ \E cost \in Costs : Logs(Event("tool", FALSE, cost, TRUE))
                           /\ Takes(Message("tool", Len(log'), FALSE, cost))
    /\ turn' = "drain"
    /\ UNCHANGED <<prompted, drainedTo, covering, manual, steered, compactions, dropped>>

\* After an answer without calls the steers are drained once more; one that is there
\* keeps the turn going.
FinishDrains ==
    /\ turn = "finish" /\ TakesSteers
    /\ turn' = IF Steers = {} THEN "idle" ELSE "drain"
    /\ UNCHANGED <<prompted, log, covering, manual, steered, compactions, dropped>>

-----------------------------------------------------------------------------
(* Other writers of the session *)

Steer ==
    /\ turn # "idle" /\ steered < MaxSteers
    /\ \E cost \in Costs : Logs(Event("user", FALSE, cost, FALSE))
    /\ steered' = steered + 1
    /\ UNCHANGED <<prompted, context, turn, drainedTo, covering, manual, compactions, taken, dropped>>

\* compact_conversation collects the items and the newest summary, asks the provider
\* (or falls back to the transcript itself), and appends its mark on a run of its own.
NewestMark == Max(Marks)
Collects ==
    /\ manual = Nothing /\ compactions < MaxManual /\ Len(MessageCursors) >= Threshold
    /\ LET old == SubSeq(MessageCursors, 1, Len(MessageCursors) - Keep)
           cutoff == IF Marks = {} THEN 0 ELSE log[NewestMark].upTo
           fresh == {c \in ToSet(old) : c > cutoff}
       IN /\ fresh # {}
          /\ manual' = [upTo |-> Last(old),
                        ids |-> fresh \cup (IF Marks = {} THEN {} ELSE log[NewestMark].ids)]
    /\ compactions' = compactions + 1
    /\ UNCHANGED <<prompted, log, context, turn, drainedTo, covering, steered, taken, dropped>>
Projects ==
    /\ manual # Nothing
    /\ Logs(Compacted(manual.ids, manual.upTo, 1)) /\ manual' = Nothing
    /\ UNCHANGED <<prompted, context, turn, drainedTo, covering, steered, compactions, taken, dropped>>

-----------------------------------------------------------------------------
ContextInit ==
    /\ prompted \in BOOLEAN /\ log = <<>> /\ context = <<>> /\ turn = "idle" /\ drainedTo = 0
    /\ covering = Nothing /\ manual = Nothing /\ steered = 0 /\ compactions = 0
    /\ taken = {} /\ dropped = {}

ContextNext ==
    \/ Loads \/ Begins \/ Drains \/ Summarizes \/ CompactsWithSummary \/ CompactsWithout
    \/ ModelAnswers \/ ToolEnds \/ FinishDrains \/ Steer \/ Collects \/ Projects

ContextSpec == ContextInit /\ [][ContextNext]_contextVars

-----------------------------------------------------------------------------
\* Every value has its type, and the loop's context never holds two prompts.
ContextTypeOK ==
    /\ prompted \in BOOLEAN /\ drainedTo \in 0..Len(log)
    /\ \A c \in DOMAIN log : log[c].kind \in {"user", "assistant", "tool", "mark"}
                             /\ log[c].upTo \in 0..Len(log) /\ log[c].ids \subseteq DOMAIN log
    /\ turn \in {"idle", "begin", "drain", "hook", "summary", "model", "tool", "finish"}
    /\ Len(SelectSeq(context, LAMBDA m : m.kind = "prompt")) <= 1
    /\ taken \subseteq DOMAIN log /\ dropped \subseteq DOMAIN log

\* Whatever the loop has had in its context is still there, verbatim or in a summary the
\* model is shown, unless a compaction had no summary to put in its place: the groups
\* compact_history keeps and those summary_drop_candidates had summarised leave no gap,
\* over any number of compactions (context.rs).
ContextKeepsAll == taken \ dropped \subseteq Ids(context)

\* The view a next turn would replay loses nothing either: every message of the log that
\* no compaction gave up is replayed or is in a summary that is.  The event sink relies on
\* it when it maps the messages that stay onto the log's last ones
\* (summarize_for_compaction, history_from_event_rows).
ReplayKeepsAll == ToSet(MessageCursors) \ dropped \subseteq Ids(Replay)

\* Nothing is lost to the turn under way, and nothing to a later one while no steer came:
\* compactions of the loop and of the client in any order (compact_conversation,
\* project_compaction).
CompactionKeepsAll == ContextKeepsAll /\ (steered = 0 => ReplayKeepsAll)
================================================================================
