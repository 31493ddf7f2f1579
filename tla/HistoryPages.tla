------------------------------ MODULE HistoryPages ------------------------------
(***************************************************************************)
(* The history of a session, given to a client page by page while turns    *)
(* append to it (cool-app-server lib.rs session_history,                   *)
(* history_entries_from_window, bounded_history; cool-state                *)
(* session_event_window), and the projection of a legacy transcript into   *)
(* such a history (legacy_history_events).  An event's cursor is its       *)
(* position in the log of all runs of the session.  A walk reads pages     *)
(* from the newest to the oldest, each assembled from chunks of events;    *)
(* an item carries the reasoning and the usage that precede it.            *)
(***************************************************************************)
EXTENDS Integers, Sequences, FiniteSets, SequencesExt

CONSTANTS
    Transcripts,    \* the events a session may come to have: sequences of [kind, run]
    PageSizes,      \* limits a client asks for
    ScanLimit,      \* max_events a page is assembled from
    FrameRoom,      \* max_frame_bytes, in item sizes
    Cuts,           \* cursors that sessions are rewound to
    LegacyRows      \* legacy transcripts: sequences of [role, calls] and [role, id, name]

ItemKinds == {"user", "assistant", "tool", "summary"}
Ends == {"completed", "failed", "cancelled", "disconnected"}
ASSUME PagesAssumption ==
    /\ PageSizes \subseteq Nat \ {0} /\ Cuts \subseteq Nat /\ {ScanLimit, FrameRoom} \subseteq Nat \ {0}
    /\ \A t \in Transcripts : \A c \in DOMAIN t :
          t[c].kind \in ItemKinds \cup Ends \cup {"started", "reasoning", "content", "usage", "other"}

VARIABLES
    transcript,     \* the events of this session, as they will be appended
    appended,       \* how many of them are
    rewound,        \* the runs with status 'rewound'
    walk,           \* the client's walk: where it is, its page size, the next page's cursor
    window,         \* the events read for the page, by cursor
    since,          \* how many events there were when the walk began
    pages,          \* the items the client has, oldest first
    legacy, imported  \* a legacy transcript, and the events made from it

pagesVars == <<transcript, appended, rewound, walk, window, since, pages, legacy, imported>>

Logged(c) == transcript[c]
\* The visible rows before a cursor (0: all), oldest first.
Visible(before) == SelectSeq([c \in 1..appended |-> c],
    LAMBDA c : Logged(c).run \notin rewound /\ (before = 0 \/ c < before))
LastOf(n, s) == SubSeq(s, (IF Len(s) > n THEN Len(s) - n ELSE 0) + 1, Len(s))

-----------------------------------------------------------------------------
(* history_entries_from_window *)

Item(c, role, start, thinking, usage) ==
    [cursor |-> c, run |-> Logged(c).run, role |-> role, start |-> start, thinking |-> thinking,
     usage |-> usage, marked |-> FALSE]
NoGroup == [entries |-> <<>>, thinking |-> <<>>, start |-> 0, usage |-> 0]

\* push_terminal_marker: on the run's last assistant item of this window, or an item of its own.
Marked(entries, c) ==
    LET own == {i \in DOMAIN entries : entries[i].run = Logged(c).run /\ entries[i].role = "assistant"}
    IN IF own # {} THEN [entries EXCEPT ![CHOOSE i \in own : \A j \in own : j <= i].marked = TRUE]
       ELSE Append(entries, [Item(c, "assistant", c, <<>>, 0) EXCEPT !.marked = TRUE])

\* Reasoning belongs to the assistant item after it, usage too; any other item drops both.
Extends(group, c) ==
    LET kind == Logged(c).kind
        start == IF group.start # 0 THEN group.start ELSE c
    IN CASE kind = "reasoning" ->
              [group EXCEPT !.thinking = Append(@, c), !.start = IF group.thinking = <<>> THEN c ELSE @]
         [] kind = "usage" -> [group EXCEPT !.usage = c]
         [] kind \in {"started", "completed", "disconnected"} -> [group EXCEPT !.usage = 0]
         [] kind \in {"failed", "cancelled"} ->
              [group EXCEPT !.usage = 0, !.entries = Marked(@, c)]
         [] kind = "assistant" ->
              [NoGroup EXCEPT !.entries = Append(group.entries, Item(c, kind, start, group.thinking, group.usage))]
         [] kind = "user" ->
              [NoGroup EXCEPT !.entries = Append(group.entries, Item(c, kind, start, <<>>, 0))]
         [] kind \in {"tool", "summary"} ->
              [NoGroup EXCEPT !.entries = Append(group.entries, Item(c, kind, c, <<>>, 0))]
         [] OTHER -> group
ItemsOf(cursors) == FoldLeft(Extends, NoGroup, cursors).entries

-----------------------------------------------------------------------------
(* The session and the walk *)

TurnAppends ==
    /\ appended < Len(transcript) /\ appended' = appended + 1
    /\ UNCHANGED <<transcript, rewound, walk, window, since, pages, legacy, imported>>
\* session.rewind, when no run is live and something is beyond its cursor: every run is
\* superseded, the items up to the cursor copied into a run of its own, which has ended.
Copies(cursor) == LET kept == SelectSeq([c \in 1..cursor |-> c], LAMBDA c : Logged(c).kind \in ItemKinds)
                  IN [i \in DOMAIN kept |-> [kind |-> Logged(kept[i]).kind, run |-> 0]]
Supersedes ==
    /\ appended > 0 /\ Logged(appended).kind \in Ends /\ rewound = {}
    /\ rewound' = {Logged(c).run : c \in 1..appended}
    /\ \E cursor \in Cuts \cap 0..(appended - 1) :
          LET made == <<[kind |-> "started", run |-> 0]>> \o Copies(cursor) \o <<[kind |-> "completed", run |-> 0]>>
          IN /\ transcript' = SubSeq(transcript, 1, appended) \o made \o SubSeq(transcript, appended + 1, Len(transcript))
             /\ appended' = appended + Len(made)
    /\ UNCHANGED <<walk, window, since, pages, legacy, imported>>

Walking(at, before) == [walk EXCEPT !.at = at, !.before = before, !.cursor = before]
WalkBegins ==
    /\ walk.at = "idle" /\ transcript # <<>>
    /\ \E size \in PageSizes :
          walk' = [at |-> "reads", size |-> size, before |-> 0, cursor |-> 0, exhausted |-> FALSE]
    /\ since' = appended
    /\ UNCHANGED <<transcript, appended, rewound, window, pages, legacy, imported>>

\* Mutant: also at an item whose deltas are older.
AtNoDelta(c) == Logged(c).kind \notin {"reasoning", "content", "usage"}
\* A page begins at an event that neither is a delta nor may have deltas before it.
AtBoundary(c) == Logged(c).kind \notin {"reasoning", "content", "usage", "assistant"}
ReadsChunk ==
    /\ walk.at = "reads"
    /\ LET chunk == LastOf(walk.size + 1, Visible(walk.cursor))
           exhausted == Len(chunk) <= walk.size
       IN /\ window' = chunk \o window
          /\ walk' = [walk EXCEPT
                !.cursor = IF chunk = <<>> THEN @ ELSE Head(chunk), !.exhausted = exhausted,
                !.at = IF exhausted \/ AtBoundary(Head(chunk)) THEN "page"
                       ELSE IF Len(window') >= ScanLimit THEN "failed" ELSE "reads"]
    /\ UNCHANGED <<transcript, appended, rewound, since, pages, legacy, imported>>

\* bounded_history keeps the newest items up to the limit and to what fits a frame; there is
\* more when older events are, or items were left out; the next page ends before the oldest
\* item's group.
SizeOf(entry) == IF entry.role = "tool" THEN 2 ELSE 1
Fits(entries) == FoldLeft(LAMBDA sum, entry : sum + SizeOf(entry), 0, entries) <= FrameRoom
Fitting(entries) ==
    LET kept == {n \in 0..Len(entries) : Fits(LastOf(n, entries))}
    IN LastOf(CHOOSE n \in kept : \A m \in kept : m <= n, entries)
GivesPage ==
    /\ walk.at = "page"
    /\ LET entries == ItemsOf(window)
           retained == Fitting(LastOf(walk.size, entries))
           more == ~walk.exhausted \/ Len(retained) < Len(entries)
       IN IF retained = <<>> /\ entries # <<>>
          THEN walk' = Walking("failed", 0) /\ UNCHANGED pages
          ELSE /\ pages' = retained \o pages
               /\ walk' = IF ~more THEN Walking("ended", 0)
                          ELSE IF retained = <<>> THEN Walking("lost", 0)
                          ELSE Walking("reads", Head(retained).start)
    /\ window' = <<>>
    /\ UNCHANGED <<transcript, appended, rewound, since, legacy, imported>>

-----------------------------------------------------------------------------
(* A legacy transcript as events *)

LegacyRow(i) == legacy[i]
\* legacy_tool_calls: a call without an id is given one by its place.
CallsOf(i) == [k \in DOMAIN LegacyRow(i).calls |->
    LET call == LegacyRow(i).calls[k]
    IN [name |-> call.name, id |-> IF call.id = <<>> THEN <<"legacy", i, k>> ELSE call.id]]

\* match_pending_tool_call: by id, else the only one of that name, else the only one.
MatchByName(pending, id, name) ==
    LET named == {k \in DOMAIN pending : pending[k].name = name}
    IN IF Cardinality(named) = 1 THEN named ELSE IF Len(pending) = 1 THEN {1} ELSE {}
Match(pending, id, name) ==
    LET same == {k \in DOMAIN pending : id # <<>> /\ pending[k].id = id}
    IN IF same # {} THEN {CHOOSE k \in same : \A j \in same : k <= j}
       ELSE MatchByName(pending, id, name)

Answer(id, row) == [kind |-> "answer", id |-> id, row |-> row]
Unanswered(pending) == [k \in DOMAIN pending |-> Answer(pending[k].id, 0)]
\* flush_unanswered_tool_calls fails the calls that no row answers.
Flushed(made) == [events |-> made.events \o Unanswered(made.pending), pending |-> <<>>]

Converts(made, i) ==
    LET row == LegacyRow(i)
        match == Match(made.pending, row.id, row.name)
    IN CASE row.role = "assistant" ->
              [events |-> Append(Flushed(made).events, [kind |-> "assistant", calls |-> CallsOf(i), row |-> i]),
               pending |-> CallsOf(i)]
         [] row.role = "tool" ->
              [events |-> Append(made.events,
                  Answer(IF match # {} THEN made.pending[CHOOSE k \in match : TRUE].id
                         ELSE IF row.id # <<>> THEN row.id ELSE <<"tool", i>>, i)),
               pending |-> IF match = {} THEN made.pending ELSE RemoveAt(made.pending, CHOOSE k \in match : TRUE)]
         [] row.role = "user" -> [Flushed(made) EXCEPT !.events = Append(@, [kind |-> "user", row |-> i])]
         [] OTHER -> Flushed(made)

\* trim_orphan_tool_rows: the window does not start with results.
FirstKept == CHOOSE i \in 1..(Len(legacy) + 1) :
    /\ i = Len(legacy) + 1 \/ LegacyRow(i).role # "tool"
    /\ \A j \in 1..(i - 1) : LegacyRow(j).role = "tool"
Imports ==
    /\ legacy # <<>> /\ imported = <<>>
    /\ LET kept == [i \in 1..(Len(legacy) - FirstKept + 1) |-> FirstKept + i - 1]
           made == FoldLeft(Converts, [events |-> <<>>, pending |-> <<>>], kept)
       IN imported' = Append(Flushed(made).events, [kind |-> "completed"])
    /\ UNCHANGED <<transcript, appended, rewound, walk, window, since, pages, legacy>>

-----------------------------------------------------------------------------
PagesInit ==
    /\ transcript \in Transcripts \cup {<<>>} /\ appended = 0 /\ rewound = {}
    /\ walk = [at |-> "idle", size |-> 1, before |-> 0, cursor |-> 0, exhausted |-> FALSE]
    /\ window = <<>> /\ since = 0 /\ pages = <<>> /\ imported = <<>>
    /\ IF transcript = <<>> THEN legacy \in LegacyRows ELSE legacy = <<>>
PagesNext == TurnAppends \/ Supersedes \/ WalkBegins \/ ReadsChunk \/ GivesPage \/ Imports

-----------------------------------------------------------------------------
(* Properties *)

\* An item that is nothing but the note of a run's end.
IsNote(entry) == Logged(entry.cursor).kind \in Ends
Plain(entry) == [entry EXCEPT !.marked = FALSE, !.start = 0]

\* A walk gives no item twice and none out of order, and one that comes to the oldest page gave
\* every item there was when it began, with all its reasoning and its usage, wherever pages and
\* chunks were cut, while turns went on appending.  (A rewind in between leaves it short: what
\* it would still have read is superseded.)
PagesTellAll ==
    /\ \A i, j \in DOMAIN pages : i < j => pages[i].cursor < pages[j].cursor
    /\ walk.at = "ended" =>
          LET there == SelectSeq([c \in 1..since |-> c], LAMBDA c : Logged(c).run \notin rewound)
          IN \A entry \in ToSet(ItemsOf(there)) :
                IsNote(entry) \/ Plain(entry) \in {Plain(pages[i]) : i \in DOMAIN pages}

\* Every call of an imported assistant message has an answer of its own before the next message
\* (providers refuse any other history), whatever rows are missing, mixed up or without ids.
AnswersAfter(m) == {i \in DOMAIN imported : i > m /\ imported[i].kind = "answer"
    /\ \A j \in (m + 1)..(i - 1) : imported[j].kind = "answer"}
CallsOfId(m, id) == {k \in DOMAIN imported[m].calls : imported[m].calls[k].id = id}
CallsAreAnswered ==
    \A m \in DOMAIN imported : imported[m].kind = "assistant" =>
        \A k \in DOMAIN imported[m].calls : LET id == imported[m].calls[k].id IN
            Cardinality({i \in AnswersAfter(m) : imported[i].id = id}) >= Cardinality(CallsOfId(m, id))
PagesHold == PagesTellAll /\ CallsAreAnswered

\* (Not so.)  Only the oldest page leaves its reader without a cursor: a page of a log's live
\* end may have no item, and then neither.
OnlyOldestHasNoCursor == walk.at # "lost"
\* (Not so.)  Why a run failed is told once a walk is complete: the note goes onto an item that
\* the page then leaves out.
NotesAreTold == walk.at = "ended" =>
    \A c \in 1..since : Logged(c).kind = "failed" /\ Logged(c).run \notin rewound =>
        \E i \in DOMAIN pages : pages[i].run = Logged(c).run /\ pages[i].marked
\* (Not so.)  The row that names a call is its answer: an earlier row without an id has taken it.
NamedRowAnswers ==
    \A m \in DOMAIN imported : imported[m].kind = "assistant" =>
        \A i \in AnswersAfter(m) : imported[i].row # 0 /\ CallsOfId(m, LegacyRow(imported[i].row).id) # {}
            => imported[i].id = LegacyRow(imported[i].row).id
================================================================================
