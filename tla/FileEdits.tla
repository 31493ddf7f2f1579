------------------------------ MODULE FileEdits -------------------------------
(* The file tools (cool-agent tools.rs): edit_file reads its file, applies anchor  *)
(* edits to what it read, writes a sibling and renames it over the file; write_file *)
(* opens, truncates and writes in place.  A call fails at any step, the process may *)
(* stop between two, and the calls of one batch interleave.  The diff an edit       *)
(* reports is Myers' (line_ops) cut into hunks (unified_diff).  A text is a sequence *)
(* of lines, an anchor one of whole lines.                                          *)
EXTENDS Integers, Sequences, SequencesExt, FiniteSetsExt

CONSTANTS
    EditCalls,     \* the calls of a batch
    EditBatches,       \* [files, wanted]: what is there, by path, and what the calls are
    Protected,     \* the paths policy commands manage
    NoText,        \* no such file
    MaxHops,       \* links followed (8); the system's own limit for write_file
    Context,       \* lines of context of a hunk (3)
    MaxDistance,   \* MAX_D: the longest edit script traced
    DiffLimit      \* lines of a diff before it is cut

ASSUME EditAssumption == {MaxHops, Context, MaxDistance, DiffLimit} \subseteq Nat

VARIABLES given, disk, temps, edit
editVars == <<given, disk, temps, edit>>

firstTree == given.files
wanted == given.wanted

-----------------------------------------------------------------------------
(* Anchor edits *)

MatchesAt(text, old, i) == i + Len(old) - 1 <= Len(text) /\ SubSeq(text, i, i + Len(old) - 1) = old
\* matches(): from the left, none overlaps the one before.  Where it searches on after i.
Occurrences(text, old) ==
    LET from[i \in 1..Len(text) + Len(old) + 1] ==
            IF i > Len(text) THEN << >>
            ELSE IF MatchesAt(text, old, i) THEN <<i>> \o from[i + Len(old)] ELSE from[i + 1]
    IN  from[1]

\* replace and replacen: the text with those occurrences replaced, the last one first.
Replaced(text, old, new, places) ==
    FoldRight(LAMBDA i, t : SubSeq(t, 1, i - 1) \o new \o SubSeq(t, i + Len(old), Len(t)), places, text)

EditError(code) == [error |-> code, text |-> << >>]
\* One edit of the list; a failed one ends it.  Mutant: of several matches the first is taken.
ApplyFirst(result, e) ==
    LET places == Occurrences(result.text, e.old)
    IN  CASE result.error # "" -> result
          [] e.old = << >> -> EditError("empty anchor")
          [] places = << >> -> EditError("not found")
          [] OTHER -> [error |-> "",
                       text |-> Replaced(result.text, e.old, e.new, IF e.all THEN places ELSE <<places[1]>>)]
ApplyEdit(result, e) ==
    LET places == Occurrences(result.text, e.old)
    IN  IF result.error # "" THEN result
        ELSE IF e.old = << >> THEN EditError("empty anchor")
        ELSE IF places = << >> THEN EditError("not found")
        ELSE IF Len(places) > 1 /\ ~e.all THEN EditError("not unique")
        ELSE [error |-> "", text |-> Replaced(result.text, e.old, e.new, places)]
Applied(before, edits, create) ==
    IF before # NoText THEN FoldLeft(ApplyEdit, [error |-> "", text |-> before], edits)
    ELSE IF ~create THEN EditError("file not found")
    ELSE IF Len(edits) # 1 \/ edits[1].old # << >> THEN EditError("invalid create")
    ELSE [error |-> "", text |-> edits[1].new]

-----------------------------------------------------------------------------
(* line_ops: the shortest edit script, as one of " ", "-", "+" per line    *)

\* Along diagonal k as far as the lines are equal.
Snake(a, b, x, k) ==
    LET y == x - k
        n == CHOOSE n \in 0..Len(a) :
                /\ \A i \in 1..n : x + i <= Len(a) /\ y + i <= Len(b) /\ a[x + i] = b[y + i]
                /\ ~(x + n < Len(a) /\ y + n < Len(b) /\ a[x + n + 1] = b[y + n + 1])
    IN  x + n

\* Down from the diagonal above where that reached further, right from the one below otherwise.
Down(v, d, k) == k = -d \/ (k # d /\ v[k - 1] < v[k + 1])

\* The furthest x of each diagonal after d steps; 0 where none has been.  The step
\* stops on the diagonal that reaches both ends.
Furthest(a, b) ==
    LET size == Len(a) + Len(b)
        Ks(d) == [i \in 1..(d + 1) |-> 2 * (i - 1) - d]
        Reaches(x, k) == x >= Len(a) /\ x - k >= Len(b)
        StepOn(acc, k) ==
            IF acc.reached THEN acc
            ELSE LET x == Snake(a, b, IF Down(acc.v, acc.d, k) THEN acc.v[k + 1] ELSE acc.v[k - 1] + 1, k)
                 IN  [acc EXCEPT !.v[k] = x, !.reached = Reaches(x, k)]
        after[d \in -1..size] ==
            IF d = -1 THEN [v |-> [k \in -(size + 1)..(size + 1) |-> 0], d |-> -1, reached |-> FALSE]
            ELSE IF after[d - 1].reached THEN after[d - 1]
            ELSE FoldLeft(StepOn, [after[d - 1] EXCEPT !.d = d], Ks(d))
    IN  after

\* Back along the traced steps from the end of both texts.
Backtrack(a, b, after, distance) ==
    LET Run(op, n) == [i \in 1..n |-> op]
        back[d \in 0..distance, x \in 0..Len(a), y \in 0..Len(b)] ==
            IF d = 0 THEN Run(" ", x)
            ELSE LET v == after[d - 1].v
                     k == x - y
                     prevK == IF Down(v, d, k) THEN k + 1 ELSE k - 1
                     prevX == v[prevK]
                     prevY == prevX - prevK
                     keeps == Min({x - prevX, y - prevY})
                     op == IF x - keeps = prevX THEN "+" ELSE "-"
                 IN  back[d - 1, prevX, prevY] \o <<op>> \o Run(" ", keeps)
    IN  back[distance, Len(a), Len(b)]

NoOps == <<"none">>
LineOps(a, b) ==
    LET after == Furthest(a, b)
        distance == after[Len(a) + Len(b)].d
    IN  IF distance > MaxDistance THEN NoOps ELSE Backtrack(a, b, after, distance)

-----------------------------------------------------------------------------
(* unified_diff: hunks of changes with their context                       *)

Take(ops, set) == [i \in 1..Len(ops) |-> Cardinality({j \in 1..i - 1 : ops[j] \in set})]
HunkHeader(oldStart, oldLen, newStart, newLen) ==
    [op |-> "@", old |-> <<oldStart, oldLen>>, new |-> <<newStart, newLen>>]
DiffLine(op, text) == [op |-> op, text |-> text]

\* Each change with its context around it; a change whose context meets the last hunk's
\* extends it.  Mutant: it extends it only if the change itself lies in it.
SpansOf(ops, context, touches(_, _)) ==
    LET Extend(spans, i) ==
            LET lo == IF i - context < 1 THEN 1 ELSE i - context
                hi == Min({i + context, Len(ops)})
            IN  IF ops[i] = " " THEN spans
                ELSE IF spans # << >> /\ touches(lo, spans[Len(spans)].hi)
                     THEN [spans EXCEPT ![Len(spans)].hi = IF @ > hi THEN @ ELSE hi]
                     ELSE Append(spans, [lo |-> lo, hi |-> hi])
    IN  FoldLeft(Extend, << >>, [i \in 1..Len(ops) |-> i])
SpansApart(ops) == SpansOf(ops, Context, LAMBDA lo, hi : lo + Context <= hi)
Spans(ops) == SpansOf(ops, Context, LAMBDA lo, hi : lo <= hi + 1)

\* The lines of one hunk under its header; an empty side names the line before it.
Hunk(a, b, ops, span) ==
    LET olds == Take(ops, {" ", "-"})
        news == Take(ops, {" ", "+"})
        inside == span.lo..span.hi
        oldLen == Cardinality({i \in inside : ops[i] \in {" ", "-"}})
        newLen == Cardinality({i \in inside : ops[i] \in {" ", "+"}})
        Start(before, len) == IF len = 0 THEN before ELSE before + 1
    IN  <<HunkHeader(Start(olds[span.lo], oldLen), oldLen, Start(news[span.lo], newLen), newLen)>>
        \o [n \in 1..(span.hi - span.lo + 1) |->
              LET i == span.lo + n - 1
              IN  DiffLine(ops[i], IF ops[i] = "+" THEN b[news[i] + 1] ELSE a[olds[i] + 1])]

\* A script too long to trace becomes one coarse hunk of all lines.
FullDiff(a, b) ==
    LET ops == LineOps(a, b)
        spans == Spans(ops)
    IN  IF a = b THEN << >>
        ELSE IF ops = NoOps
             THEN <<HunkHeader(1, Len(a), 1, Len(b))>>
                  \o [i \in 1..Len(a) |-> DiffLine("-", a[i])] \o [i \in 1..Len(b) |-> DiffLine("+", b[i])]
             ELSE FlattenSeq([i \in 1..Len(spans) |-> Hunk(a, b, ops, spans[i])])
\* The length is looked at after each line, never after a header.
UnifiedDiff(a, b) ==
    LET full == FullDiff(a, b)
        over == {i \in 1..Len(full) : i > DiffLimit /\ full[i].op # "@"}
    IN  IF over = {} THEN [lines |-> full, truncated |-> FALSE]
        ELSE [lines |-> SubSeq(full, 1, Min(over)), truncated |-> TRUE]

-----------------------------------------------------------------------------
(* The tools *)

TextFile(text) == [kind |-> "text", text |-> text]
Link(to) == [kind |-> "link", to |-> to]
NoFile == [kind |-> "absent"]
NotStarted == [at |-> "resolve", path |-> NoText, before |-> NoText, after |-> << >>, placed |-> FALSE,
               outcome |-> "", diff |-> [lines |-> << >>, truncated |-> FALSE]]

EditInit ==
    /\ given \in EditBatches /\ disk = given.files
    /\ temps = [c \in EditCalls |-> NoText]
    /\ edit = [c \in EditCalls |-> NotStarted]

\* Where a path leads after at most n links.
Follow(path, n) ==
    LET walk[k \in 0..n] == IF k = 0 THEN path
                            ELSE IF disk[walk[k - 1]].kind = "link" THEN disk[walk[k - 1]].to ELSE walk[k - 1]
    IN  walk[n]

Ended(c, outcome) == edit' = [edit EXCEPT ![c].at = "done", ![c].outcome = outcome]

\* reject_protected_write looks at the path as it is named, then at where it leads.  An edit
\* follows the links itself, since a rename would replace them.  Mutant: only the name is looked at.
WriteRefusedByName(c) == wanted[c].path \in Protected
WriteRefused(c) == wanted[c].path \in Protected \/ Follow(wanted[c].path, MaxHops) \in Protected
Resolves(c) ==
    LET target == Follow(wanted[c].path, MaxHops)
    IN  /\ edit[c].at = "resolve"
        /\ IF disk[target].kind = "link" THEN Ended(c, "too many links")
           ELSE IF WriteRefused(c) THEN Ended(c, "refused")
           ELSE edit' = [edit EXCEPT ![c].path = target,
                            ![c].at = IF wanted[c].tool = "edit" THEN "read" ELSE "open"]
        /\ UNCHANGED <<disk, temps, given>>

TextOf(path) == IF disk[path].kind = "text" THEN disk[path].text ELSE NoText
ReadsAndApplies(c) ==
    LET before == TextOf(edit[c].path)
        result == Applied(before, wanted[c].edits, wanted[c].create)
    IN  /\ edit[c].at = "read"
        /\ IF result.error # "" THEN Ended(c, result.error)
           ELSE edit' = [edit EXCEPT ![c].at = "temp", ![c].before = before, ![c].after = result.text]
        /\ UNCHANGED <<disk, temps, given>>

\* The sibling is opened, filled and renamed; a failure of any of these leads to its removal.
OpensTemp(c) ==
    /\ edit[c].at = "temp"
    /\ temps' = [temps EXCEPT ![c] = << >>] /\ edit' = [edit EXCEPT ![c].at = "fill"]
    /\ UNCHANGED <<disk, given>>
FillsTemp(c) ==
    /\ edit[c].at = "fill"
    /\ temps' = [temps EXCEPT ![c] = edit[c].after] /\ edit' = [edit EXCEPT ![c].at = "rename"]
    /\ UNCHANGED <<disk, given>>
Before(text) == IF text = NoText THEN << >> ELSE text
RenamesTemp(c) ==
    /\ edit[c].at = "rename"
    /\ disk' = [disk EXCEPT ![edit[c].path] = TextFile(temps[c])]
    /\ temps' = [temps EXCEPT ![c] = NoText]
    /\ edit' = [edit EXCEPT ![c].at = "done", ![c].placed = TRUE, ![c].outcome = "edited",
                            ![c].diff = UnifiedDiff(Before(edit[c].before), edit[c].after)]
    /\ UNCHANGED <<given>>
EditFails(c) ==
    /\ edit[c].at \in {"temp", "fill", "rename"}
    /\ \E n \in 0..Len(edit[c].after) :
          temps' = IF edit[c].at = "fill" THEN [temps EXCEPT ![c] = SubSeq(edit[c].after, 1, n)] ELSE temps
    /\ edit' = [edit EXCEPT ![c].at = "clean"]
    /\ UNCHANGED <<disk, given>>
\* Mutant: a failed edit leaves its sibling.
LeavesTemp(c) ==
    /\ edit[c].at = "clean" /\ Ended(c, "failed")
    /\ UNCHANGED <<disk, temps, given>>
CleansTemp(c) ==
    /\ edit[c].at = "clean" /\ Ended(c, "failed")
    /\ temps' = [temps EXCEPT ![c] = NoText]
    /\ UNCHANGED <<disk, given>>

\* write_file: opening truncates, unless it appends; then the content is written, all of it or a part.
OpensTarget(c) ==
    /\ edit[c].at = "open"
    /\ LET old == Before(TextOf(edit[c].path))
       IN  disk' = [disk EXCEPT ![edit[c].path] = TextFile(IF wanted[c].append THEN old ELSE << >>)]
    /\ edit' = [edit EXCEPT ![c].at = "write"]
    /\ UNCHANGED <<temps, given>>
WritesTarget(c) ==
    /\ edit[c].at = "write"
    /\ \E n \in 0..Len(wanted[c].text) :
          /\ disk' = [disk EXCEPT ![edit[c].path] =
                  TextFile((IF wanted[c].append THEN Before(TextOf(edit[c].path)) ELSE << >>)
                           \o SubSeq(wanted[c].text, 1, n))]
          /\ Ended(c, IF n = Len(wanted[c].text) THEN "written" ELSE "failed")
    /\ UNCHANGED <<temps, given>>

\* The process stops between two steps of any call.
Unfinished(c) == edit[c].at \notin {"done", "stopped"}
EditsStop ==
    /\ \E c \in EditCalls : Unfinished(c)
    /\ edit' = [c \in EditCalls |-> IF Unfinished(c) THEN [edit[c] EXCEPT !.at = "stopped"] ELSE edit[c]]
    /\ UNCHANGED <<disk, temps, given>>

EditNext ==
    \/ \E c \in EditCalls :
          \/ Resolves(c) \/ ReadsAndApplies(c)
          \/ OpensTemp(c) \/ FillsTemp(c) \/ RenamesTemp(c) \/ EditFails(c) \/ CleansTemp(c)
          \/ OpensTarget(c) \/ WritesTarget(c)
    \/ EditsStop

EditSpec == EditInit /\ [][EditNext]_editVars

-----------------------------------------------------------------------------
(* Properties *)

Edited == {c \in EditCalls : edit[c].placed}

\* A file only edits were made to is never there in part: it is what it was, or what one of
\* the edits that went through made of what that edit had read, whatever failed or
\* stopped; and edits that failed changed nothing (edit_file's sibling and rename).
EditsAreWhole ==
    \A p \in DOMAIN disk :
        (\A c \in EditCalls : wanted[c].tool = "write" => edit[c].path # p) =>
            \/ disk[p] = firstTree[p] /\ ~\E c \in Edited : edit[c].path = p
            \/ \E c \in Edited : edit[c].path = p /\ disk[p] = TextFile(edit[c].after)

\* Unless the process stopped, no call leaves its sibling behind.
NoSiblings == \A c \in EditCalls : edit[c].at = "done" => temps[c] = NoText

\* No tool writes what the policy commands manage, through however many links, and no
\* edit replaces a link by a file (reject_protected_write).
ProtectedStay ==
    \A p \in DOMAIN disk : p \in Protected \/ firstTree[p].kind = "link" => disk[p] = firstTree[p]

Longest(a, b) ==
    LET lcs[i \in 0..Len(a), j \in 0..Len(b)] ==
            IF i = 0 \/ j = 0 THEN 0
            ELSE IF a[i] = b[j] THEN lcs[i - 1, j - 1] + 1
            ELSE LET x == lcs[i - 1, j] y == lcs[i, j - 1] IN IF x > y THEN x ELSE y
    IN  lcs[Len(a), Len(b)]

\* What a reader makes of a diff: the lines of each hunk, put where its header says, each
\* line that goes or stays being the one that is there.
Patch(a, lines) ==
    LET Put(acc, l) ==
            IF ~acc.ok THEN acc
            ELSE IF l.op = "@"
            THEN LET from == IF l.old[2] = 0 THEN l.old[1] ELSE l.old[1] - 1
                     text == acc.text \o SubSeq(a, acc.at + 1, from)
                     to == IF l.new[2] = 0 THEN l.new[1] ELSE l.new[1] - 1
                 IN  [text |-> text, at |-> from, left |-> l.old[2] + l.new[2],
                      ok |-> acc.left = 0 /\ from >= acc.at /\ Len(text) = to]
            ELSE [text |-> IF l.op = "-" THEN acc.text ELSE Append(acc.text, l.text),
                  at |-> IF l.op = "+" THEN acc.at ELSE acc.at + 1,
                  left |-> acc.left - (IF l.op = " " THEN 2 ELSE 1),
                  ok |-> l.op # "+" => acc.at < Len(a) /\ a[acc.at + 1] = l.text]
        end == FoldLeft(Put, [text |-> << >>, at |-> 0, left |-> 0, ok |-> TRUE], lines)
    IN  [ok |-> end.ok /\ end.left = 0, text |-> end.text \o SubSeq(a, end.at + 1, Len(a))]

\* The diff an edit reports is what it did: applied to what the edit had read it gives what
\* the edit wrote, with no line moved that need not be, unless it says it was cut.
DiffIsTrue ==
    \A c \in Edited :
        LET a == Before(edit[c].before)
            b == edit[c].after
            lines == edit[c].diff.lines
            changed == Cardinality({i \in DOMAIN lines : lines[i].op \in {"+", "-"}})
            shortest == Len(a) + Len(b) - 2 * Longest(a, b)
        IN  ~edit[c].diff.truncated =>
                /\ Patch(a, lines) = [ok |-> TRUE, text |-> b]
                /\ shortest <= MaxDistance => changed = shortest

EditsHold == EditsAreWhole /\ NoSiblings /\ ProtectedStay /\ DiffIsTrue

\* Not so: two edits of one file in a batch read the same text, and the second rename takes
\* the first one's change away, although both report theirs as made.
BatchEditsAdd ==
    \A c, d \in Edited : c # d /\ edit[c].path = edit[d].path => edit[c].before # edit[d].before
\* Not so: occurrences are counted without overlaps, so an anchor that is found at two places
\* which share lines counts as unique.
AnchorsAreUnique ==
    \A c \in Edited : edit[c].before # NoText /\ ~wanted[c].edits[1].all =>
        Cardinality({i \in DOMAIN edit[c].before : MatchesAt(edit[c].before, wanted[c].edits[1].old, i)}) = 1
=============================================================================
