----------------------------- MODULE ProcessRuns ------------------------------
(* A tool call that runs a program (cool-agent tools.rs run_bounded_process), or   *)
(* the diagnostics a write is followed by (run_diagnostics): the launcher starts   *)
(* the program in a group of its own, its input is written, two tasks drain its    *)
(* pipes into a bounded head and tail, and the call waits for the end, for its     *)
(* timeout or for the turn's cancel, joins the two tasks and shapes what it shows. *)
(* The bytes of a stream are numbered from 1; -n stands for a marker that says n   *)
(* bytes are left out, and counts as one byte.                                     *)
EXTENDS Integers, Sequences, SequencesExt, FiniteSetsExt

CONSTANTS
    Programs,      \* [mode, launcher, network, input, out, keeps]: the calls that may be made
    PipeRoom,      \* bytes a pipe holds
    ChunkMax,      \* bytes one read returns at most
    HeadCap,       \* SPILL_FILE_MAX_BYTES less the tail: bytes of a capture's head
    TailCap,       \* SPILL_TAIL_BYTES: bytes of a capture's tail
    DiagnosticsCap,\* DIAGNOSTICS_LIMIT: bytes of a diagnostics capture, which has no tail
    MaxOutput,     \* max_output_bytes: what both streams may show together
    HeadShown,     \* SPILL_HEAD_BYTES
    MarkerRoom,    \* kept free for the marker of a view; no marker is longer
    PathLength     \* the spill path of a stream, which counts against the rest

ASSUME ProcessAssumption ==
    /\ {PipeRoom, ChunkMax, HeadCap, TailCap, DiagnosticsCap} \subseteq Nat
    /\ {MaxOutput, HeadShown, MarkerRoom, PathLength} \subseteq Nat
    /\ PipeRoom > 0 /\ ChunkMax > 0 /\ MarkerRoom > 0
    /\ \A p \in Programs : p.keeps \in BOOLEAN

VARIABLES program, phase, process, input, wrote, capture, cancelled, answer, output
processVars == <<program, phase, process, input, wrote, capture, cancelled, answer, output>>

Streams == {"stdout", "stderr"}
Empty == [head |-> << >>, tail |-> << >>, total |-> 0, joined |-> FALSE]
Nothing == [text |-> << >>, spilled |-> FALSE]

\* Only the fallback tool gives its program input: the arguments of the call.
HasInput == program.input > 0

ProcessInit ==
    /\ program \in Programs
    /\ phase = "spawn" /\ answer = "" /\ cancelled = FALSE
    /\ process = [alive |-> FALSE, kept |-> FALSE, code |-> "none"]
    /\ input = [left |-> program.input, pipe |-> 0, open |-> HasInput]
    /\ wrote = [s \in Streams |-> 0] /\ capture = [s \in Streams |-> Empty]
    /\ output = [s \in Streams |-> Nothing]

-----------------------------------------------------------------------------
(* The program and what it leaves behind *)

\* Who holds the writing end of the pipes.
Holds == process.alive \/ process.kept
ProgramWrites(s) ==
    /\ Holds /\ wrote[s] < program.out[s] /\ wrote[s] - capture[s].total < PipeRoom
    /\ wrote' = [wrote EXCEPT ![s] = @ + 1]
    /\ UNCHANGED <<program, phase, process, input, capture, cancelled, answer, output>>
TakesInput ==
    /\ process.alive /\ input.pipe > 0
    /\ input' = [input EXCEPT !.pipe = @ - 1]
    /\ UNCHANGED <<program, phase, process, wrote, capture, cancelled, answer, output>>
\* It may end at any moment, and may leave a process of its group behind that has its pipes.
Exits ==
    /\ process.alive
    /\ \E code \in {"success", "failure"} :
          process' = [alive |-> FALSE, kept |-> program.keeps, code |-> code]
    /\ UNCHANGED <<program, phase, input, wrote, capture, cancelled, answer, output>>
KeptLeaves ==
    /\ process.kept
    /\ process' = [process EXCEPT !.kept = FALSE]
    /\ UNCHANGED <<program, phase, input, wrote, capture, cancelled, answer, output>>
TurnCancels ==
    /\ ~cancelled /\ cancelled' = TRUE
    /\ UNCHANGED <<program, phase, process, input, wrote, capture, answer, output>>

-----------------------------------------------------------------------------
(* The launcher *)

\* A program is on the network only where policy allows it outright (process_net), and the
\* host's launcher cannot keep it off.
Net == IF program.network = "allow" THEN "full" ELSE "none"
HostLaunches == Net = "full"
\* A launcher that is disabled starts nothing, a job object is the host's launcher, the other
\* sandboxes keep the program off the network themselves (ProcessLauncher::spawn).
Launchable ==
    /\ program.launcher # "disabled"
    /\ program.launcher \in {"host", "jobobject"} => HostLaunches

Concludes(result) == phase' = "done" /\ answer' = result
Spawns ==
    /\ phase = "spawn"
    /\ IF Launchable
       THEN /\ phase' = IF HasInput THEN "feed" ELSE "wait"
            /\ process' = [process EXCEPT !.alive = TRUE]
            /\ UNCHANGED answer
       ELSE Concludes(IF program.mode = "tool" THEN "refused" ELSE "skipped") /\ UNCHANGED process
    /\ UNCHANGED <<program, input, wrote, capture, cancelled, output>>

-----------------------------------------------------------------------------
(* The call *)

\* The whole input is written before anything is drained, outside the timeout and the cancel.
Feeds ==
    /\ phase = "feed"
    /\ IF ~process.alive
       THEN Concludes("broken pipe") /\ UNCHANGED input
       ELSE /\ input.left > 0 => input.pipe < PipeRoom
            /\ phase' = IF input.left = 0 THEN "wait" ELSE "feed"
            /\ input' = IF input.left = 0 THEN [input EXCEPT !.open = FALSE]
                        ELSE [input EXCEPT !.left = @ - 1, !.pipe = @ + 1]
            /\ UNCHANGED answer
    /\ UNCHANGED <<program, process, wrote, capture, cancelled, output>>

HeadOf == IF program.mode = "tool" THEN HeadCap ELSE DiagnosticsCap
TailOf == IF program.mode = "tool" THEN TailCap ELSE 0
Numbers(from, to) == [i \in 1..(to - from + 1) |-> from + i - 1]
Ending(s, n) == SubSeq(s, Len(s) - n + 1, Len(s))
LastOf(s, n) == Ending(s, Min({n, Len(s)}))

\* One read of drain_stream: the head takes what it has room for, the tail its last bytes.
\* Mutant: the head takes the whole chunk it has room to begin.
Draining == phase \notin {"spawn", "feed"}
DrainsWhole(s, n) ==
    LET c == capture[s]
        chunk == Numbers(c.total + 1, c.total + n)
    IN  capture' = [capture EXCEPT ![s] =
            [@ EXCEPT !.head = IF Len(@) < HeadOf THEN @ \o chunk ELSE @,
                      !.tail = LastOf(@ \o chunk, TailOf), !.total = @ + n]]
Chunk(s, n) ==
    LET c == capture[s]
        chunk == Numbers(c.total + 1, c.total + n)
        room == HeadOf - Len(c.head)
    IN  capture' = [capture EXCEPT ![s] =
            [head |-> c.head \o SubSeq(chunk, 1, Min({n, room})), tail |-> LastOf(c.tail \o chunk, TailOf),
             total |-> c.total + n, joined |-> c.joined]]
Drains(s) ==
    /\ Draining /\ ~capture[s].joined
    /\ \E n \in 1..ChunkMax : n <= wrote[s] - capture[s].total /\ Chunk(s, n)
    /\ UNCHANGED <<program, phase, process, input, wrote, cancelled, answer, output>>
\* The end of the pipe: everything is read and nobody has its other end.
DrainEnds(s) ==
    /\ Draining /\ ~capture[s].joined /\ ~Holds /\ capture[s].total = wrote[s]
    /\ capture' = [capture EXCEPT ![s].joined = TRUE]
    /\ UNCHANGED <<program, phase, process, input, wrote, cancelled, answer, output>>

Waits(next, result) ==
    /\ phase' = next /\ answer' = result
    /\ UNCHANGED <<program, process, input, wrote, capture, cancelled, output>>
Reaps == phase = "wait" /\ ~process.alive /\ Waits("join", "")
ProcessTimesOut == phase = "wait" /\ Waits("kill", "timeout")
HearsCancel == phase = "wait" /\ cancelled /\ Waits("kill", "cancelled")
\* kill() ends the group and is waited for, then the call answers.
Kills ==
    /\ phase = "kill" /\ phase' = "done"
    /\ process' = [process EXCEPT !.alive = FALSE, !.kept = FALSE, !.code = "killed"]
    /\ UNCHANGED <<program, input, wrote, capture, cancelled, answer, output>>

\* The loop drops the call's future when the batch is cancelled: KillOnDrop kills the child.
Dropped ==
    /\ cancelled /\ phase \notin {"spawn", "done"} /\ Concludes("dropped")
    /\ process' = [process EXCEPT !.alive = FALSE]
    /\ UNCHANGED <<program, input, wrote, capture, cancelled, output>>

-----------------------------------------------------------------------------
(* What is shown *)

Cut(c) == Len(c.head) # c.total

\* StreamCapture::body.  Mutant: the whole tail follows the head.
BodyWithWholeTail(c) ==
    IF ~Cut(c) THEN c.head
    ELSE LET omitted == c.total - Len(c.head) - Len(c.tail)
         IN  c.head \o (IF omitted > 0 THEN <<-omitted>> ELSE << >>) \o c.tail
Body(c) ==
    IF ~Cut(c) THEN c.head
    ELSE LET beyond == Min({c.total - Len(c.head), Len(c.tail)})
             omitted == c.total - Len(c.head) - beyond
         IN  c.head \o (IF omitted > 0 THEN <<-omitted>> ELSE << >>) \o Ending(c.tail, beyond)

\* head_tail_view.
View(text, head, tail) ==
    IF Len(text) <= head + tail THEN text
    ELSE SubSeq(text, 1, head) \o <<-(Len(text) - head - tail)>> \o Ending(text, tail)

Less(a, b) == IF a > b THEN a - b ELSE 0
\* A stream that fits what is left is shown; one that does not is spilled to a file, and a
\* view of it is shown that leaves room for its marker.  Mutant: no room is kept.
ViewOfAll(text, room) ==
    LET tail == Min({TailCap, room \div 4})
    IN  IF room = 0 THEN << >> ELSE View(text, Min({HeadShown, room - tail}), tail)
ViewWithin(text, room) ==
    LET inner == Less(room, MarkerRoom)
        tail == Min({TailCap, inner \div 4})
    IN  IF inner = 0 THEN << >> ELSE View(text, Min({HeadShown, inner - tail}), tail)
Shape(text, room) ==
    IF Len(text) <= room THEN [text |-> text, spilled |-> FALSE, left |-> room - Len(text)]
    ELSE LET view == ViewWithin(text, room)
         IN  [text |-> view, spilled |-> TRUE, left |-> Less(Less(room, Len(view)), PathLength)]
Shown(shape) == [text |-> shape.text, spilled |-> shape.spilled]

\* Both tasks are joined, one after the other; the streams share the room.
Shapes ==
    /\ phase = "join" /\ \A s \in Streams : capture[s].joined
    /\ IF program.mode = "tool"
       THEN LET out == Shape(Body(capture["stdout"]), MaxOutput)
            IN  output' = [stdout |-> Shown(out), stderr |-> Shown(Shape(Body(capture["stderr"]), out.left))]
       ELSE \* the diagnostics are one text, cut at the limit
            LET text == Body(capture["stdout"]) \o Body(capture["stderr"])
                cut == Len(text) > DiagnosticsCap
            IN  output' = [output EXCEPT !["stdout"] =
                    [text |-> IF cut THEN SubSeq(text, 1, Less(DiagnosticsCap, 1)) \o <<-1>> ELSE text,
                     spilled |-> FALSE]]
    /\ Concludes(process.code)
    /\ UNCHANGED <<program, process, input, wrote, capture, cancelled>>

CallStep == Spawns \/ Feeds \/ Reaps \/ ProcessTimesOut \/ HearsCancel \/ Kills \/ Shapes
DrainStep(s) == Drains(s) \/ DrainEnds(s)
ProcessNext ==
    \/ CallStep \/ Dropped \/ TurnCancels
    \/ TakesInput \/ Exits \/ KeptLeaves
    \/ \E s \in Streams : ProgramWrites(s) \/ DrainStep(s)

ProcessSpec ==
    /\ ProcessInit /\ [][ProcessNext]_processVars
    /\ WF_processVars(CallStep) /\ \A s \in Streams : WF_processVars(DrainStep(s))

-----------------------------------------------------------------------------
(* Properties *)

Answered == phase = "done" /\ answer \in {"success", "failure"}
Marker(n) == IF n = 0 THEN << >> ELSE <<-n>>

\* What is captured of a stream is its beginning and its very end, each byte once and in
\* order, with a marker between them that counts what is left out, however the pipe was read
\* and wherever head and tail meet (drain_stream, StreamCapture::body).
CaptureIsTrue ==
    Answered => \A s \in Streams :
        LET n == capture[s].total
            first == Min({n, HeadOf})
            last == Min({n - first, TailOf})
        IN  /\ n = wrote[s]
            /\ Body(capture[s]) = Numbers(1, first) \o Marker(n - first - last) \o Numbers(n - last + 1, n)

\* The two streams together never take more than the call's output may, markers included,
\* and a stream that is not shown whole is in a file (run_bounded_process).
ShownWithinBudget ==
    Answered /\ program.mode = "tool" =>
        /\ Len(output["stdout"].text) + Len(output["stderr"].text) <= MaxOutput
        /\ \A s \in Streams : output[s].text # Body(capture[s]) => output[s].spilled

\* A call that ended without its program's own end leaves nothing running in its group; one
\* that was dropped leaves at most what the program left behind.
NothingRunsOn ==
    phase = "done" => /\ ~process.alive
                      /\ answer \in {"timeout", "cancelled"} => ~process.kept

\* A program that was started, needs no input and leaves nobody its pipes never holds up
\* its call, whatever it does: it ends, or the timeout ends it (run_bounded_process).
ProcessCallEnds == phase # "spawn" /\ ~HasInput /\ ~program.keeps ~> phase = "done"
\* Not so of every program: the input is written outside the timeout and the cancel, before
\* the output is drained, and after the program's end its pipes are awaited without either.
EveryCallEnds == <>(phase = "done")

\* What a tool call tells of the program it ran is what the program wrote, in no more room
\* than it has, and the program does not outlive the call (run_bounded_process).
ProcessHolds == CaptureIsTrue /\ ShownWithinBudget /\ NothingRunsOn
=============================================================================
