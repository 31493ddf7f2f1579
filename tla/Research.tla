------------------------------- MODULE Research -------------------------------
(***************************************************************************)
(* Deep research (cool-app-server research.rs, cool-store domains/         *)
(* research.rs): a pipeline of stages that owns one row of research_runs   *)
(* and one auxiliary run of a session, gathers its findings through one    *)
(* researcher subagent per question, a bounded number at a time, and is    *)
(* cancelled through the run (run.cancel) or through the row               *)
(* (research.cancel).  The subagents are those of module Subagents.        *)
(***************************************************************************)
EXTENDS Subagents

CONSTANT MaxConcurrent   \* MAX_CONCURRENT_SUBAGENTS

ASSUME ResearchAssumption == MaxConcurrent \in Nat \ {0}

VARIABLES
    research,    \* status of the research_runs row
    stage,       \* where the pipeline is
    outcome,     \* what the pipeline came to
    canonical,   \* the auxiliary run: none, running or its terminal
    question,    \* the gather task of each question
    registered,  \* ResearchExecutor.live holds the run's cancel sender
    revoking     \* a research.cancel has written and not yet signalled

pipelineVars == <<research, stage, outcome, canonical, question, registered, revoking>>
researchVars == <<subVars, pipelineVars>>

Working == {"decompose", "gather", "collect", "synthesize", "persist", "finishing"}
Stopped == parentStop \/ research = "cancelled"

ResearchInit ==
    /\ SubInit
    /\ research = "none" /\ stage = "none" /\ outcome = "none" /\ canonical = "none"
    /\ question = [s \in Subs |-> "idle"] /\ registered = FALSE /\ revoking = FALSE

-----------------------------------------------------------------------------
(* The pipeline *)

ResearchCreates ==
    /\ stage = "none" /\ research' = "running" /\ stage' = "created"
    /\ UNCHANGED <<subVars, outcome, canonical, question, registered, revoking>>

\* start_research_execution: the auxiliary run, the cancel channel, the task.
ResearchSpawns ==
    /\ stage = "created" /\ canonical' = "running" /\ registered' = TRUE /\ stage' = "decompose"
    /\ UNCHANGED <<subVars, research, outcome, question, revoking>>

\* A stage that succeeds checks for a cancellation before the next one starts.
PassTo(next) == stage' = IF Stopped THEN "cancelling" ELSE next

Decompose ==
    /\ stage = "decompose"
    /\ \/ stage' = "failing" /\ UNCHANGED question
       \/ PassTo("gather") /\ question' = [s \in Subs |-> "queued"]
    /\ UNCHANGED <<subVars, research, outcome, canonical, registered, revoking>>

\* A question holds its permit until its child's row has ended.
\* Mutant: the permit is given back once the child is launched.
PermitsLaunching == {s \in Subs : question[s] = "permitted"}
Permits == {s \in Subs : question[s] \in {"permitted", "waiting"}}

\* A question that gets a permit after the cancellation launches nothing.
QuestionStarts(s) ==
    /\ stage = "gather" /\ question[s] = "queued" /\ Cardinality(Permits) < MaxConcurrent
    /\ question' = [question EXCEPT ![s] = IF parentStop THEN "done" ELSE "permitted"]
    /\ UNCHANGED <<subVars, research, stage, outcome, canonical, registered, revoking>>
\* A launch that has begun is carried through, its task aborted or not.
QuestionLaunches(s) ==
    /\ question[s] = "permitted" \/ job[s] \in {"created", "recorded"}
    /\ LaunchStep(s)
    /\ UNCHANGED pipelineVars
QuestionWaits(s) ==
    /\ question[s] = "permitted" /\ AwaitBegins(s)
    /\ question' = [question EXCEPT ![s] = "waiting"]
    /\ UNCHANGED <<research, stage, outcome, canonical, registered, revoking>>
\* launch fails before it writes anything.
QuestionFails(s) ==
    /\ question[s] = "permitted" /\ job[s] = "none"
    /\ question' = [question EXCEPT ![s] = "done"]
    /\ UNCHANGED <<subVars, research, stage, outcome, canonical, registered, revoking>>
QuestionAwaits(s) ==
    /\ question[s] = "waiting" /\ AwaitStep(s) /\ UNCHANGED pipelineVars
QuestionEnds(s) ==
    /\ question[s] = "waiting" /\ waiter[s] = "answered"
    /\ question' = [question EXCEPT ![s] = "done"]
    /\ UNCHANGED <<subVars, research, stage, outcome, canonical, registered, revoking>>

\* The last question joined tells whether the gather was cancelled.
\* Mutant: a cancelled gather does not wait for its questions.
GatherEndsEarly ==
    /\ stage = "gather"
    /\ parentStop \/ \A s \in Subs : question[s] = "done"
    /\ stage' = IF parentStop THEN "cancelling" ELSE "collect"
    /\ UNCHANGED <<subVars, research, outcome, canonical, question, registered, revoking>>
GatherEnds ==
    /\ stage = "gather" /\ \A s \in Subs : question[s] = "done"
    /\ stage' = IF parentStop THEN "cancelling" ELSE "collect"
    /\ UNCHANGED <<subVars, research, outcome, canonical, question, registered, revoking>>

Collect ==
    /\ stage = "collect" /\ PassTo("synthesize")
    /\ UNCHANGED <<subVars, research, outcome, canonical, question, registered, revoking>>
Synthesize ==
    /\ stage = "synthesize" /\ (stage' = "failing" \/ PassTo("persist"))
    /\ UNCHANGED <<subVars, research, outcome, canonical, question, registered, revoking>>

\* The report is stored, then the row read once more; the channel is not.
Persist ==
    /\ stage = "persist" /\ stage' = IF research = "cancelled" THEN "cancelling" ELSE "finishing"
    /\ UNCHANGED <<subVars, research, outcome, canonical, question, registered, revoking>>

\* finish_research_run writes over whatever the row says, when the pipeline
\* completes as when it fails; cancel_research_run leaves an ended row alone.
ResearchFinishes ==
    /\ stage \in {"finishing", "failing"}
    /\ outcome' = IF stage = "finishing" THEN "completed" ELSE "failed"
    /\ research' = outcome' /\ stage' = "reporting"
    /\ UNCHANGED <<subVars, canonical, question, registered, revoking>>
ResearchCancels ==
    /\ stage = "cancelling"
    /\ research' = IF research = "running" THEN "cancelled" ELSE research
    /\ outcome' = "cancelled" /\ stage' = "reporting"
    /\ UNCHANGED <<subVars, canonical, question, registered, revoking>>

\* finish_canonical, and the guard that unregisters the channel.
ResearchReports ==
    /\ stage = "reporting" /\ canonical' = outcome /\ registered' = FALSE /\ stage' = "ended"
    /\ UNCHANGED <<subVars, research, outcome, question, revoking>>

\* The guard fails a row left running, the spawner ends the auxiliary run, and
\* the gather's tasks are aborted with their set.
ResearchPanics ==
    /\ stage \in Working \ {"finishing"}
    /\ research' = IF research = "running" THEN "failed" ELSE research
    /\ canonical' = "failed" /\ registered' = FALSE /\ stage' = "panicked"
    /\ question' = [s \in Subs |-> "aborted"]
    /\ UNCHANGED <<subVars, outcome, revoking>>

-----------------------------------------------------------------------------
(* Cancelling *)

RunCancel == stage \notin {"none", "created", "ended", "panicked"} /\ StopParent /\ UNCHANGED pipelineVars

\* research.cancel: the row, which must be running, then the live channel.
RevokeWrites ==
    /\ research = "running" /\ research' = "cancelled" /\ revoking' = TRUE
    /\ UNCHANGED <<subVars, stage, outcome, canonical, question, registered>>
RevokeSignals ==
    /\ revoking /\ revoking' = FALSE
    /\ parentStop' = (parentStop \/ registered)
    /\ UNCHANGED <<plan, subRecords, live, stopSent, job, ending, subTree, subSteers, cancelling,
                   waiter, research, stage, outcome, canonical, question, registered>>

-----------------------------------------------------------------------------
PipelineStep ==
    \/ ResearchCreates \/ ResearchSpawns \/ Decompose \/ GatherEnds \/ Collect \/ Synthesize
    \/ Persist \/ ResearchFinishes \/ ResearchCancels \/ ResearchReports \/ ResearchPanics
QuestionStep(s) ==
    \/ QuestionStarts(s) \/ QuestionLaunches(s) \/ QuestionWaits(s) \/ QuestionFails(s)
    \/ QuestionAwaits(s) \/ QuestionEnds(s)

ResearchNext ==
    /\ plan.by = "research"
    /\ \/ PipelineStep \/ RunCancel \/ RevokeWrites \/ RevokeSignals
       \/ \E s \in Subs :
            \/ QuestionStep(s)
            \/ (JobStep(s) \/ CancelSignals(s) \/ CancelWrites(s)) /\ UNCHANGED pipelineVars

ResearchSpec == ResearchInit /\ [][ResearchNext]_researchVars

-----------------------------------------------------------------------------
(* Properties *)

ResearchTypeOK ==
    /\ SubTypeOK
    /\ research \in SubEnded \cup {"none", "running"}
    /\ stage \in Working \cup {"none", "created", "failing", "cancelling", "reporting", "ended",
                               "panicked"}
    /\ outcome \in SubEnded \cup {"none"} /\ canonical \in SubEnded \cup {"none", "running"}
    /\ question \in [Subs -> {"idle", "queued", "permitted", "waiting", "done", "aborted"}]
    /\ {registered, revoking} \subseteq BOOLEAN

OpenChildren == {s \in Subs : subRow[s] \in {"queued", "running"}}

\* A pipeline has at most MaxConcurrent children open, and leaves none open when it
\* ends, cancelled in the middle of the gather or not.
ChildrenBounded ==
    /\ stage # "panicked" => Cardinality(OpenChildren) <= MaxConcurrent
    /\ stage \in {"reporting", "ended"} => OpenChildren = {}

\* A research run that was cancelled stays cancelled.  (research.rs: "A concurrent
\* `research.cancel` wins over this completion.")
CancelledResearchStays == [][research = "cancelled" => research' = "cancelled"]_researchVars
=============================================================================
