------------------------------ MODULE Subagents ------------------------------
(***************************************************************************)
(* Subagents (cool-app-server subagents.rs, cool-store domains/            *)
(* subagents.rs, the tools of cool-cli executor_tools.rs).  A launch       *)
(* writes the child's rows and spawns its execution; the parent awaits,    *)
(* collects, steers and cancels it meanwhile.  Three records tell how a    *)
(* child ended: its row of subagent_runs, its row of agent_runs, and the   *)
(* auxiliary run in the parent's session.  The child's agent loop is       *)
(* abstracted to what it edits, the steers it drains and how it ends.      *)
(***************************************************************************)
EXTENDS Naturals, Sequences, FiniteSets

CONSTANTS
    Subs,          \* children
    Sends,         \* send_to_subagent calls
    LaunchPlans,   \* how children may be launched
    MaxCancels     \* bound: children on which subagents.runs_cancel is called

LaunchPlanType == [by : {"tool", "research"}, isolated : BOOLEAN, linked : BOOLEAN]

ASSUME SubagentAssumption ==
    /\ IsFiniteSet(Subs) /\ IsFiniteSet(Sends) /\ LaunchPlans \subseteq LaunchPlanType
    /\ MaxCancels \in Nat

VARIABLES
    plan,         \* how the children of this behaviour are launched
    subRow,       \* status of the subagent_runs row
    childRun,     \* status of the child's agent_runs row
    lifecycle,    \* status of the auxiliary run in the parent's session
    live,         \* SubagentExecutor.live: children whose cancel sender is held
    stopSent,     \* children whose cancel channel holds a reason
    job,          \* where the launch and the execution of the child are
    ending,       \* the status its execution comes to
    checkout,     \* its worktree: none, clean or dirty
    branch,       \* what its branch cool/sub/{id} holds
    steers,       \* user messages appended to its conversation after the prompt
    cursor,       \* LegacyTranscriptSink.steer_cursor, as an index into steers
    delivered,    \* steers its model context has received
    sends,        \* the send_to_subagent calls
    cancelling,   \* the cancel call on the child: none, signalled or written
    waiter,       \* the await_terminal call on the child
    parentStop    \* the cancel channel of the parent's run holds a reason

subRecords == <<subRow, childRun, lifecycle>>
subTree == <<checkout, branch>>
subSteers == <<steers, cursor, delivered, sends>>
subCallers == <<cancelling, waiter, parentStop>>
subVars == <<plan, subRecords, live, stopSent, job, ending, subTree, subSteers, subCallers>>

SubEnded == {"completed", "failed", "cancelled"}
Executing == {"spawned", "preparing", "forking", "running", "committing", "finalizing",
              "finishing", "closing", "failing", "leaving"}

SubInit ==
    /\ plan \in LaunchPlans
    /\ subRow = [s \in Subs |-> "none"] /\ childRun = [s \in Subs |-> "none"]
    /\ lifecycle = [s \in Subs |-> "none"] /\ live = {} /\ stopSent = {}
    /\ job = [s \in Subs |-> "none"] /\ ending = [s \in Subs |-> "none"]
    /\ checkout = [s \in Subs |-> "none"] /\ branch = [s \in Subs |-> "none"]
    /\ steers = [s \in Subs |-> <<>>] /\ cursor = [s \in Subs |-> 0]
    /\ delivered = [s \in Subs |-> <<>>] /\ sends = [m \in Sends |-> [at |-> "none"]]
    /\ cancelling = [s \in Subs |-> "none"] /\ waiter = [s \in Subs |-> "idle"] /\ parentStop = FALSE

-----------------------------------------------------------------------------
(* Launching *)

\* The child's conversation, its agent_runs row and the prompt.
LaunchCreates(s) ==
    /\ job[s] = "none"
    /\ childRun' = [childRun EXCEPT ![s] = "queued"]
    /\ job' = [job EXCEPT ![s] = "created"]
    /\ UNCHANGED <<plan, subRow, lifecycle, live, stopSent, ending, subTree, subSteers,
                   subCallers>>

\* create_subagent_run: from here on other calls see the child.
LaunchRecords(s) ==
    /\ job[s] = "created"
    /\ subRow' = [subRow EXCEPT ![s] = "queued"]
    /\ job' = [job EXCEPT ![s] = "recorded"]
    /\ UNCHANGED <<plan, childRun, lifecycle, live, stopSent, ending, subTree, subSteers,
                   subCallers>>

LaunchSpawns(s) ==
    /\ job[s] = "recorded"
    /\ live' = live \cup {s} /\ job' = [job EXCEPT ![s] = "spawned"]
    /\ UNCHANGED <<plan, subRecords, stopSent, ending, subTree, subSteers, subCallers>>

-----------------------------------------------------------------------------
(* The execution *)

\* mark_subagent_run_running refuses a child that was cancelled before it started.
JobStarts(s) ==
    /\ job[s] = "spawned"
    /\ IF subRow[s] \in SubEnded
       THEN job' = [job EXCEPT ![s] = "leaving"] /\ UNCHANGED subRow
       ELSE job' = [job EXCEPT ![s] = "preparing"] /\ subRow' = [subRow EXCEPT ![s] = "running"]
    /\ UNCHANGED <<plan, childRun, lifecycle, live, stopSent, ending, subTree, subSteers,
                   subCallers>>

\* The launcher and the working directory; a worktree for an isolated child.
JobPrepares(s) ==
    /\ job[s] = "preparing"
    /\ job' = [job EXCEPT ![s] = "forking"]
    /\ checkout' = IF plan.isolated THEN [checkout EXCEPT ![s] = "clean"] ELSE checkout
    /\ branch' = IF plan.isolated THEN [branch EXCEPT ![s] = "empty"] ELSE branch
    /\ UNCHANGED <<plan, subRecords, live, stopSent, ending, subSteers, subCallers>>

\* The context is forked, the steer cursor set to the prompt, the lifecycle run
\* begun when the parent's conversation has a session.
\* Mutant: the cursor starts at the newest message.
JobBeginsLate(s) ==
    /\ job[s] = "forking"
    /\ job' = [job EXCEPT ![s] = "running"]
    /\ cursor' = [cursor EXCEPT ![s] = Len(steers[s])]
    /\ lifecycle' = IF plan.linked THEN [lifecycle EXCEPT ![s] = "running"] ELSE lifecycle
    /\ UNCHANGED <<plan, subRow, childRun, live, stopSent, ending, subTree, steers, delivered,
                   sends, subCallers>>
JobBegins(s) ==
    /\ job[s] = "forking"
    /\ job' = [job EXCEPT ![s] = "running"]
    /\ cursor' = [cursor EXCEPT ![s] = 0]
    /\ lifecycle' = IF plan.linked THEN [lifecycle EXCEPT ![s] = "running"] ELSE lifecycle
    /\ UNCHANGED <<plan, subRow, childRun, live, stopSent, ending, subTree, steers, delivered,
                   sends, subCallers>>

JobEdits(s) ==
    /\ job[s] = "running" /\ checkout[s] = "clean"
    /\ checkout' = [checkout EXCEPT ![s] = "dirty"]
    /\ UNCHANGED <<plan, subRecords, live, stopSent, job, ending, branch, subSteers, subCallers>>

\* drain_steers, before an iteration and once more before completing.
JobDrains(s) ==
    /\ job[s] = "running" /\ cursor[s] < Len(steers[s])
    /\ delivered' = [delivered EXCEPT ![s] =
                       @ \o SubSeq(steers[s], cursor[s] + 1, Len(steers[s]))]
    /\ cursor' = [cursor EXCEPT ![s] = Len(steers[s])]
    /\ UNCHANGED <<plan, subRecords, live, stopSent, job, ending, subTree, steers, sends,
                   subCallers>>

JobRunEnds(s, status) ==
    /\ job[s] = "running"
    /\ status = "completed" => cursor[s] = Len(steers[s])
    /\ status = "cancelled" => s \in stopSent
    /\ ending' = [ending EXCEPT ![s] = status]
    /\ job' = [job EXCEPT ![s] = "committing"]
    /\ UNCHANGED <<plan, subRecords, live, stopSent, subTree, subSteers, subCallers>>

\* commit_worktree_changes; the checkout is removed only when it came out clean,
\* which a failing git command never reports.
JobCommits(s) ==
    /\ job[s] = "committing"
    /\ job' = [job EXCEPT ![s] = "finalizing"]
    /\ \/ /\ checkout' = [checkout EXCEPT ![s] = "none"]
          /\ branch' = IF checkout[s] = "dirty" THEN [branch EXCEPT ![s] = "edited"] ELSE branch
       \/ UNCHANGED subTree
    /\ UNCHANGED <<plan, subRecords, live, stopSent, ending, subSteers, subCallers>>

\* finalize_subagent_run keeps an earlier end.
Finalized(s, status) == IF subRow[s] \in SubEnded THEN subRow[s] ELSE status

\* Mutant: the execution's own status counts, not the row's.
JobFinalizesOwn(s) ==
    /\ job[s] = "finalizing"
    /\ subRow' = [subRow EXCEPT ![s] = Finalized(s, ending[s])]
    /\ job' = [job EXCEPT ![s] = "finishing"]
    /\ UNCHANGED <<plan, childRun, lifecycle, live, stopSent, ending, subTree, subSteers,
                   subCallers>>
\* Mutant: the row is overwritten, as finish_subagent_run does.
JobFinalizesOver(s) ==
    /\ job[s] = "finalizing"
    /\ subRow' = [subRow EXCEPT ![s] = ending[s]]
    /\ job' = [job EXCEPT ![s] = "finishing"]
    /\ UNCHANGED <<plan, childRun, lifecycle, live, stopSent, ending, subTree, subSteers,
                   subCallers>>
JobFinalizes(s) ==
    /\ job[s] = "finalizing"
    /\ subRow' = [subRow EXCEPT ![s] = Finalized(s, ending[s])]
    /\ ending' = [ending EXCEPT ![s] = Finalized(s, ending[s])]
    /\ job' = [job EXCEPT ![s] = "finishing"]
    /\ UNCHANGED <<plan, childRun, lifecycle, live, stopSent, subTree, subSteers, subCallers>>

JobFinishes(s) ==
    /\ job[s] = "finishing"
    /\ childRun' = [childRun EXCEPT ![s] = ending[s]]
    /\ job' = [job EXCEPT ![s] = "closing"]
    /\ UNCHANGED <<plan, subRow, lifecycle, live, stopSent, ending, subTree, subSteers,
                   subCallers>>

JobCloses(s) ==
    /\ job[s] = "closing"
    /\ lifecycle' = IF lifecycle[s] = "running" THEN [lifecycle EXCEPT ![s] = ending[s]]
                    ELSE lifecycle
    /\ job' = [job EXCEPT ![s] = "leaving"]
    /\ UNCHANGED <<plan, subRow, childRun, live, stopSent, ending, subTree, subSteers,
                   subCallers>>

\* fail_run, in two transactions: an unusable launcher, directory or worktree.
JobSetupFails(s) ==
    /\ job[s] = "preparing"
    /\ subRow' = [subRow EXCEPT ![s] = Finalized(s, "failed")]
    /\ job' = [job EXCEPT ![s] = "failing"]
    /\ UNCHANGED <<plan, childRun, lifecycle, live, stopSent, ending, subTree, subSteers,
                   subCallers>>
JobFailsChild(s) ==
    /\ job[s] = "failing"
    /\ childRun' = [childRun EXCEPT ![s] = "failed"]
    /\ job' = [job EXCEPT ![s] = "leaving"]
    /\ UNCHANGED <<plan, subRow, lifecycle, live, stopSent, ending, subTree, subSteers,
                   subCallers>>

JobPanics(s) ==
    /\ job[s] \in {"preparing", "forking", "running", "committing"}
    /\ job' = [job EXCEPT ![s] = "leaving"]
    /\ UNCHANGED <<plan, subRecords, live, stopSent, ending, subTree, subSteers, subCallers>>

\* LiveGuard: a row the execution left open is failed.  Mutant: it stays open.
JobLeavesOpen(s) ==
    /\ job[s] = "leaving"
    /\ live' = live \ {s} /\ job' = [job EXCEPT ![s] = "gone"]
    /\ UNCHANGED <<plan, subRecords, stopSent, ending, subTree, subSteers, subCallers>>
JobLeaves(s) ==
    /\ job[s] = "leaving"
    /\ live' = live \ {s} /\ job' = [job EXCEPT ![s] = "gone"]
    /\ subRow' = [subRow EXCEPT ![s] = Finalized(s, "failed")]
    /\ UNCHANGED <<plan, childRun, lifecycle, stopSent, ending, subTree, subSteers, subCallers>>

-----------------------------------------------------------------------------
(* Cancelling and awaiting *)

CancelSignals(s) ==
    /\ subRow[s] # "none" /\ cancelling[s] = "none"
    /\ Cardinality({c \in Subs : cancelling[c] # "none"}) < MaxCancels
    /\ stopSent' = IF s \in live THEN stopSent \cup {s} ELSE stopSent
    /\ live' = live \ {s} /\ cancelling' = [cancelling EXCEPT ![s] = "signalled"]
    /\ UNCHANGED <<plan, subRecords, job, ending, subTree, subSteers, waiter, parentStop>>
CancelWrites(s) ==
    /\ cancelling[s] = "signalled"
    /\ subRow' = [subRow EXCEPT ![s] = Finalized(s, "cancelled")]
    /\ cancelling' = [cancelling EXCEPT ![s] = "written"]
    /\ UNCHANGED <<plan, childRun, lifecycle, live, stopSent, job, ending, subTree, subSteers,
                   waiter, parentStop>>

StopParent ==
    /\ ~parentStop /\ parentStop' = TRUE
    /\ UNCHANGED <<plan, subRecords, live, stopSent, job, ending, subTree, subSteers,
                   cancelling, waiter>>

\* await_terminal, for spawn_subagent, collect_subagent and the research gather.
AwaitBegins(s) ==
    /\ job[s] \in Executing \cup {"gone"} /\ waiter[s] = "idle"
    /\ waiter' = [waiter EXCEPT ![s] = "waiting"]
    /\ UNCHANGED <<plan, subRecords, live, stopSent, job, ending, subTree, subSteers,
                   cancelling, parentStop>>
\* Mutant: the signal alone is taken to end the child.
AwaitSignalsOnly(s) ==
    /\ waiter[s] = "waiting" /\ parentStop
    /\ stopSent' = IF s \in live THEN stopSent \cup {s} ELSE stopSent
    /\ waiter' = [waiter EXCEPT ![s] = "settling"]
    /\ UNCHANGED <<plan, subRecords, live, job, ending, subTree, subSteers, cancelling,
                   parentStop>>
AwaitSignals(s) ==
    /\ waiter[s] = "waiting" /\ parentStop
    /\ stopSent' = IF s \in live THEN stopSent \cup {s} ELSE stopSent
    /\ waiter' = [waiter EXCEPT ![s] = "signalled"]
    /\ UNCHANGED <<plan, subRecords, live, job, ending, subTree, subSteers, cancelling,
                   parentStop>>
AwaitCancels(s) ==
    /\ waiter[s] = "signalled"
    /\ subRow' = [subRow EXCEPT ![s] = Finalized(s, "cancelled")]
    /\ waiter' = [waiter EXCEPT ![s] = "settling"]
    /\ UNCHANGED <<plan, childRun, lifecycle, live, stopSent, job, ending, subTree, subSteers,
                   cancelling, parentStop>>
AwaitReads(s) ==
    /\ waiter[s] \in {"waiting", "settling"} /\ subRow[s] \in SubEnded
    /\ waiter' = [waiter EXCEPT ![s] = "answered"]
    /\ UNCHANGED <<plan, subRecords, live, stopSent, job, ending, subTree, subSteers,
                   cancelling, parentStop>>
\* collect_subagent gives up after its timeout and may be called again.
CollectTimesOut(s) ==
    /\ plan.by = "tool" /\ waiter[s] = "waiting"
    /\ waiter' = [waiter EXCEPT ![s] = "idle"]
    /\ UNCHANGED <<plan, subRecords, live, stopSent, job, ending, subTree, subSteers,
                   cancelling, parentStop>>

-----------------------------------------------------------------------------
(* send_to_subagent: check, append, check again *)

SendChecks(m, s) ==
    /\ sends[m].at = "none" /\ subRow[s] \in {"queued", "running"}
    /\ sends' = [sends EXCEPT ![m] = [at |-> "checked", to |-> s]]
    /\ UNCHANGED <<plan, subRecords, live, stopSent, job, ending, subTree, steers, cursor,
                   delivered, subCallers>>
SendAppends(m) ==
    /\ sends[m].at = "checked"
    /\ steers' = [steers EXCEPT ![sends[m].to] = Append(@, m)]
    /\ sends' = [sends EXCEPT ![m].at = "appended"]
    /\ UNCHANGED <<plan, subRecords, live, stopSent, job, ending, subTree, cursor, delivered,
                   subCallers>>
SendAnswers(m) ==
    /\ sends[m].at = "appended"
    /\ sends' = [sends EXCEPT ![m] =
                   [at |-> IF subRow[@.to] \in SubEnded THEN "queued_unseen" ELSE "steer",
                    to |-> @.to]]
    /\ UNCHANGED <<plan, subRecords, live, stopSent, job, ending, subTree, steers, cursor,
                   delivered, subCallers>>

-----------------------------------------------------------------------------
LaunchStep(s) == LaunchCreates(s) \/ LaunchRecords(s) \/ LaunchSpawns(s)
JobStep(s) ==
    \/ JobStarts(s) \/ JobPrepares(s) \/ JobBegins(s) \/ JobEdits(s) \/ JobDrains(s)
    \/ \E status \in SubEnded : JobRunEnds(s, status)
    \/ JobCommits(s) \/ JobFinalizes(s) \/ JobFinishes(s) \/ JobCloses(s)
    \/ JobSetupFails(s) \/ JobFailsChild(s) \/ JobPanics(s) \/ JobLeaves(s)
AwaitStep(s) == AwaitSignals(s) \/ AwaitCancels(s) \/ AwaitReads(s)
SendStep(m) == SendAppends(m) \/ SendAnswers(m) \/ \E s \in Subs : SendChecks(m, s)

\* The children of a tool's calls.
ToolNext ==
    /\ plan.by = "tool"
    /\ \/ \E s \in Subs : \/ LaunchStep(s) \/ AwaitBegins(s) \/ AwaitStep(s) \/ JobStep(s)
                          \/ CollectTimesOut(s) \/ CancelSignals(s) \/ CancelWrites(s)
       \/ \E m \in Sends : SendStep(m)
       \/ StopParent

ToolFairness == \A s \in Subs : WF_subVars(plan.by = "tool" /\ AwaitStep(s))

ToolSpec == SubInit /\ [][ToolNext]_subVars /\ ToolFairness

-----------------------------------------------------------------------------
(* Properties *)

SubTypeOK ==
    /\ plan \in LaunchPlanType
    /\ subRow \in [Subs -> SubEnded \cup {"none", "queued", "running"}]
    /\ childRun \in [Subs -> SubEnded \cup {"none", "queued"}]
    /\ lifecycle \in [Subs -> SubEnded \cup {"none", "running"}]
    /\ live \cup stopSent \subseteq Subs
    /\ cancelling \in [Subs -> {"none", "signalled", "written"}]
    /\ job \in [Subs -> Executing \cup {"none", "created", "recorded", "gone"}]
    /\ ending \in [Subs -> SubEnded \cup {"none"}]
    /\ checkout \in [Subs -> {"none", "clean", "dirty"}]
    /\ branch \in [Subs -> {"none", "empty", "edited"}]
    /\ steers \in [Subs -> Seq(Sends)] /\ delivered \in [Subs -> Seq(Sends)]
    /\ cursor \in [Subs -> Nat] /\ parentStop \in BOOLEAN
    /\ waiter \in [Subs -> {"idle", "waiting", "signalled", "settling", "answered"}]

\* Where the lifecycle run in the parent's session has ended, the three records
\* of a child tell the same story, whatever cancelled it meanwhile; and a child
\* whose execution is gone is not left queued or running.
OutcomesAgree ==
    \A s \in Subs :
        /\ lifecycle[s] \in SubEnded => subRow[s] = lifecycle[s] /\ childRun[s] = lifecycle[s]
        /\ job[s] = "gone" => subRow[s] \in SubEnded

\* An end a child's row has shown is never replaced: a cancellation delivered
\* while the execution finishes, or a completion a late cancel meets.
EndsStay == [][\A s \in Subs : subRow[s] \in SubEnded => subRow'[s] = subRow[s]]_subVars

\* A child that completes has received every steer appended by then, once and in
\* order, those sent while it was still queued included.
CompletedHeardAll ==
    [][\A s \in Subs : job[s] = "running" /\ job'[s] = "committing" /\ ending'[s] = "completed"
                         => delivered[s] = steers[s]]_subVars

\* A parent that is cancelled is not held up by the child it awaits, whatever the
\* child does.
CancelFreesParent ==
    \A s \in Subs : (plan.by = "tool" /\ parentStop /\ waiter[s] = "waiting")
                        ~> waiter[s] \in {"idle", "answered"}
=============================================================================
