----------------------------- MODULE PlanExecution -----------------------------
(***************************************************************************)
(* A stored plan and the runs that execute it: plans.update, plans.approve *)
(* and plans.cancel on the rows (cool-store domains/plans.rs, legacy       *)
(* memory.rs), plans.execute, which opens a durable run and spawns the     *)
(* step loop, and that loop with its steps, its delegated children and its *)
(* ending (start_plan_execution, run_plan, execute_plan_step_via_subagent  *)
(* and finish_plan of cool-app-server lib.rs).                             *)
(***************************************************************************)
EXTENDS Integers, Sequences, SequencesExt, FiniteSets, FiniteSetsExt

CONSTANTS
    StepCount,       \* steps of the plan; their positions are 1..StepCount
    Executions,      \* plans.execute commands, each with a key of its own
    Graphs,          \* depends_on of the steps
    Delegations,     \* which steps have a delegate_role
    MaxClientCalls,  \* bound: plans.update, approve, cancel and run.cancel commands
    MaxPlanCrashes   \* bound: crashes of the server

Positions == 1..StepCount
ASSUME PlanAssumption ==
    /\ StepCount \in Nat /\ IsFiniteSet(Executions)
    /\ Graphs \subseteq [Positions -> SUBSET Int] /\ Delegations \subseteq SUBSET Positions
    /\ MaxClientCalls \in Nat /\ MaxPlanCrashes \in Nat

VARIABLES
    depends, delegated,  \* the steps' data
    planStatus,          \* plans.status
    stepStatus,          \* plan_steps.status
    draftEdit,           \* plans.update has seen a draft and not yet written
    execution,           \* per execute command: its step, and the statuses it loaded
    planRun,             \* per execute command: its durable run
    told,                \* its run's cancel channel has a reason
    loop,                \* the step loop: step, position, what it knows
    child,               \* the subagent launched for a step, under the step's key
    clientCalls, planCrashes

planVars == <<depends, delegated, planStatus, stepStatus, draftEdit, execution, planRun, told,
              loop, child, clientCalls, planCrashes>>

PlanEnded == {"cancelled", "completed", "failed"}
Fresh == [p \in Positions |-> "pending"]
NoLoop == [at |-> "none", left |-> <<>>, known |-> Fresh, outcome |-> "completed", wrote |-> TRUE]

-----------------------------------------------------------------------------
(* The order of the steps *)

Known(p) == depends[p] \cap Positions

\* topological_order: the least step whose dependencies are out, while there is one; the
\* steps of cycles follow in their order.
Ready(done) == {p \in Positions \ ToSet(done) : Known(p) \subseteq ToSet(done)}
Take(done) == IF Ready(done) = {} THEN done ELSE Append(done, Min(Ready(done)))
TakenBy[n \in 0..StepCount] == IF n = 0 THEN <<>> ELSE Take(TakenBy[n - 1])
Sorted == TakenBy[StepCount]
Remaining == Positions \ ToSet(Sorted)
\* Mutant: the positions alone decide.
OrderByPosition == [p \in Positions |-> p]
Order ==
    Sorted \o [i \in 1..Cardinality(Remaining) |->
                  CHOOSE p \in Remaining : Cardinality({q \in Remaining : q < p}) = i - 1]

\* dependencies_met: a dependency that is no step of the plan does not count.
DependenciesMet(p, known) == \A d \in Known(p) : known[d] \in {"completed", "skipped"}

-----------------------------------------------------------------------------
(* Commands on the rows *)

\* plans.update checks the status on a read of its own, then replaces the steps in a
\* transaction; the model's edits leave positions and dependencies as they are.
UpdateReads ==
    /\ planStatus = "draft" /\ ~draftEdit /\ clientCalls < MaxClientCalls
    /\ draftEdit' = TRUE /\ clientCalls' = clientCalls + 1
    /\ UNCHANGED <<depends, delegated, planStatus, stepStatus, execution, planRun, told, loop,
                   child, planCrashes>>
UpdateWrites ==
    /\ draftEdit /\ draftEdit' = FALSE /\ stepStatus' = Fresh
    /\ UNCHANGED <<depends, delegated, planStatus, execution, planRun, told, loop, child,
                   clientCalls, planCrashes>>

\* plans.approve with either answer, and plans.cancel: set_plan_status, whatever it was.
SetStatus(status) ==
    /\ clientCalls < MaxClientCalls /\ clientCalls' = clientCalls + 1
    /\ planStatus' = status
    /\ UNCHANGED <<depends, delegated, stepStatus, draftEdit, execution, planRun, told, loop,
                   child, planCrashes>>
Approves == SetStatus("approved")
CancelsPlan == SetStatus("cancelled")

\* run.cancel: accept_cancel ends the durable run, then the loop's channel is told, if
\* the run is registered.
CancelsRun(k) ==
    /\ planRun[k] = "live" /\ clientCalls < MaxClientCalls /\ clientCalls' = clientCalls + 1
    /\ planRun' = [planRun EXCEPT ![k] = "cancelled"]
    /\ told' = [told EXCEPT ![k] = loop[k].at \notin {"none", "done"}]
    /\ UNCHANGED <<depends, delegated, planStatus, stepStatus, draftEdit, execution, loop, child,
                   planCrashes>>

-----------------------------------------------------------------------------
(* plans.execute *)

\* The replay check, the status check and the steps are reads of their own.
ExecuteReads(k) ==
    /\ execution[k].at = "idle" /\ planRun[k] = "none" /\ planStatus = "approved"
    /\ execution' = [execution EXCEPT ![k] = [at |-> "read", loaded |-> stepStatus]]
    /\ UNCHANGED <<depends, delegated, planStatus, stepStatus, draftEdit, planRun, told, loop,
                   child, clientCalls, planCrashes>>

\* start_run, refused while the session has an active run.
ExecuteOpens(k) ==
    /\ execution[k].at = "read"
    /\ IF \E j \in Executions : planRun[j] = "live"
       THEN execution' = [execution EXCEPT ![k].at = "idle"] /\ UNCHANGED planRun
       ELSE execution' = [execution EXCEPT ![k].at = "opened"]
            /\ planRun' = [planRun EXCEPT ![k] = "live"]
    /\ UNCHANGED <<depends, delegated, planStatus, stepStatus, draftEdit, told, loop, child,
                   clientCalls, planCrashes>>

\* The plan is executing before the loop is spawned; the run is registered with it.
ExecuteMarks(k) ==
    /\ execution[k].at = "opened"
    /\ planStatus' = "executing" /\ execution' = [execution EXCEPT ![k].at = "marked"]
    /\ UNCHANGED <<depends, delegated, stepStatus, draftEdit, planRun, told, loop, child,
                   clientCalls, planCrashes>>
ExecuteSpawns(k) ==
    /\ execution[k].at = "marked" /\ execution' = [execution EXCEPT ![k].at = "answered"]
    /\ loop' = [loop EXCEPT ![k] =
                   [NoLoop EXCEPT !.at = "step", !.left = Order, !.known = execution[k].loaded]]
    /\ UNCHANGED <<depends, delegated, planStatus, stepStatus, draftEdit, planRun, told, child,
                   clientCalls, planCrashes>>

\* The working directory is gone: the plan fails before its first step.
NoWorkspace(k) ==
    /\ execution[k].at = "marked" /\ execution' = [execution EXCEPT ![k].at = "answered"]
    /\ loop' = [loop EXCEPT ![k] = [NoLoop EXCEPT !.at = "finish", !.outcome = "failed"]]
    /\ UNCHANGED <<depends, delegated, planStatus, stepStatus, draftEdit, planRun, told, child,
                   clientCalls, planCrashes>>

-----------------------------------------------------------------------------
(* run_plan *)

PlanIsCancelled == planStatus = "cancelled"
Stops(k) == told[k] \/ PlanIsCancelled
Current(k) == Head(loop[k].left)
Turns(k, o) == loop' = [loop EXCEPT ![k] = o]
Ends(k, outcome) == Turns(k, [loop[k] EXCEPT !.at = "finish", !.outcome = outcome])
Knows(k, status) == [loop[k].known EXCEPT ![Current(k)] = status]
Records(k, status) == stepStatus' = [stepStatus EXCEPT ![Current(k)] = status]
LoopFrame == <<depends, delegated, planStatus, draftEdit, execution, planRun, told,
               clientCalls, planCrashes>>

\* The boundary before a step, and the end of the plan.
LoopStops(k) ==
    /\ loop[k].at = "step" /\ (loop[k].left = <<>> \/ Stops(k))
    /\ Ends(k, IF loop[k].left = <<>> THEN "completed" ELSE "cancelled")
    /\ UNCHANGED <<LoopFrame, stepStatus, child>>
StepSkips(k) ==
    /\ loop[k].at = "step" /\ loop[k].left # <<>> /\ ~Stops(k)
    /\ ~DependenciesMet(Current(k), loop[k].known)
    /\ Records(k, "skipped")
    /\ Turns(k, [loop[k] EXCEPT !.left = Tail(@), !.known = Knows(k, "skipped")])
    /\ UNCHANGED <<LoopFrame, child>>
StepStarts(k) ==
    /\ loop[k].at = "step" /\ loop[k].left # <<>> /\ ~Stops(k)
    /\ DependenciesMet(Current(k), loop[k].known)
    /\ Records(k, "running")
    /\ Turns(k, [loop[k] EXCEPT !.at = IF Current(k) \in delegated THEN "launch" ELSE "direct",
                                !.known = Knows(k, "running")])
    /\ UNCHANGED <<LoopFrame, child>>

\* What follows a step: its record, or the plan's end.
StepSucceeds(k) ==
    /\ Records(k, "completed")
    /\ Turns(k, [loop[k] EXCEPT !.at = "step", !.left = Tail(@), !.known = Knows(k, "completed")])
StepFails(k) ==
    IF Stops(k) THEN Ends(k, "cancelled") /\ UNCHANGED stepStatus
    ELSE /\ Records(k, "failed")
         /\ Turns(k, [loop[k] EXCEPT !.at = "finish", !.outcome = "failed", !.known = Knows(k, "failed")])

\* A step of its own: a turn of the agent, which its channel may cancel.
DirectEnds(k) ==
    /\ loop[k].at = "direct" /\ (StepSucceeds(k) \/ StepFails(k))
    /\ UNCHANGED <<LoopFrame, child>>

\* A delegated step launches a child under the step's key: a second launch answers the
\* first one's child.
Launches(k) ==
    /\ loop[k].at = "launch"
    /\ \/ /\ child' = [child EXCEPT ![Current(k)] = IF @ = "none" THEN "running" ELSE @]
          /\ Turns(k, [loop[k] EXCEPT !.at = "child"]) /\ UNCHANGED stepStatus
       \/ StepFails(k) /\ UNCHANGED child
    /\ UNCHANGED LoopFrame

CancelChild(p) == child' = [child EXCEPT ![p] = IF @ = "running" THEN "cancelled" ELSE @]
\* Mutant: only the run's channel is watched while a child runs.
PollsToldOnly(k) ==
    /\ loop[k].at = "child"
    /\ \/ told[k] /\ CancelChild(Current(k)) /\ StepFails(k)
       \/ ~told[k] /\ child[Current(k)] = "completed" /\ StepSucceeds(k) /\ UNCHANGED child
       \/ ~told[k] /\ child[Current(k)] \in {"failed", "cancelled"} /\ StepFails(k) /\ UNCHANGED child
    /\ UNCHANGED LoopFrame
\* The wait for it, every 50 ms.
Polls(k) ==
    /\ loop[k].at = "child"
    /\ \/ Stops(k) /\ CancelChild(Current(k)) /\ StepFails(k)
       \/ ~Stops(k) /\ child[Current(k)] = "completed" /\ StepSucceeds(k) /\ UNCHANGED child
       \/ ~Stops(k) /\ child[Current(k)] \in {"failed", "cancelled"} /\ StepFails(k)
          /\ UNCHANGED child
    /\ UNCHANGED LoopFrame
\* The 900 s are over.
ChildTimesOut(k) ==
    /\ loop[k].at = "child" /\ child[Current(k)] = "running" /\ ~Stops(k)
    /\ CancelChild(Current(k)) /\ StepFails(k)
    /\ UNCHANGED LoopFrame

\* A child ends by itself, or another client cancels it.
ChildEnds(p) ==
    /\ child[p] = "running" /\ \E s \in PlanEnded : child' = [child EXCEPT ![p] = s]
    /\ UNCHANGED <<LoopFrame, stepStatus, loop>>

\* finish_plan reads the plan, writes its status unless it had ended, and records the end
\* of the run, which refuses it when it has ended.
FinishReads(k) ==
    /\ loop[k].at = "finish"
    /\ Turns(k, [loop[k] EXCEPT !.at = "write", !.wrote = planStatus \in PlanEnded,
                                !.outcome = IF planStatus \in PlanEnded THEN planStatus ELSE @])
    /\ UNCHANGED <<LoopFrame, stepStatus, child>>
FinishWrites(k) ==
    /\ loop[k].at = "write"
    /\ planStatus' = IF loop[k].wrote THEN planStatus ELSE loop[k].outcome
    /\ Turns(k, [loop[k] EXCEPT !.at = "record"])
    /\ UNCHANGED <<depends, delegated, stepStatus, draftEdit, execution, planRun, told, child,
                   clientCalls, planCrashes>>
FinishRecords(k) ==
    /\ loop[k].at = "record"
    /\ planRun' = [planRun EXCEPT ![k] = IF @ = "live" THEN loop[k].outcome ELSE @]
    /\ Turns(k, [loop[k] EXCEPT !.at = "done"])
    /\ UNCHANGED <<depends, delegated, planStatus, stepStatus, draftEdit, execution, told, child,
                   clientCalls, planCrashes>>

-----------------------------------------------------------------------------
\* The server dies and starts again: recovery ends the live runs, nothing looks at plans.
PlanCrash ==
    /\ planCrashes < MaxPlanCrashes /\ planCrashes' = planCrashes + 1
    /\ planRun' = [k \in Executions |-> IF planRun[k] = "live" THEN "failed" ELSE planRun[k]]
    /\ loop' = [k \in Executions |-> [loop[k] EXCEPT !.at = IF @ = "none" THEN @ ELSE "done"]]
    /\ execution' = [k \in Executions |->
                        [execution[k] EXCEPT !.at = IF @ = "idle" THEN @ ELSE "answered"]]
    /\ child' = [p \in Positions |-> IF child[p] = "running" THEN "failed" ELSE child[p]]
    /\ draftEdit' = FALSE
    /\ UNCHANGED <<depends, delegated, planStatus, stepStatus, told, clientCalls>>

PlanInit ==
    /\ depends \in Graphs /\ delegated \in Delegations
    /\ planStatus = "draft" /\ stepStatus = Fresh /\ draftEdit = FALSE
    /\ execution = [k \in Executions |-> [at |-> "idle", loaded |-> Fresh]]
    /\ planRun = [k \in Executions |-> "none"] /\ told = [k \in Executions |-> FALSE]
    /\ loop = [k \in Executions |-> NoLoop] /\ child = [p \in Positions |-> "none"]
    /\ clientCalls = 0 /\ planCrashes = 0

LoopStep(k) ==
    \/ LoopStops(k) \/ StepSkips(k) \/ StepStarts(k) \/ DirectEnds(k) \/ Launches(k) \/ Polls(k)
    \/ FinishReads(k) \/ FinishWrites(k) \/ FinishRecords(k)

PlanNext ==
    \/ UpdateReads \/ UpdateWrites \/ Approves \/ CancelsPlan \/ PlanCrash
    \/ \E p \in Positions : ChildEnds(p)
    \/ \E k \in Executions : \/ CancelsRun(k) \/ ExecuteReads(k) \/ ExecuteOpens(k)
                             \/ ExecuteMarks(k) \/ ExecuteSpawns(k) \/ NoWorkspace(k)
                             \/ ChildTimesOut(k) \/ LoopStep(k)

\* The loop is a task of the server and its turns end: no step waits for a client, for a
\* child to end or for the 900 s.
PlanFairness == \A k \in Executions : WF_planVars(LoopStep(k))
PlanSpec == PlanInit /\ [][PlanNext]_planVars /\ PlanFairness

-----------------------------------------------------------------------------
\* Every row has a status of its vocabulary and the loop walks the plan's steps.
PlanTypeOK ==
    /\ planStatus \in {"draft", "approved", "executing"} \cup PlanEnded
    /\ stepStatus \in [Positions -> {"pending", "running", "completed", "failed", "skipped"}]
    /\ \A k \in Executions :
          /\ execution[k].at \in {"idle", "read", "opened", "marked", "answered"}
          /\ planRun[k] \in {"none", "live"} \cup PlanEnded
          /\ loop[k].at \in {"none", "step", "direct", "launch", "child", "finish", "write",
                             "record", "done"}
          /\ ToSet(loop[k].left) \subseteq Positions
    /\ child \in [Positions -> {"none", "running"} \cup PlanEnded]

\* What a step waits for: all that any set with its dependencies and theirs has in it.
WaitsFor(p) ==
    {q \in Positions : \A S \in SUBSET Positions :
        Known(p) \subseteq S /\ (\A r \in S : Known(r) \subseteq S) => q \in S}
OnCycle(p) == p \in WaitsFor(p)
\* topological_order and dependencies_met agree: a step is skipped only when it is on a
\* cycle of dependencies or waits for one, since a failed step ends the plan (run_plan).
SkipsOnlyCycles ==
    \A p \in Positions : stepStatus[p] = "skipped" =>
        OnCycle(p) \/ \E q \in WaitsFor(p) : OnCycle(q)

\* A plan that stays cancelled has its loops stopped, also while a delegated child keeps
\* running: nothing but the cancellation is waited for (execute_plan_step_via_subagent).
Looping(k) == loop[k].at \notin {"none", "done"}
CancelStopsPlan ==
    \A k \in Executions : <>[]PlanIsCancelled => <>[]~Looping(k)

\* A cancelled plan is never given another ending by a loop's finalizer (finish_plan).
CancelledPlanStays ==
    [][\A k \in Executions : planStatus = "cancelled" /\ FinishWrites(k)
          => planStatus' = "cancelled"]_planVars

\* One execution of a plan at a time: marking the plan executing before the loop is
\* spawned is to refuse a second one (start_plan_execution).
OneLoop == Cardinality({k \in Executions : Looping(k)}) <= 1
================================================================================
