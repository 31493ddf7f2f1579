--------------------------- MODULE ScheduledTasks ---------------------------
(***************************************************************************)
(* Scheduled tasks: the rows of scheduled_tasks and task_runs (cool-store  *)
(* domains/tasks.rs, one transaction per operation), the scheduler engine  *)
(* with its marks of tasks in flight (cool-store scheduler.rs), and the    *)
(* executor that ticks, starts runs, finishes them and serves tasks.run    *)
(* and tasks.runs_cancel (cool-app-server scheduler.rs, idempotency.rs).   *)
(* What a task does while it runs is left out: it ends in some way.        *)
(***************************************************************************)
EXTENDS Integers, Sequences, FiniteSets

CONSTANTS
    Tasks,
    TaskKeys,          \* idempotency keys of tasks.run requests
    TaskKinds,         \* the definitions a user may give a task
    FirstTasks,        \* the definitions the tasks may start with
    LastInstant,       \* bound: the clock stops there
    MaxTaskRuns,       \* bound: rows of task_runs
    MaxTaskEdits,      \* bound: user edits of tasks, and crashes together
    FailureCeiling,    \* SchedulerConfig.max_consecutive_failures
    MisfireGrace,      \* SchedulerConfig.misfire_grace_seconds
    Interval, RunAt, CronStep, QuietInstants

TaskKindType == [trigger : {"cron", "interval", "date"}, runLate : BOOLEAN,
                 quiet : BOOLEAN, zoneKnown : BOOLEAN]

ASSUME TaskAssumption ==
    /\ IsFiniteSet(Tasks) /\ IsFiniteSet(TaskKeys) /\ {"tick", "schedule"} \cap TaskKeys = {}
    /\ TaskKinds \subseteq {kind \in TaskKindType : kind.zoneKnown}
    /\ FirstTasks \subseteq [Tasks -> TaskKindType]
    /\ {LastInstant, MaxTaskRuns, MaxTaskEdits, FailureCeiling, MisfireGrace, RunAt}
         \subseteq Nat
    /\ {Interval, CronStep} \subseteq Nat \ {0} /\ QuietInstants \subseteq Nat

VARIABLES
    instant,      \* the wall clock
    task,         \* rows of scheduled_tasks
    taskRuns,     \* rows of task_runs, in id order
    taskMarks,    \* Scheduler.running
    liveRuns,     \* TaskExecutor.live: runs that can be signalled
    taskSignals,  \* runs whose cancel channel holds a reason
    taskJobs,     \* the spawned execution of each run
    starts,       \* the enqueue calls in progress, per caller
    tick,         \* the scheduling loop
    runRequests,  \* rust_idempotency rows of tasks.run
    cancels,      \* runs whose cancel has signalled and not yet written
    taskEdits     \* edits and crashes so far

taskVars == <<instant, task, taskRuns, taskMarks, liveRuns, taskSignals, taskJobs, starts,
              tick, runRequests, cancels, taskEdits>>
taskMemory == <<taskMarks, liveRuns, taskSignals, taskJobs, starts, tick, cancels>>

Never == -1
EndedTaskRun == {"completed", "failed", "cancelled", "skipped", "deleted"}
Callers == {"tick"} \cup TaskKeys
IdleStart == [at |-> "idle"]
IdleTick == [at |-> "idle"]

-----------------------------------------------------------------------------
(* Schedules *)

\* next_run: strictly later, and none once a one-shot task's time has passed.
NextRun(kind, after) ==
    CASE kind.trigger = "interval" -> after + Interval
      [] kind.trigger = "cron" -> (after \div CronStep + 1) * CronStep
      [] kind.trigger = "date" -> IF RunAt > after THEN RunAt ELSE Never

InQuietHours(kind, at) == kind.quiet /\ at \in QuietInstants

\* A task's kind is unreadable when its timezone is a name the core does not know.
QuietUnreadable(kind) == kind.quiet /\ ~kind.zoneKnown

NewDue(row, at) == IF row.enabled THEN NextRun(row.kind, at) ELSE Never

-----------------------------------------------------------------------------
TaskInit ==
    /\ instant = 0
    /\ \E kinds \in FirstTasks :
         task = [t \in Tasks |-> [exists |-> TRUE, enabled |-> TRUE, kind |-> kinds[t],
                                  due |-> NextRun(kinds[t], 0), failures |-> 0]]
    /\ taskRuns = <<>> /\ taskMarks = {} /\ liveRuns = {} /\ taskSignals = {}
    /\ taskJobs = <<>> /\ starts = [c \in Callers |-> IdleStart] /\ tick = IdleTick
    /\ runRequests = [k \in TaskKeys |-> "none"] /\ cancels = {} /\ taskEdits = 0

Elapse ==
    /\ instant < LastInstant /\ instant' = instant + 1
    /\ UNCHANGED <<task, taskRuns, taskMemory, runRequests, taskEdits>>

AddRun(t, status, source) ==
    taskRuns' = Append(taskRuns, [task |-> t, status |-> status, source |-> source])

-----------------------------------------------------------------------------
(* The scheduling loop *)

\* list_due_tasks, without the rows whose quiet hours cannot be interpreted:
\* recording those as skipped fails too, on the same timezone.
TickReads ==
    /\ tick.at = "idle"
    /\ LET due == {t \in Tasks : /\ task[t].exists /\ task[t].enabled
                                 /\ task[t].due # Never /\ task[t].due <= instant}
       IN  /\ due # {}
           /\ tick' = [at |-> "read", now |-> instant,
                       rows |-> [t \in {d \in due : ~QuietUnreadable(task[d].kind)} |-> task[t]]]
    /\ UNCHANGED <<instant, task, taskRuns, taskMarks, liveRuns, taskSignals, taskJobs,
                   starts, runRequests, cancels, taskEdits>>

\* Scheduler::plan's decision for one due row.
Decide(t, row, now) ==
    IF \/ InQuietHours(row.kind, now)
       \/ t \in taskMarks
       \/ ~row.kind.runLate /\ now - row.due > MisfireGrace
    THEN "skip" ELSE "execute"

TickPlans ==
    /\ tick.at = "read"
    /\ LET rows == tick.rows
           chosen == {t \in DOMAIN rows : Decide(t, rows[t], tick.now) = "execute"}
       IN  /\ tick' = [at |-> "acting", rows |-> rows, skip |-> DOMAIN rows \ chosen,
                       execute |-> chosen]
           /\ taskMarks' = taskMarks \cup chosen
    /\ UNCHANGED <<instant, task, taskRuns, liveRuns, taskSignals, taskJobs, starts,
                   runRequests, cancels, taskEdits>>

\* record_skipped_run: a row in the history, and the due time moves on.  It fails
\* when the task is gone or its next time cannot be computed.
\* Mutant: nothing is recorded; the next tick will see to the task.
SkipFireSilently(t) == task[t].exists /\ UNCHANGED <<task, taskRuns, taskJobs>>
SkipFire(t) ==
    IF task[t].exists /\ (task[t].enabled => task[t].kind.zoneKnown)
    THEN /\ AddRun(t, "skipped", "schedule")
         /\ taskJobs' = Append(taskJobs, "none")
         /\ task' = [task EXCEPT ![t].due = NewDue(task[t], instant)]
    ELSE UNCHANGED <<task, taskRuns, taskJobs>>

TickSkips(t) ==
    /\ tick.at = "acting" /\ t \in tick.skip /\ Len(taskRuns) < MaxTaskRuns
    /\ starts["tick"].at = "idle"
    /\ SkipFire(t)
    /\ tick' = [tick EXCEPT !.skip = @ \ {t}]
    /\ UNCHANGED <<instant, taskMarks, liveRuns, taskSignals, starts, runRequests, cancels,
                   taskEdits>>

\* enqueue marks the task, again, before it writes anything.
TickStarts(t) ==
    /\ tick.at = "acting" /\ t \in tick.execute /\ starts["tick"].at = "idle"
    /\ starts' = [starts EXCEPT !["tick"] = [at |-> "marked", task |-> t,
                                             kind |-> tick.rows[t].kind]]
    /\ taskMarks' = taskMarks \cup {t}
    /\ tick' = [tick EXCEPT !.execute = @ \ {t}]
    /\ UNCHANGED <<instant, task, taskRuns, liveRuns, taskSignals, taskJobs,
                   runRequests, cancels, taskEdits>>

TickEnds ==
    /\ tick.at = "acting" /\ tick.skip = {} /\ tick.execute = {}
    /\ starts["tick"].at = "idle" /\ tick' = IdleTick
    /\ UNCHANGED <<instant, task, taskRuns, taskMarks, liveRuns, taskSignals, taskJobs,
                   starts, runRequests, cancels, taskEdits>>

-----------------------------------------------------------------------------
(* enqueue, for the loop and for tasks.run *)

\* run_idempotent_async: a key that is pending or answered is refused or answered
\* again; a failure releases it, a success stores the answer.
ReservesKey(k) ==
    runRequests[k] = "none" /\ runRequests' = [runRequests EXCEPT ![k] = "pending"]
ReleasesKey(c) == runRequests' = [k \in TaskKeys |-> IF k = c THEN "none" ELSE runRequests[k]]
AnswersKey(c) == runRequests' = [k \in TaskKeys |-> IF k = c THEN "done" ELSE runRequests[k]]

\* tasks.run: the key is reserved, the task read and marked; a task that is gone
\* releases the key.
RunNow(k, t) ==
    /\ ReservesKey(k) /\ task[t].exists
    /\ starts' = [starts EXCEPT ![k] = [at |-> "marked", task |-> t, kind |-> task[t].kind]]
    /\ taskMarks' = taskMarks \cup {t}
    /\ UNCHANGED <<instant, task, taskRuns, liveRuns, taskSignals, taskJobs, tick,
                   cancels, taskEdits>>

\* record_task_fired: the due time moves on before the run's row exists; the
\* kind is the one the caller read.
StartFires(c) ==
    /\ starts[c].at = "marked"
    /\ LET s == starts[c]
           next == IF s.kind.zoneKnown THEN NextRun(s.kind, instant) ELSE Never
       IN  task' = IF next # Never THEN [task EXCEPT ![s.task].due = next] ELSE task
    /\ starts' = [starts EXCEPT ![c].at = "fired"]
    /\ UNCHANGED <<instant, taskRuns, taskMarks, liveRuns, taskSignals, taskJobs, tick,
                   runRequests, cancels, taskEdits>>

StartCreates(c) ==
    /\ starts[c].at = "fired" /\ task[starts[c].task].exists
    /\ Len(taskRuns) < MaxTaskRuns
    /\ AddRun(starts[c].task, "running", c)
    /\ taskJobs' = Append(taskJobs, "none")
    /\ starts' = [starts EXCEPT ![c] = [at |-> "created", run |-> Len(taskRuns) + 1]]
    /\ UNCHANGED <<instant, task, taskMarks, liveRuns, taskSignals, tick, runRequests,
                   cancels, taskEdits>>

\* create_task_run fails on a deleted task: the mark goes, the key is released.
StartFails(c) ==
    /\ starts[c].at = "fired" /\ ~task[starts[c].task].exists
    /\ taskMarks' = taskMarks \ {starts[c].task}
    /\ starts' = [starts EXCEPT ![c] = IdleStart]
    /\ ReleasesKey(c)
    /\ UNCHANGED <<instant, task, taskRuns, liveRuns, taskSignals, taskJobs, tick, cancels,
                   taskEdits>>

\* The execution is spawned, and for tasks.run the key gets its answer.
StartSpawns(c) ==
    /\ starts[c].at = "created"
    /\ liveRuns' = liveRuns \cup {starts[c].run}
    /\ taskJobs' = [taskJobs EXCEPT ![starts[c].run] = "executing"]
    /\ starts' = [starts EXCEPT ![c] = IdleStart]
    /\ AnswersKey(c)
    /\ UNCHANGED <<instant, task, taskRuns, taskMarks, taskSignals, tick, cancels, taskEdits>>

-----------------------------------------------------------------------------
(* The execution of a run *)

\* finish_task_run writes the outcome over whatever the row says.
DispatchFinishes(r, outcome) ==
    /\ taskJobs[r] = "executing" /\ (outcome = "cancelled" => r \in taskSignals)
    /\ taskRuns' = IF taskRuns[r].status = "deleted" THEN taskRuns
                   ELSE [taskRuns EXCEPT ![r].status = outcome]
    /\ taskJobs' = [taskJobs EXCEPT ![r] = IF outcome = "failed" THEN "failing" ELSE "counting"]
    /\ UNCHANGED <<instant, task, taskMarks, liveRuns, taskSignals, starts, tick, runRequests,
                   cancels, taskEdits>>

\* record_task_outcome on the task's row as it is now.
CountedRow(row, failed) ==
    LET failures == IF failed THEN row.failures + 1 ELSE 0
        enabled  == /\ row.enabled /\ row.kind.trigger # "date"
                    /\ ~(failed /\ FailureCeiling > 0 /\ failures >= FailureCeiling)
        counted  == [row EXCEPT !.failures = failures, !.enabled = enabled]
    IN  IF enabled /\ ~row.kind.zoneKnown THEN counted
        ELSE [counted EXCEPT !.due = NewDue(counted, instant)]

DispatchCounts(r) ==
    /\ taskJobs[r] \in {"failing", "counting"}
    /\ LET t == taskRuns[r].task
       IN  task' = IF task[t].exists
                   THEN [task EXCEPT ![t] = CountedRow(task[t], taskJobs[r] = "failing")]
                   ELSE task
    /\ taskJobs' = [taskJobs EXCEPT ![r] = "leaving"]
    /\ UNCHANGED <<instant, taskRuns, taskMarks, liveRuns, taskSignals, starts, tick,
                   runRequests, cancels, taskEdits>>

\* The run leaves `live` and Scheduler::complete clears the task's mark.
DispatchLeaves(r) ==
    /\ taskJobs[r] = "leaving"
    /\ liveRuns' = liveRuns \ {r} /\ taskMarks' = taskMarks \ {taskRuns[r].task}
    /\ taskJobs' = [taskJobs EXCEPT ![r] = "none"]
    /\ UNCHANGED <<instant, task, taskRuns, taskSignals, starts, tick, runRequests, cancels,
                   taskEdits>>

-----------------------------------------------------------------------------
(* Users: cancelling a run and editing a task; and crashes *)

StopSignals(r) ==
    /\ r \in liveRuns
    /\ liveRuns' = liveRuns \ {r} /\ taskSignals' = taskSignals \cup {r}
    /\ cancels' = cancels \cup {r}
    /\ UNCHANGED <<instant, task, taskRuns, taskMarks, taskJobs, starts, tick, runRequests,
                   taskEdits>>

\* cancel_task_run: an ended run is returned as it is.
StopWrites(r) ==
    /\ r \in cancels /\ cancels' = cancels \ {r}
    /\ taskRuns' = IF taskRuns[r].status \in EndedTaskRun THEN taskRuns
                   ELSE [taskRuns EXCEPT ![r].status = "cancelled"]
    /\ UNCHANGED <<instant, task, taskMarks, liveRuns, taskSignals, taskJobs, starts, tick,
                   runRequests, taskEdits>>

EditCounted == taskEdits < MaxTaskEdits /\ taskEdits' = taskEdits + 1

\* update_task with a schedule field or enabled: validated (so the timezone is a
\* known one), then rewritten.
UpdateTask(t, kind, enabled) ==
    /\ EditCounted /\ task[t].exists
    /\ <<kind, enabled>> # <<task[t].kind, task[t].enabled>>
    /\ LET row == [task[t] EXCEPT !.kind = kind, !.enabled = enabled]
       IN  task' = [task EXCEPT ![t] = [row EXCEPT !.due = NewDue(row, instant)]]
    /\ UNCHANGED <<instant, taskRuns, taskMemory, runRequests>>

DeleteTask(t) ==
    /\ EditCounted /\ task[t].exists
    /\ task' = [task EXCEPT ![t].exists = FALSE]
    /\ taskRuns' = [r \in DOMAIN taskRuns |->
                      IF taskRuns[r].task = t THEN [taskRuns[r] EXCEPT !.status = "deleted"]
                      ELSE taskRuns[r]]
    /\ UNCHANGED <<instant, taskMemory, runRequests>>

\* The process ends: the rows, those of running runs and pending keys included,
\* stay as they are; nothing at start-up repairs them.
\* Mutant: start-up gives the pending keys free, so that the client may repeat.
TaskCrashFreesKeys ==
    /\ EditCounted
    /\ taskMarks' = {} /\ liveRuns' = {} /\ taskSignals' = {} /\ cancels' = {}
    /\ taskJobs' = [r \in DOMAIN taskJobs |-> "none"]
    /\ starts' = [c \in Callers |-> IdleStart] /\ tick' = IdleTick
    /\ runRequests' = [k \in TaskKeys |-> IF runRequests[k] = "done" THEN "done" ELSE "none"]
    /\ UNCHANGED <<instant, task, taskRuns>>
TaskCrash ==
    /\ EditCounted
    /\ taskMarks' = {} /\ liveRuns' = {} /\ taskSignals' = {} /\ cancels' = {}
    /\ taskJobs' = [r \in DOMAIN taskJobs |-> "none"]
    /\ starts' = [c \in Callers |-> IdleStart] /\ tick' = IdleTick
    /\ UNCHANGED <<instant, task, taskRuns, runRequests>>

-----------------------------------------------------------------------------
TickStep == TickReads \/ TickPlans \/ TickEnds \/ \E t \in Tasks : TickSkips(t) \/ TickStarts(t)
StartStep(c) ==
    \/ StartFires(c) \/ StartCreates(c) \/ StartFails(c) \/ StartSpawns(c)
DispatchStep(r) ==
    \/ \E outcome \in {"completed", "failed", "cancelled"} : DispatchFinishes(r, outcome)
    \/ DispatchCounts(r) \/ DispatchLeaves(r)

TaskNext ==
    \/ Elapse \/ TickStep \/ \E c \in Callers : StartStep(c)
    \/ \E k \in TaskKeys, t \in Tasks : RunNow(k, t)
    \/ \E r \in DOMAIN taskRuns : DispatchStep(r) \/ StopSignals(r) \/ StopWrites(r)
    \/ \E t \in Tasks : DeleteTask(t) \/ \E kind \in TaskKinds, on \in BOOLEAN : UpdateTask(t, kind, on)
    \/ TaskCrash

\* The loop and the spawned tasks run; a run ends, by its timeout at the latest.
TaskFairness ==
    /\ WF_taskVars(TickStep)
    /\ \A c \in Callers : WF_taskVars(StartStep(c))
    /\ \A r \in 1..MaxTaskRuns : WF_taskVars(r \in DOMAIN taskRuns /\ DispatchStep(r))

TaskSpec == TaskInit /\ [][TaskNext]_taskVars /\ TaskFairness

-----------------------------------------------------------------------------
(* Properties *)

TaskTypeOK ==
    /\ instant \in 0..LastInstant /\ taskMarks \subseteq Tasks
    /\ task \in [Tasks -> [exists : BOOLEAN, enabled : BOOLEAN, kind : TaskKindType,
                           due : Int, failures : Nat]]
    /\ taskRuns \in Seq([task : Tasks, status : EndedTaskRun \cup {"running"},
                         source : Callers \cup {"schedule"}])
    /\ liveRuns \cup taskSignals \cup cancels \subseteq DOMAIN taskRuns
    /\ taskJobs \in [DOMAIN taskRuns -> {"none", "executing", "failing", "counting",
                                         "leaving"}]
    /\ runRequests \in [TaskKeys -> {"none", "pending", "done"}]

Underway(t) == {r \in DOMAIN taskRuns : taskRuns[r].task = t /\ taskJobs[r] = "executing"}

\* One tasks.run key starts at most one run, whatever is retried after a failure
\* or a crash, and a key answered as done has started one.
KeyRunsOnce ==
    \A k \in TaskKeys :
        LET started == {r \in DOMAIN taskRuns : taskRuns[r].source = k}
        IN  Cardinality(started) <= 1 /\ (runRequests[k] = "done" => started # {})

\* A due task is run or skipped, so that its due time moves on, unless the row's
\* timezone cannot be interpreted: no overlap, late tick, edit or crash leaves it due.
DueIsServed ==
    \A t \in Tasks :
        LET due == /\ task[t].exists /\ task[t].enabled /\ task[t].kind.zoneKnown
                   /\ task[t].due # Never /\ task[t].due <= instant
        IN  due ~> (~due \/ Len(taskRuns) = MaxTaskRuns)

\* A task never has two executions at once.  (scheduler.rs: `running` tracks tasks
\* in flight "so `max_instances=1` overlap suppression works".)
OneExecution == \A t \in Tasks : Cardinality(Underway(t)) <= 1
=============================================================================
