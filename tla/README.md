# TLA+ specifications of Cool

Cool is a personal AI agent harness.  One Rust process serves a web UI, a terminal UI, editors and
scripts over a JSON-RPC protocol, runs agent turns against model providers, executes tools under a
permission policy, and keeps every run in an append-only SQLite log.  These modules specify the
parts whose correctness depends on orderings that tests hardly reach, model-check them with TLC on
small instances, and prove the most important results with TLAPS for instances of every size.

Contents: 1 the system, 2 the modules, 3 what TLC checks, 4 what TLAPS proves, 5 plan, 6 what is not
modelled.  `PROJECT.json` has the same in machine-readable form: the components, the runs, the lines
each definition models, the hazards and where they bite, and the mutants.

## 1. The system

| Part | State | Operations | Works with |
|---|---|---|---|
| `cool-state` | SQLite tables: sessions, runs, events, idempotency records, cancel intents, approval tickets, conversation links | create, prompt, auxiliary run, append, steer, cancel, approve, expire, fork, rewind, link, bind, recover | called by every handler and task of the server, each call one transaction under one mutex |
| `cool-agent` loop | the turn's history, steer cursor, iteration, tool batch | stream, gate, dispatch, join, drain, compact, finish | emits events through the server's sink, asks the server's gate, watches a cancel channel |
| `cool-agent` drivers | one call of the model: connection, attempt, the answer so far | connect, retry, read lines, put the answer together | the loop; a provider over HTTP |
| `cool-app-server` handlers | `runs` (task and cancel channel of each live run), `approval_waiters`, `run_subscribers`, `run_owners`, connections | one handler per protocol command, spawned per request | commits to the store first and updates the in-memory maps afterwards, without a lock across both |
| run subscriptions, `cool-http` | subscriber maps, SSE streams | subscribe, publish, replay, follow, drop on disconnect | fed by every writer of the log |
| rules (`cool-security`) | a project file, a table, a set per run, the hidden signatures | evaluate, remember, promote, clean up | asked by the loop before each tool call |
| scheduler | tasks, firings, marks of tasks in flight | plan, tick, run now, cancel, edit, enqueue | starts turns of its own |
| subagents, research, plans | child runs, their steers and results; a pipeline's stages; plan steps | spawn, send, cancel, await, gather, execute | turns inside a turn |
| `cool-extensions` | installed packages, hook reviews, workers, MCP sessions | install, update, review, call, restart | tools and hooks of a turn |
| legacy tables (`cool-store`) | the tables of `harness.db`, idempotency claims | commands under keys, the mirror of runs, memories | administration commands, the mirror, the agent's tools |
| logins | one row of tokens per provider, each process's cache | log in, renew | the drivers' answer to a refusal |
| clients (`cool-tui`, `cool-acp`, frontend, SDK) | projections of the event stream | requests | the protocol |

**What is hard here.**  Requests are handled concurrently, and each one commits its transaction and
then touches shared maps, sockets and channels in separate steps; a turn is a task that awaits the
model, its tools and the user while other requests append to the same run; the process can die
between any two transactions; clients repeat requests whose answer they lost; timers race answers;
bounded buffers overrun; several processes share one file.

**What makes each part correct.**
*Store*: one live turn per session; logs without gaps that are never reopened; a repeated request has
no second effect; a cancel or a restart leaves no tool call without its result; tickets, statuses
and logs agree; copies made by fork and rewind show the next turn the same messages; recovery always
finishes.  *Turn*: each call answered exactly once; nothing that was put to the user runs without
consent; steers reach the model once and in order; a decision is never lost between ticket and
waiter; a stopped turn ends although model, tools and users stay silent.  *Streams*: a reader passes
over no event but one that was overtaken while it was fanned out, and comes to the end of an ended
run.  *Rules*: what is remembered was granted; a file that cannot be read denies.  *Scheduler*: a key
starts at most one run, a due task is served.  *Children*: their records agree, none outlives a
cancelled parent, no more than the permits run.  *Extensions*: nothing is carried out twice.
*Keepers of data* (checkpoints, file edits, context, plugin store, mirror, logins, keyed commands,
history): what another part reads later is what was put there, whatever came between.  *Budgets*: a
status was true while it was read; charges never pass a limit.  *Processes*: what is captured of an
output is its beginning and its end, and no call leaves its program running.

## 2. The modules

| Module | Models |
|---|---|
| `DurableStore` | `cool-state/src/lib.rs` |
| `RunLifecycle` | the abstract life of a run, which `DurableStore` implements |
| `TurnExecution` | one turn in a running server: `cool-agent/src/loop_runtime.rs`, the gate, sink and handlers of `cool-app-server/src/lib.rs`, `ask_user` of `cool-agent/src/tools.rs` |
| `RunStreams` | fan-out, `run.subscribe`, the event stream of `cool-http/src/routes.rs` |
| `Connection` | one client's connection: `serve_io`, the writer, in-flight handlers, the disconnect |
| `ModelCalls` | one call of the model: `provider.rs`, `anthropic.rs`, `gemini.rs` and the loop's part |
| `ContextCompaction` | `context.rs`, `history_from_event_rows`, `compact_conversation` |
| `FileCheckpoints` | `checkpoints.rs` and the restore of `session.rewind` |
| `FileEdits` | `edit_file`, `write_file`, the guard of protected paths and the diff of an edit (`tools.rs`) |
| `ProcessRuns` | a tool call that runs a program: launch, pipes, capture, timeout, what is shown (`tools.rs`, `launcher.rs`) |
| `HistoryPages` | `session_history` page by page; imported legacy transcripts |
| `ApprovalRules` | rules in three scopes, "remember" on an approval, policies narrowed for children |
| `ScheduledTasks`, `ScheduleTimes` | the scheduler's rows, engine and executor; cron schedules |
| `Budgets` | the legacy budget's row, spend log and status; `reserve_budget` |
| `CivilDates` | the civil calendar, which `ScheduleTimes` and `Budgets` use |
| `Subagents`, `Research`, `PlanExecution` | children of a turn, the research pipeline over them, plans |
| `ExtensionCalls`, `PluginStore`, `OperatorMcp` | hooks, MCP calls and the worker; the plugin directory; an operator's MCP servers |
| `ProviderLogin` | OAuth logins and the renewal of tokens by several processes |
| `KeyedCommands`, `LegacyMirror`, `Memories` | commands on the legacy tables under keys; the projection of runs into them; memories |
| `TerminalUi`, `AcpBridge` | the terminal's loop and view; an editor's session over ACP |
| `DurableStoreProofs`, `DurableStoreLedger` | theorems about the store: its tables and their refinement; its side tables |
| `TurnExecutionProofs` | theorems about a turn |
| `RunStreamsProofs` | theorems about event streams and an editor's session |
| `HelpersProofs` | theorems about a turn's children, the research pipeline, extension calls and the programs that tools run |
| `KeyedProofs` | theorems about the commands under keys and about plans |
| `KeepersProofs` | theorems about plugin store, logins, approval rules and an operator's MCP servers |
| `ServerProofs` | theorems about one connection, the keys of scheduled tasks and the legacy mirror |
| `MCDurableStore`, `MCTurnExecution`, `MCPlanExecution`, `MCServices`, `MCFollowers`, `MCKeepers` | the TLC instances |

Conventions.  An action is a handler, or the part of it between two awaits or two transactions; a
store transaction is one action.  Requests that the code answers without a change (a recorded key, an
unknown id, another actor) are not actions.  Counters are bounded by constants named `Max...`, which
appear as guards and nowhere else.  Operators whose comment says "Mutant" are wrong on purpose: no
specification uses them; each is a plausible slip in the operator after it, and putting it in that
operator's place makes TLC report the property that watches over it.

### DurableStore

Each append-only table is a sequence whose index is the rowid; 0 stands for NULL.  The crate holds
one connection mutex for one IMMEDIATE transaction per operation, so an operation is one action and
a rejected one changes nothing.  `recover_incomplete_runs` is the exception: one query, then a
transaction per run, so `BeginRecovery`, `RecoverRun` and `FinishRecovery` are separate and `Crash`
may fall between them.  What makes a repeated request harmless is that `Fresh` guards every keyed
operation, and `KeysMatchEffects` is about that: prompts and turns, steers and steered items, cancels and
intents, decisions and decided tickets are one-to-one.

An event keeps its run, seq, kind, tool calls, reference (the cursor of a compaction marker, the
ticket of an approval event) and the rowid of the event whose content it copies.  Text, titles,
timestamps, audit rows and artifact references are left out.  Calls are numbered in the order of
their ids, because the store writes the interruption results of a `BTreeMap` in that order.
A steer is a user item of a kind of its own, `SteerItem`: the code tells the two apart by the event's source,
and a copy of either has the source of the fork or rewind, so `CopiedKind` makes it a `UserItem`.
`Transcript` is the projection `history_from_event_rows` makes of a session, used to state what fork
and rewind have to preserve.

### TurnExecution

The variables fall into three groups: what is durable (`log`, `status`, `tickets`), the server's
memory (`record`, `signal`, `waiters`, `answers`, ...) and the turn's task (`pc`, `iteration`,
`steerCursor`, `delivered`, and each call's `stage` and `gate` position).  A handler that commits and
then notifies is two actions (`ResolveApproval`/`NotifyWaiter`, `CancelRun`/`SignalCancel`), and
everything else may happen between them.  `Emit` is `emit_once` whole: an event that was already
stored by a cancel, a frame that is too large, a refused append, an owner that cannot be reached.
Every error unwinds the loop, aborts the tools in the join set, and leaves `SettleError` to close the
durable run.  The gate `AppServerApprovalGate::request` is used twice, by the loop for a call the
policy wants approved and by `ask_user` for its question; one set of actions serves both.  The
policy's decision, the model's answers, the tools' results and the users' decisions are free.
`CallId` gives each call its provider id; the Gemini driver's ids repeat, and `turn_shared_id` is
about that.

### The other components

Each module's head says which files it models and what it leaves out; here is what to know of their
shape.  `RunStreams` has one run, its writers and connections; an event is its seq.  `Subagents` drains
all unread steers at once; the code reads pages of 100 until one is empty, which ends in the same place.  It is
used twice, by itself and under `Research`, which composes with it by sharing its variables.
`PlanExecution` takes the delegated child as a run that ends in some way.  `AcpBridge`, `TerminalUi`
and `RunStreams` each keep their own bounded buffer between log and reader, because the three readers
recover from an overrun differently.  `ScheduleTimes` is arithmetic: its one action is
`next_cron_after`, and `NextIsEarliest` compares each result with a search over every minute.
`ApprovalRules` holds the rows of a file, a table and a run as sets of (id, rule) and consults them by
the place of their list and their id, which is the order the code reads them in; its second half is the
policy algebra `narrow_with`, `match_rules` and the loop's decision, which only proofs use.
`Budgets` reads a status as the code does, in four sections of the store's lock, and charges a window in
one.  `ProcessRuns` numbers the bytes of a stream, so that a capture shows which bytes it kept;
the diff of `FileEdits` is Myers' algorithm with its traces, compared with the longest common
subsequence and applied like a patch.
`KeyedCommands` describes a command as the sequence of its sections under the connection's lock and
lets one section fail, or the process die, anywhere.  `ScriptsAssumption` says which situations it is about: sound rows,
and commands made of the sections its operators build; the thirteen of the run are such.

## 3. What TLC checks

Seven runs pass, five show a disagreement.  Components that share no state are checked in one run, where
a variable `focus` (or `work`) chooses the component each behaviour is about and the others stay at
one initial state: the state space is the sum of theirs, not the product.

| Run | Properties | Instance |
|---|---|---|
| `store_session` | `TypeOK`, `OneLiveTurn`, `KeysMatchEffects`, `ApprovalLedger`, `CancelHonoured` | one session: two turns and an auxiliary run with steers, cancels and reused keys; or one turn with two tickets that users and timeouts decide; a crash anywhere |
| `store_copies` | `CopyKeepsTranscript`, `RunsFollowLifecycle`, `RecoveryCompletes`, `RecoveryLeavesNoLiveRun`, `LinksStable` | a turn with compaction markers forked and rewound, the second rewind over the first one's seed run; or linked conversations beside live runs, two crashes, the second possibly during recovery |
| `turn_races` | `CallsAnsweredOnce`, `ConsentBeforeEffect`, `SteersInOrder`, `TurnEnds` | a plain call and a question in two iterations, a cancel, a broken connection; or a timed question and a steer; or two steers around a tool batch |
| `turn_stops` | `StopsWhenTold`, `DecisionReachesGate` | the same turns without steers, fairness for the server only |
| `services` | `KeyRunsOnce`, `OutcomesAgree`, `StoreHolds`, `ViewIsReplay`, `McpHolds`, `NextIsEarliest`, `EndsStay`, `EveryWaitEnds` | a scheduled task with ticks, users, edits and crashes; schedules over month ends, leap days and offsets; a child of a turn; two memories and what is done to them; a terminal with two sessions; MCP servers in six situations; a budget whose status is read while spends are logged and a month ends; two loops that charge one window |
| `followers` | `OnlyOvertakenMissed`, `AnswerIsWhole`, `SkipsOnlyCycles`, `ShownInOrder`, `ProcessHolds`, `ExtensionsHold`, `ConnectionHolds`, `EveryFollowerEnds` | two writers and two readers of a run; a plan of three steps over two graphs; an editor's prompts; one call of each driver; four hooks, or three worker requests; one connection; a program that a tool call runs |
| `keepers` | `ChildrenBounded`, `RulesAreKept`, `FilesHold`, `HistoryHolds`, `NoPhantom`, `MirrorIsTrue`, `StoredLoginLives`, `CommandsHold` | a research run of two questions; two remembered answers of any scope; three calls rewound; a history compacted by loop and user; two processes on one plugin; a mirrored run; two logins; thirteen situations of keyed commands; three histories in pages of every size; two calls of the file tools on one tree |

`StoreHolds` is the memories' `RecallIsSound` and `LinksAreTheirOwn` with `BudgetsHold`, `FilesHold` is
`RestoreUndoes` and `EditsHold`, `HistoryHolds` is `CompactionKeepsAll` and `PagesHold`, each half in the
component's module.  Likewise
`EveryFollowerEnds` joins what each follower promises to come to.

**Bounds.**  The `Max...` constants and the `.cfg` files bound the tables, the requests of a kind, the
crashes and the faults.  Two of a kind (turns, steers, tickets, calls, crashes, rewinds, connections,
requests, questions, processes) are what the properties need to relate: a second turn to meet a stale
column, a second ticket to keep a run waiting, a second rewind to copy a copy, a second crash to cut
recovery, a second steer to be read out of turn, a second reader to overrun while the first is served.  `MaxExecutorRows` limits what executors
append apart from what copies add, so that a log of a few messages can be copied again and again.  A copy
request's cursors are enumerated up to equivalence (`CopyCursors`).  The sizes of `ProcessRuns` (pipe, head, tail,
room of a view) are a few bytes each, so that every way a head, a tail and a marker can meet occurs; the
edits of `FileEdits` turn every text of up to four lines of two kinds into every other, and one longer
pair has two hunks that may touch.  Every mutant is found within these
bounds, which is what says that the interesting cases happen in them.

Alike things are used in order, which leaves out only renamed behaviours: idempotency keys
(`KeysInOrder`), retries of one command (`RetriesInTurn`), the questions of a research run
(`QuestionsInTurn`).  `Within` of `MCDurableStore` keeps each `work` to its own kind of request, and
`LongRunsStay` of `MCKeepers` rewinds only runs of at most three mirrored events.  Most instances stop
when their bounds are used up and run without the deadlock check; `TurnExecution` stutters explicitly
once the task has ended (`Finished`) and its runs check deadlock: no reachable state of a turn is stuck.

### Fairness

*Store*: weak fairness of `RecoveryNext` only; start-up runs recovery before it serves.
*Turn*: weak fairness of the server's own tasks and timers (`ServerFairness`): the run's task, the gate,
the handlers that have committed, the grace timer, the reader that notices a broken link.  Tokio polls
every runnable task, and none of these waits for anything but a lock held briefly or the channel the
action names.  The model, the tools, the users and the clients get none, so `StopsWhenTold` holds
although they may all stay silent; `CooperativeFairness` adds the first three for `TurnEnds` alone.
*Services and followers*: weak fairness of each step a task of the server takes by itself: the tick, the
start and the dispatch of a task, the awaiting parent, the publishing writers, the streaming handler,
the plan's loop, the bridge's task, the driver and its timeout, the serve loop and the writer, the process
call with its timer and the two tasks that drain its pipes.  None is
given to users, models, tools, MCP servers, the network or a crash.  `keepers` has no liveness property
and no fairness.  One assumption is worth knowing: the connect in `provider.stream(...)`
(`loop_runtime.rs:547`) is awaited without looking at the cancel channel, and `TurnExecution` takes it to
return; `ModelCalls` has the HTTP client's timeout that bounds it.

### Disagreements

Five runs are expected to violate their property.  Each states what a comment of the code says.

- `store_interleaved_copy`: after a rewind of a session in which an auxiliary run and a turn wrote
  alternately, the remapped compaction cursor separates other messages than before.  Copies are made
  in (run, seq) order, cursors are rowids; the two agree only when runs do not overlap, which is why the
  same property holds in `store_copies`.
- `turn_late_steer`: a steer accepted between the last drain and `run.completed` is acknowledged and
  never read.
- `turn_question_timeout`: `ask_user` expires the id it invented, the ticket has the id the store gave
  it; a question that times out leaves the run in `awaiting_approval` and it cannot complete.  With the
  two ids equal the property holds.
- `turn_announce`: the gate publishes "the last event of the run"; a steer committed just after the
  ticket is published in its place, and nobody is told about the approval.
- `turn_shared_id`: tickets are unique per (run, call id) and Gemini's ids are counted from 1 in every
  answer, so a call of a later iteration passes the gate on an earlier call's approval.

Other statements one would like to make are not true of the code either.  They are defined in the
modules with a comment that says "Not so" or are named in a hazard's note, and no passing run lists them:

| Definition | What happens instead |
|---|---|
| `ScheduledTasks.OneExecution` | a finishing run clears its task's in-flight mark whoever set it, so a task can run twice at a time |
| `Research.CancelledResearchStays` | a completion that read the row before `research.cancel` committed overwrites it |
| `ApprovalRules.FileRulesWereGranted` | two resolvers rewrite the rule file without a lock; a clean-up can bring back a rule that was not granted |
| `RunStreams.OwnerEnds` | the fan-out leaves the owner's connection out, also when the event that ends the run is another writer's |
| `ContextCompaction.ReplayKeepsAll` | the loop's summary counts what it keeps from the end of the log as it is then; a steer appended after the last drain shifts the count |
| `PlanExecution.CancelledPlanStays`, `OneLoop` | `finish_plan` reads the status and writes its end later; two executions can both start |
| `LegacyMirror.EverythingMirrored` | an event whose projection failed or came late lies below the watermark that a later one moved |
| `AcpBridge.PromptCancellable` | two prompts of one session can both be following their runs, and the session's entry names only the later one |
| `ProviderLogin.NewestLoginStands`, `OneRow`, `RenewalsDoNotCollide` | a renewal writes an older account's bundle over a new login; two first logins make two rows; of two renewals with one token the second is refused |
| `ModelCalls.OnlyCompleteAnswers` | a stream that ends between two lines counts as the end of the answer |
| `ExtensionCalls.ErrorsAreClean`, `ActsAreAudited` | when the worker cannot be started again, the error of the start hides that the request may have been carried out; an audit write may fail |
| `Memories.SupersedesAsRead`, `PinnedStay`, `ScratchpadMerges` | an id the model was shown is another memory's by the time it is stored; a pinned memory that awaits its confirmation expires; two scratchpad writes overwrite each other |
| `TerminalUi.CancelsWhatIsShown`, `AskedIsPending` | a run adopted by its first event leaves `run_id` on an earlier one; an approval settled elsewhere stays on the screen |
| `KeyedCommands.ErrorsDidNothing`, `OneDriver`, `FreshChat` | an error after the first section leaves that section done and the key released; a replay can be driven twice; a link names a conversation whose id was given again |
| `HistoryPages.OnlyOldestHasNoCursor`, `NotesAreTold`, `NamedRowAnswers` | a page without items has no cursor; the reason of a failure may be on an item the page leaves out; an earlier row without an id takes the answer's place |
| `ProcessRuns.EveryCallEnds` | the input is written before the output is drained and outside the timeout and the cancel; after the program's end, the pipes that a process it left behind still holds are awaited without either |
| `FileEdits.BatchEditsAdd`, `AnchorsAreUnique` | two edits of one file in a batch read the same text and the second takes the first's change away; occurrences of an anchor are counted without overlaps |
| `OperatorMcp.NoStaleTools`, `AddsAreKept`, `ConnectedOffersAll` | a connect that was listing registers tools after the update or removal that passed it; two requests that extend the document at once lose one |

Two more observations have no definition.  A gate future dropped while its request is still being
published leaves its entry in `approval_waiters`, because `WaiterCleanup` is created after those awaits
(`cool-app-server/src/lib.rs:5994`); `Dropped` and `AbandonQuestion` model it, and nothing reads the
entry again.  The restore of a rewind also cleans the paths of denied file tools
(`cool-state/src/lib.rs:879`).

## 4. What TLAPS proves

Every theorem is about the specification of its component with arbitrary constants.  The assumptions are
the named `ASSUME`s of the modules, which say that bounds are naturals, that sets of calls and keys are
finite, that names which the code keeps apart (request keys and the scheduler's own callers, a bundle and the lack
of one, the owner of the built-in tools and a server) differ, that functions have their domains, that requests
name known servers, that a program leaves its pipes to somebody or does not, and that keyed commands start from sound rows and are made of the
sections the model builds them from; TLC evaluates each of them in the runs.  Two theorems have
one hypothesis more, `DistinctIds`, which is discussed below.  The theorems of the last column are the
properties of section 3.

| Theorem | Says | Run property |
|---|---|---|
| `TypeCorrect` | tables are well typed and their references valid | `TypeOK` |
| `OneTurnAtATime` | one live turn per session | `OneLiveTurn` |
| `LogsHaveNoGaps` | each run's seqs are 1 .. last_seq in rowid order | |
| `RunsStaySealed` | the event table is append-only and an ended run takes no event | |
| `RecoveryHandsOverClean` | the server starts with no live run of an earlier process | `RecoveryLeavesNoLiveRun` |
| `StoreImplementsLifecycle` | the store implements `RunLifecycle` | `RunsFollowLifecycle` |
| `LinksNeverMove` | a conversation's session, once linked or bound, stays | `LinksStable` |
| `CancelsAreHonoured` | a cancelled run is cancelled or rewound, and no cancelled or interrupted run has a call without a result | `CancelHonoured` |
| `RetriesHaveNoSecondEffect` | recorded keys of prompts, steers, cancels and decisions are one-to-one with their effects | `KeysMatchEffects` |
| `LedgerAgrees` | tickets, run status and log agree | `ApprovalLedger` |
| `TurnTyped` | a turn's state is well typed | |
| `EffectsHaveConsent` | given `DistinctIds`, no call put to the user runs without an approval | `ConsentBeforeEffect` |
| `ApprovalsAreForTheCall` | given `DistinctIds`, the approval was of that call | |
| `CallsGetOneAnswer` | no call has two results; each has one when the model is asked again or the run has ended | `CallsAnsweredOnce` |
| `SteersArriveInOrder` | the model has heard the log's steers up to the cursor, in order, once | `SteersInOrder` |
| `TurnFollowsLifecycle` | a turn implements the run of `RunLifecycle` | |
| `NothingLostButOvertaken` | a stream passes over no event but one fanned out after a later one | `OnlyOvertakenMissed` |
| `PromptShowsRunInOrder` | an editor is shown its run in order, each event once, and all of it before a prompt not cancelled is answered | `ShownInOrder` |
| `RememberedWasGranted` | what is remembered was granted; an unreadable rule file denies | `RulesAreKept` |
| `NothingTwice` | no extension call is carried out twice; hooks act as reviewed and in their turn | `ExtensionsHold` |
| `OutputIsTrue` | a call tells of its program the true beginning and the very end of what it wrote, in the room it has, and the program does not outlive the call | `ProcessHolds` |
| `ToolOutcomes` | the records of a turn's child agree on its end; none is left open | `OutcomesAgree` |
| `ToolEndsStay` | an end a child's row has shown stays | `EndsStay` |
| `ToolHeardAll` | a child that completes has received every steer appended by then | |
| `ResearchBounded` | a pipeline has no more children open than permits, and none when it ends | `ChildrenBounded` |
| `ResearchersAgree` | a pipeline's children keep the first two promises too | `OutcomesAgree`, `EndsStay` |
| `NarrowNeverWidens` | a narrowed policy decides no call more freely than its parent's | |
| `PluginsAreWhole` | what the plugin lockfile or its backup names is there, whole | `NoPhantom` |
| `ServersTellTheTruth` | the registry has of each server what is recorded or in a request's hands; after a request that met no other, all is as its answer says | `McpHolds` |
| `StoredTokensLive` | the stored refresh token is the accepted one, about to be replaced by it, or its successor was lost | `StoredLoginLives` |
| `ConnectionIsTornDown` | a connection that has ended left nothing behind, and refused nothing after an initialize for want of one | `ConnectionHolds` |
| `KeysStartOneRun` | a key of `tasks.run` starts one run at most, and exactly one once it is answered | `KeyRunsOnce` |
| `MirrorTellsTheTruth` | a legacy row that says its run ended is right and stays; unless something met a projection half way, no model call is counted twice | `MirrorIsTrue` |
| `CommandsKeepTheirWord` | attempts under one key are answered alike and change the tables once; one default, agreeing feeds, no orphans; a replay that answered is driven and bound | `CommandsHold` |
| `PlansPassOverCycles` | a step a plan passed over is on a cycle of dependencies or waits for one | `SkipsOnlyCycles` |

**The arguments.**  Each invariant below is stated in the proof module next to its theorem and is
inductive; TLC checked every one of them on its run's instance before it was proved.

*Store.*  Types alone are not inductive: the step that ends a run writes the session of that run, so
`ReferencesValid` is carried along.  `AppendTxEffect` and `SeedEventsEffect` say once what the two kinds
of multi-event transaction do; `Shape` then reduces the nineteen actions to six effects on the
core tables, and the safety theorems have one case per shape.  `OneLiveTurn` is inductive because it has
both directions: a live turn is the one its session's column names, and a column names only a live run
of its own session.  `RecoveryLeavesNoLiveRun` is about the hand-over, so it needs `RecoveryCovers`:
while recovering, every live run is in `todo` and nothing can start one.  The refinement maps append
transactions to `Write`, new runs to `Start`, seeds to `Seed` and everything else to stuttering.

*Ledger.*  `DurableStoreLedger` is about the side tables.  Three lemmas say what a step does to the rows
of each run (`SessionRows`, `AppendedTo`, no row).  `LinksInjective` makes links stable.  `CancelInv`
adds to the property that an interrupted run has ended, so that no writer can list another call in it; the
work is in the copies, where half of a batch may be below the cursor.  `KeysInv` says of each scope that distinct keys have distinct
effects and every effect its key; for steers it needs that no copy is a steer (`CopiesAreRetold`).  `LedgerInv`: each ticket has one request row in its own run and one answer row exactly when it is
decided, a run's status is what its log replays to, and it waits only beside an open ticket; every row
about a ticket names one of its own run, which is what the property alone does not say.

*Turn.*  `GateInv`: a call in the gate has a ticket, what reaches the call is the ticket's decision, and
request and decision are in the log.  `ConsentInv`: a call has no
ticket before it is put to the gate, and one that may run has none or an approved one; `StartedInv`
ties a running tool to its `tool.started`.  This needs `DistinctIds` (the calls of a turn have
different provider ids): a ticket is found by (run, call id), so with equal ids a later call is let
through by an earlier one's ticket.  The code does not guarantee different ids, as `turn_shared_id`
shows for Gemini's; the theorem says what holds for the drivers that do give them.  `AnsweredInv` is
`Once`, `Tracked` and `Closed`: a call has at most one result; while the run is live and the loop works,
log and stages agree about what was listed and what is answered; an ended run has no call unanswered.
`BatchInv` bounds the stages a call can be in at each `pc`.  `SteersInv` needs only that the cursor lies in the log.
For `TurnFollowsLifecycle`, `StepEffects` says of every step that it leaves log and status alone, appends one
event, or accepts a cancel with the answers it owes; the first is a stutter of `RunLifecycle`, the other two are
a `Write`.  The run's `Start` is the
prompt handler's (the store's theorem has it): the turn begins right after it, with an open and empty log.

*Streams.*  `WritersInv`: an event is unsent until its fan-out and sent after it, no two writers carry the
same one, and a terminal is the last event of an ended run.  `FollowerInv` of a connection that is
not the owner's: what its cursor has passed over without its having heard it was overtaken, or will
be (`GapsExplained`); a live buffer that was not overrun holds everything due above the cursor
(`Buffered`), before anything later (`InOrder`); and a fan-out under way counts the connection among its
targets unless a later event was sent (`Targeted`).

*Editor.*  `AcpInv` of a prompt: `AcpLogOK` says how its log grows (the end is last, nothing of the loop follows an
approval whose ticket is open, the loop has one event in flight at most), `AcpPlaceOK` where the bridge is
(what was shown is below the cursor, a page goes on from it).  `AcpHeardOK`: what the loop logged above the cursor
is in flight, in the buffer, or will be read from the log (`Recovering`), and no later event comes out of the buffer
before it (`InTurn`).  The last needs `NotPassed`: a decision is only logged when the editor was shown all that
the loop had logged, since the loop waits.  A cancel waits for nothing, which is why the promise is for runs not
cancelled.

*Rules.*  `GrantInv`: a row of the table was granted, or an answer holds it in hand and removes it unless
it commits; a row of a run was granted.  `ClosedInv`: of a project whose file could not be read, the
file and every version an answer is about to write have the rule that denies everything.  That rule
comes before every other one of file and table, by place and id, and is no rule an answer can hide.

*Extensions.*  `HooksInv` ties each hook's position to its acts and its turn.  `WorkerInv`: the worker's lock
has one holder, each line in the pipe carries the id of its request, and nobody else waits for an answer
under that id.

*Programs.*  `CaptureInv`: of each stream the head holds the first bytes and the tail the last ones of what was read,
both as far as they have room, and a stream whose task is joined can grow no more, as nobody holds its pipe; so
at the answer everything written was read.  `PhaseInv` says where the call is, who still runs and which answers may
have been decided.  `ShapeFits` and `ViewFits`: what is shown of a text, marker and path of the spill file included, and
the room left for the other stream together take no more than the room there was.

*Children.*  `ChildOK` ties the three records of a child to where its execution is: the row exists from
`create_subagent_run` on, from its finalizing on the execution carries the row's own end, and only what
has left can show an ended lifecycle run.  `HeardOK`: what a child received is its conversation up to
the cursor.  `ChildMoved` says once what any of a child's twenty-four steps does, so that tools and
pipelines share the induction.  `GatherInv` of a pipeline: a question in the queue has launched nothing,
one that is done left no child open, and so the open children are among the holders of permits
(`Cardinality` is bounded by the library's facts about finite sets).  A panic gives the permits
back with the tasks it aborts, which is why `ChildrenBounded` excludes it.

*Plugin store.*  `PluginInv`: lockfile and backup name whole trees only; the document of the command that
holds the lock does too, but for the tree it is about to place; between set-aside and rename there is no
lockfile, so the backup speaks; and what the command deletes after the rename, the document it wrote does
not name.  Installed and backup are what a reader would find, which is why a step on the file of reviews
keeps both (`OtherFile`).

*MCP servers.*  `TrackInv`: every name a server has in the registry is in its record or in the hands of one request, never
in two of these, and a request that registers holds the record's lock while the record of its server is
empty; what overlapping requests take out of the record is in that way removed by one of them, and only while it
is still the server's.  `AloneOK` says of a request that met no other what it has come to at each of its places: the
document is the one it read, and of the servers a reconnect is done with each is down or connected under its present
config (`Settled`).  Nothing is promised for requests that met; section 3 has what they leave.

*Logins.*  `LoginInv`: every bundle in a row, and every one that a request asks with or has to store, is of a
login that is done and stored into that row (`OfRow`), so rows do not exchange accounts.  `UseOK`: what a
request has to store is what the provider accepts.  `Alone`: of an account whose refresh token is replaced at each
use, the token to be stored is in no other request's hands and not yet in the store; the provider grants
only to the token it accepts, so the next one is again held by one.  The property alone is not
inductive, as it does not say that only one request can be about to store the successor.

*Connection.*  `ConnInv`: a prompt's run that is driven is in the connection's `owned` set, and a registration is noted
in its `subscribed` set or its handler is about to note it (`CallOK`), so the tear-down finds all there is; from the
joining of the handlers on none is in flight and what is left to stop and to remove is in the loop's hands
(`EndOK`).  `InitOK`: while the connection is not marked initialized, the one `initialize` it has read has the loop
waiting for it, so a refusal names a request before it, in the loop, in the queue and at the client (`FramesOK`).

*Tasks.*  `TaskInv`: an enqueue under a key goes on only while the key's record is pending; before its row is made,
and for a key that has no record, no run has that key as its source; an answered key has a run.  A record
that is pending without an enqueue is what the death of a process left, and the retry is refused.

*Mirror.*  `MirrorInv`: what a hand has queued is an event of a log, or the closing of the row of a run that has
ended (`Due`), and its place in `project` fits that event (`AtWork`), so a row is only finished for an `end`.
For the count, while nothing has met a projection half way: a model call is in one place of one queue at most
(`OnceHeld`), a sweep meets no other hand that has one (`SweepAlone`), and a call that was counted is at its mark, or
the mark is set and nobody has it (`CountOK`), so that no later sweep reads it again.  `ProjectEffects` reduces
the nine steps of a projection to giving the event up and going on with it, `HandedKeeps` the five that hand
events out to what must be true of those events.

*Commands.*  `KeysInv`: a command at work holds its key, pending, with its own input, and no other attempt under that
key holds it or has a stake in it, that is, has changed the tables and not ended in an error; an answered attempt's
key is done with that answer.  `SoundRows` is one lemma per kind of change (`AddKeeps`, `DeleteKeeps`, `EntryKeeps`,
`PruneKeeps`, ...) and one per section; for the pruning, `LowestCounted` says that of n entries with different times
exactly k have fewer than k before them.  Replays need both halves: `WorkInv` (a command that makes a run has it in
hand, or a section that makes it is left) gives that a stored answer names a row that is there (`AnswersInv`), rows
of runs are never deleted, and `Spawning` says at each step after the answer what is recorded and bound.
`ReplaysGrow` is what the steps of all others leave of that.

*Plans.*  First the order, without a loop: counting up over n, `TakenBy[n]` has each of its steps once and after
all the steps it depends on (`Ordered`), and is longer than `TakenBy[n - 1]` or nothing is ready any more.  As a plan
has no more than `StepCount` steps, outside `Sorted` every step waits for another one outside; the one among them, and
all it waits for, that waits for the fewest steps, waits for a step that waits for as many, so that one is on a cycle
(`RemainingReachCycles`).  Then a loop (`Passed`): what is behind it in the order is completed or skipped, but for the
step under way.  A step of `Sorted` that comes up has all it depends on behind it, so it is never skipped.
`PlanInv` also says that the statuses a loop knows, and those an execution loaded, are of the plan's steps.

**What stays with TLC.**  The liveness properties (`RecoveryCompletes`, `StopsWhenTold`,
`DecisionReachesGate`, `TurnEnds`, `EveryWaitEnds`, `EveryFollowerEnds`), because liveness under fairness is
out of the prover's reach.  `CopyKeepsTranscript`, `ViewIsReplay`, `AnswerIsWhole`, `FilesHold`,
`StoreHolds`, `HistoryHolds` and `NextIsEarliest` compare, in whole or in part, what a fold, a filter or a search
over data computes with a reference definition, which takes induction over that data.  The theorems of a component cover its own specification; that TLC's
instance moves one component at a time is the MC modules' doing and changes nothing in it.

## 5. Plan

To be modelled: blob uploads, the legs of a session's import and export.

## 6. Not modelled

Manifest parsing and signature checks, request bodies and prices, SQL migrations and backups, full-text search,
web tools, the sandboxes of the process launcher (of which `ProcessRuns` has what starts and what is refused),
the command line's argument handling, drawing of the user interfaces,
the web frontend and the SDK: their work is I/O or conversion on the data of one request, and the parts
that are modelled see only that they answer, fail or stay silent.  Text, titles, timestamps that only
order what a rowid orders already, audit rows and log lines are left out everywhere.  Of `cool-http`,
authentication is not modelled: it compares one header and keeps no state.  `PROJECT.json` gives the
reason for each part.
