------------------------------ MODULE MCServices -------------------------------
(* What runs of its own accord beside a user's turns, and the terminal that shows *)
(* them, for TLC in one run: scheduled tasks and the instants they are due,        *)
(* subagents, the memories that outlive a run, the terminal, the MCP servers an    *)
(* operator adds tools of, and budgets.  They do not share state, so each behaviour *)
(* focuses on one of them: its component is the whole of its specification, the    *)
(* others stay where they start, at one of their initial states.                   *)
EXTENDS ScheduledTasks, ScheduleTimes, Subagents, Memories, TerminalUi, OperatorMcp, Budgets, TLC

VARIABLE focus
Services == {"tasks", "calendar", "subagents", "memories", "scratchpad", "terminal", "mcp", "budget", "reserve"}
services == <<focus, taskVars, scheduleVars, subVars, memVars, uiVars, mcpVars, budgetVars, reserveVars>>

-----------------------------------------------------------------------------
(* Constants *)

Kind(trigger, late, quiet, known) ==
    [trigger |-> trigger, runLate |-> late, quiet |-> quiet, zoneKnown |-> known]
EditedKinds == {Kind("interval", TRUE, FALSE, TRUE)}
\* An interval, a time in quiet hours, and a cron row whose timezone is not known.
StartingKinds ==
    {[t \in Tasks |-> k] : k \in EditedKinds \cup {Kind("date", FALSE, TRUE, TRUE),
                                                  Kind("cron", TRUE, TRUE, FALSE)}}

Cron(m, h, d, mo, w) == [minute |-> m, hour |-> h, day |-> d, month |-> mo, weekday |-> w]
At(n) == {<<n, n, 1>>}
\* Every seven minutes; on weekdays; month ends; leap days; the last minutes of Sundays
\* and of the first of the month; a date no month has.
SampleCrons ==
    {Cron({<<0, 59, 7>>}, {}, {}, {}, {}), Cron(At(0), At(9), {}, {}, {<<1, 5, 1>>}),
     Cron(At(30), At(23), At(31), {}, {}), Cron(At(0), At(0), At(29), At(2), {}),
     Cron({<<55, 59, 2>>}, {<<22, 23, 1>>}, At(1), {}, At(7)), Cron(At(0), At(12), At(30), At(2), {})}
\* From the ends of leap years and of an ordinary one, and from before the epoch.
SampleSchedules ==
    [cron : SampleCrons, offset : {0, -19800, 12600}, after : {951782399, 1709164799, 1703980829, -1}]
SampleDays ==
    UNION {DaysFromCivil(f, 12, 20)..DaysFromCivil(f + 1, 3, 5) : f \in {1599, 1969, 1971, 1999, 2099}}

SampleLaunches == [by : {"tool"}, isolated : BOOLEAN, linked : BOOLEAN]

\* Half of the words of "tea" and of "green" are common; "green" names the kitchen.
SampleTexts == {"tea", "green", "mugs"}
SampleOverlap ==
    [t \in SampleTexts |-> [u \in SampleTexts |->
        IF t = u THEN 100 ELSE IF "mugs" \in {t, u} THEN 20 ELSE 50]]
SampleProjects == "c1" :> "p1" @@ "c2" :> "p2"
SampleNames == "kitchen" :> {"green"}
SampleRanks == "green" :> <<"green", "tea">> @@ "mugs" :> <<"mugs">>
\* One memory is on its way to be forgotten, the other is a preference; both of one conversation.
FirstRow(text, kind, importance, n) ==
    [text |-> text, kind |-> kind, scope |-> "conversation", conv |-> "c2",
     source |-> "user_explicit", status |-> "active", importance |-> importance,
     supersedes |-> NoItem, pinned |-> FALSE, born |-> 0, updated |-> 0, made |-> n]
SampleItems == {<<FirstRow("tea", "semantic", 2, 1), FirstRow("mugs", "preference", 9, 2)>>}
SampleExtractions == {<<[text |-> "green", kind |-> "semantic", importance |-> 9]>>}

SampleScripts ==
    {<<"started", "content", "completed">>, <<"started", "asked", "settled", "content", "failed">>}

\* Two tools of "a"; one of them and the only tool of "b" have the same qualified name.
SampleOffers == "a" :> {"x", "y"} @@ "b" :> {"x"}
SampleToolNames == <<"a", "x">> :> "mcp_a_x" @@ <<"a", "y">> :> "mcp_y" @@ <<"b", "x">> :> "mcp_y"
McpConfig(caps, on) == [capabilities |-> caps, enabled |-> on, transport |-> "stdio", runs |-> "cmd"]
Request(do, server) == [do |-> do, server |-> server, config |-> << >>]
Adds(server, config) == [do |-> "add", server |-> server, config |-> config]
Updates(server, config) == [do |-> "update", server |-> server, config |-> config]
Package(transport, hint, registry, id) ==
    [transport |-> transport, hint |-> hint, registry |-> registry, id |-> id]
Installs(server) ==
    [do |-> "install", server |-> server,
     config |-> <<Package("sse", "npx", "npm", "p"), Package("stdio", "", "pypi", "q"), Package("stdio", "", "npm", "r")>>]
FirstServer == "a" :> McpConfig({"read"}, TRUE)
\* Connects of one server beside its disconnect, its update and its removal; two servers
\* reconnected, one of them disabled; a document that two requests extend at once.
SampleSituations ==
    {[file |-> << >>, wanted |-> << >>],
     [file |-> FirstServer, wanted |-> <<Request("connect", "a"), Request("connect", "a"), Request("disconnect", "a")>>],
     [file |-> FirstServer, wanted |-> <<Request("connect", "a"), Updates("a", [capabilities |-> {}]), Request("connect", "a")>>],
     [file |-> FirstServer, wanted |-> <<Installs("b"), Request("remove", "b"), Request("connect", "a")>>],
     [file |-> FirstServer @@ ("b" :> McpConfig({}, FALSE)),
      wanted |-> <<Request("connect", "b"), Request("reconnect", "a"), Request("connect", "a")>>],
     [file |-> << >>,
      wanted |-> <<Adds("a", McpConfig({"odd"}, TRUE)), Installs("b"), Adds("b", McpConfig({"git"}, TRUE)), Request("reconnect", "a")>>]}

\* The last day of a January, its noon, and the Sunday that begins February: day and month
\* change, the week does not.
SampleInstants == {1769860800, 1769904000, 1769990400}
AsksBudget(do) == [do |-> do, update |-> << >>, until |-> 1769990400]
UpdatesBudget(update) == [do |-> "update", update |-> update, until |-> NoLimit]
SampleAsks ==
    "client" :> {AsksBudget("get"), AsksBudget("override"), AsksBudget("clear"),
                 UpdatesBudget("daily" :> 5 @@ "threshold" :> 10000),
                 UpdatesBudget("monthly" :> 0 @@ "block" :> FALSE), UpdatesBudget("threshold" :> 10500)}
SampleBudgets ==
    {NoLimit, [NewBudget EXCEPT !.limit["monthly"] = 5, !.block = FALSE],
     [NewBudget EXCEPT !.limit["weekly"] = 5, !.limit["daily"] = 11, !.threshold = 10000, !.until = 1769904000]}
Amounts(tokens, cost, iterations) == [tokens |-> tokens, cost |-> cost, iterations |-> iterations]
SampleCharges == {Amounts(2, NoLimit, 1), Amounts(1, 3, 1), Amounts(3, 1, 1)}
SampleLimits == {Amounts(NoLimit, NoLimit, NoLimit), Amounts(5, NoLimit, NoLimit), Amounts(NoLimit, 4, 3)}

-----------------------------------------------------------------------------
Init ==
    /\ focus \in Services
    /\ TaskInit /\ ScheduleInit /\ SubInit /\ MemInit /\ TerminalInit /\ McpInit
    /\ BudgetInit /\ ReserveInit
    /\ focus # "tasks" => task = [t \in Tasks |-> [task[t] EXCEPT !.kind = Kind("date", FALSE, TRUE, TRUE)]]
    /\ focus # "calendar" => schedule = CHOOSE s \in Schedules : TRUE
    /\ focus # "subagents" => plan = CHOOSE p \in LaunchPlans : TRUE
    /\ focus # "mcp" => wanted = << >>
    /\ focus # "budget" => budget = NoLimit
    /\ focus # "reserve" => limits = CHOOSE l \in LimitChoices : TRUE

Next ==
    /\ UNCHANGED focus
    /\ \/ /\ focus = "tasks" /\ TaskNext
          /\ UNCHANGED <<scheduleVars, subVars, memVars, uiVars, mcpVars, budgetVars, reserveVars>>
       \/ /\ focus = "calendar" /\ ScheduleFires
          /\ UNCHANGED <<taskVars, subVars, memVars, uiVars, mcpVars, budgetVars, reserveVars>>
       \/ /\ focus = "subagents" /\ ToolNext
          /\ UNCHANGED <<taskVars, scheduleVars, memVars, uiVars, mcpVars, budgetVars, reserveVars>>
       \/ /\ focus = "memories" /\ MemNext
          /\ UNCHANGED <<taskVars, scheduleVars, subVars, uiVars, mcpVars, budgetVars, reserveVars>>
       \/ /\ focus = "scratchpad" /\ ScratchNext
          /\ UNCHANGED <<taskVars, scheduleVars, subVars, uiVars, mcpVars, budgetVars, reserveVars>>
       \/ /\ focus = "terminal" /\ TerminalNext
          /\ UNCHANGED <<taskVars, scheduleVars, subVars, memVars, mcpVars, budgetVars, reserveVars>>
       \/ /\ focus = "mcp" /\ McpNext
          /\ UNCHANGED <<taskVars, scheduleVars, subVars, memVars, uiVars, budgetVars, reserveVars>>
       \/ /\ focus = "budget" /\ BudgetNext
          /\ UNCHANGED <<taskVars, scheduleVars, subVars, memVars, uiVars, mcpVars, reserveVars>>
       \/ /\ focus = "reserve" /\ ReserveNext
          /\ UNCHANGED <<taskVars, scheduleVars, subVars, memVars, uiVars, mcpVars, budgetVars>>

\* The fairness of each component, where it is the one that moves.
Fairness ==
    /\ WF_taskVars(focus = "tasks" /\ TickStep)
    /\ \A c \in Callers : WF_taskVars(focus = "tasks" /\ StartStep(c))
    /\ \A r \in 1..MaxTaskRuns :
          WF_taskVars(focus = "tasks" /\ r \in DOMAIN taskRuns /\ DispatchStep(r))
    /\ \A s \in Subs : WF_subVars(focus = "subagents" /\ AwaitStep(s))
    /\ \A r \in 1..MaxRuns : WF_uiVars(focus = "terminal" /\ r \in Runs /\ Publishes(r))
    /\ WF_uiVars(focus = "terminal" /\ TerminalLoop) /\ WF_uiVars(focus = "terminal" /\ AnswerStep)

Spec == Init /\ [][Next]_services /\ Fairness

-----------------------------------------------------------------------------
(* Properties *)

\* What the domain store keeps is true.  Where memories move, a recall gets what it may, and
\* links are of the memory they were made for, whatever commands, extractions and sweeps came
\* before; and budgets are those of the spends and the charges that count against them.
StoreHolds ==
    /\ focus = "memories" => RecallIsSound /\ LinksAreTheirOwn
    /\ focus \in {"budget", "reserve"} => BudgetsHold

\* Whatever happens beside it, a task that is due is started or passed over and said so, a child
\* that completes has heard its steers, a parent told to cancel stops waiting for its child, and
\* the terminal takes prompts again.
EveryWaitEnds == DueIsServed /\ CompletedHeardAll /\ CancelFreesParent /\ BusyEnds
================================================================================
