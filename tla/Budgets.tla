------------------------------- MODULE Budgets --------------------------------
(* Budgets and what is charged to them.  The legacy budget (cool-store             *)
(* domains/budgets.rs and its handlers in legacy/admin.rs) is one row and a log of *)
(* what each call of a model cost; its status is read in four sections of the      *)
(* store's lock, between which the mirror logs more, other handlers change the row *)
(* and the day may end.  The durable budget (cool-state reserve_budget) is a set   *)
(* of limits and counters of a window that every run charges in one transaction.   *)
(* Costs are whole micro-dollars; a threshold is in hundredths of a percent.       *)
EXTENDS CivilDates, Sequences, FiniteSetsExt

CONSTANTS
    BudgetCallers,    \* handlers of budget commands
    BudgetRequests,   \* [do, update, until]: what each of them may be asked
    FirstBudgets,     \* the rows earlier commands left, or NoLimit
    SpendInstants,    \* the instants the clock takes
    SpendCosts,       \* what a call of a model may have cost
    MaxSpends,        \* bound: spends logged
    ReserveCallers,   \* loops that charge one window
    ReserveDeltas,    \* [tokens, cost, iterations]: what they may charge
    LimitChoices,     \* [tokens, cost, iterations]: the window's limits
    CounterMax,       \* the largest integer of a column
    NoLimit           \* an absent limit, cost, row or instant

ASSUME BudgetAssumption ==
    /\ MaxSpends \in Nat /\ CounterMax \in Nat /\ SpendCosts \subseteq Nat
    /\ SpendInstants \subseteq Int /\ NoLimit \notin Int

VARIABLES budget, spends, clock, statusCalls, limits, counters, charges
budgetVars == <<budget, spends, clock, statusCalls>>
reserveVars == <<limits, counters, charges>>

Windows == {"daily", "weekly", "monthly"}
NewBudget ==
    [limit |-> [w \in Windows |-> NoLimit], threshold |-> 8000, block |-> TRUE, until |-> NoLimit]
\* The row a command finds or makes (ensure_budget).
EnsuredBudget == IF budget = NoLimit THEN NewBudget ELSE budget

-----------------------------------------------------------------------------
(* The status: pure functions of the row, the log and the instant *)

\* Mutant: weeks start on Sunday.
WindowStartSunday(w, at) ==
    LET date == CivilDate(at \div SecondsPerDay)
    IN  CASE w = "daily" -> StartOfDay(at)
          [] w = "weekly" -> StartOfDay(at) - ((Weekday(date) + 1) % 7) * SecondsPerDay
          [] w = "monthly" -> DaysFromCivil(date.year, date.month, 1) * SecondsPerDay
WindowStart(w, at) ==
    LET date == CivilDate(at \div SecondsPerDay)
    IN  CASE w = "daily" -> StartOfDay(at)
          [] w = "weekly" -> StartOfDay(at) - Weekday(date) * SecondsPerDay
          [] w = "monthly" -> DaysFromCivil(date.year, date.month, 1) * SecondsPerDay

\* What the first n rows of the log that satisfy Counts cost.
Spent(Counts(_), n) == MapThenSumSet(LAMBDA i : spends[i].cost, {i \in 1..n : Counts(spends[i].at)})
SpendSummary(since) == Spent(LAMBDA at : at >= since, Len(spends))

\* Percentages are rounded to two decimals before they meet the threshold.
Pct(spent, limit) == IF limit > 0 THEN (20000 * spent + limit) \div (2 * limit) ELSE 0
StatusOf(row, spent, now) ==
    LET limited == {w \in Windows : row.limit[w] # NoLimit}
        exceeded == \E w \in limited : spent[w] >= row.limit[w]
        alerted == \E w \in limited : Pct(spent[w], row.limit[w]) >= row.threshold
        overridden == row.until # NoLimit /\ row.until > now
    IN  IF exceeded /\ row.block /\ ~overridden THEN "blocked"
        ELSE IF alerted THEN "alert" ELSE "ok"

-----------------------------------------------------------------------------
(* Commands of the budget.  A call's "at" says what it does next.          *)

IdleCall == [at |-> "idle", now |-> NoLimit, row |-> NewBudget, spent |-> [w \in Windows |-> 0],
             status |-> "", logged |-> 0]
\* The instants of the log's length tell what was there when the status began to be read.

BudgetInit ==
    /\ budget \in FirstBudgets /\ spends = << >>
    /\ clock = Min(SpendInstants)
    /\ statusCalls = [c \in BudgetCallers |-> IdleCall]

\* validate_update.  Mutant: the threshold has no upper bound.
ValidUpdateUnbounded(update) == \A f \in DOMAIN update \ {"block"} : update[f] >= 0
ValidUpdate(update) ==
    /\ \A f \in DOMAIN update \ {"block"} : update[f] >= 0
    /\ "threshold" \in DOMAIN update => update.threshold <= 10000
\* Only the fields of the update change; a limit cannot be taken away.
Updated(row, update) ==
    LET Given(f, old) == IF f \in DOMAIN update THEN update[f] ELSE old
    IN  [row EXCEPT !.limit = [w \in Windows |-> Given(w, @[w])],
                    !.threshold = Given("threshold", @), !.block = Given("block", @)]

\* A handler refuses or writes the row, in one section; the status follows.
BudgetCommand(c, r) ==
    /\ statusCalls[c].at = "idle"
    /\ LET refused == \/ r.do = "update" /\ ~ValidUpdate(r.update)
                      \/ r.do = "override" /\ r.until <= clock
       IN  /\ statusCalls' = [statusCalls EXCEPT ![c].at = IF refused THEN "refused" ELSE "reckon"]
           /\ budget' = CASE refused \/ r.do = "get" -> budget
                          [] r.do = "update" /\ ~refused -> Updated(EnsuredBudget, r.update)
                          [] r.do = "override" /\ ~refused -> [EnsuredBudget EXCEPT !.until = r.until]
                          [] r.do = "clear" -> [EnsuredBudget EXCEPT !.until = NoLimit]
    /\ UNCHANGED <<spends, clock>>

\* now_seconds(), before the status is read.
Reckon(c) ==
    /\ statusCalls[c].at = "reckon"
    /\ statusCalls' = [statusCalls EXCEPT ![c].at = "row", ![c].now = clock, ![c].logged = Len(spends)]
    /\ UNCHANGED <<budget, spends, clock>>

\* get_budget; without a row the defaults hold.
ReadRow(c) ==
    /\ statusCalls[c].at = "row"
    /\ statusCalls' = [statusCalls EXCEPT ![c].at = "daily", ![c].row = EnsuredBudget]
    /\ UNCHANGED <<budget, spends, clock>>

\* The windows are summed up one after the other, each in a section of its own.
\* Mutant: the longest window is read first.
ReadOrderLongest == <<"monthly", "weekly", "daily">>
ReadOrder == <<"daily", "weekly", "monthly">>
Place(w) == CASE w = "daily" -> 1 [] w = "weekly" -> 2 [] w = "monthly" -> 3
SumWindow(c) ==
    LET call == statusCalls[c]
    IN  /\ call.at \in Windows
        /\ LET window == ReadOrder[Place(call.at)]
               sums == [call.spent EXCEPT ![window] = SpendSummary(WindowStart(window, call.now))]
               next == CASE call.at = "daily" -> "weekly" [] call.at = "weekly" -> "monthly"
                         [] call.at = "monthly" -> "done"
           IN  statusCalls' = [statusCalls EXCEPT ![c].at = next, ![c].spent = sums,
                    ![c].status = IF next = "done" THEN StatusOf(call.row, sums, call.now) ELSE ""]
    /\ UNCHANGED <<budget, spends, clock>>

\* The mirror logs a call of a model at the instant its event occurred, perhaps long after.
LogSpend(at, cost) ==
    /\ Len(spends) < MaxSpends /\ at <= clock
    /\ spends' = Append(spends, [at |-> at, cost |-> cost])
    /\ UNCHANGED <<budget, clock, statusCalls>>

ClockMoves ==
    /\ \E at \in SpendInstants : at > clock /\ clock' = at
    /\ UNCHANGED <<budget, spends, statusCalls>>

BudgetNext ==
    \/ \E c \in BudgetCallers :
          \/ \E r \in BudgetRequests[c] : BudgetCommand(c, r)
          \/ Reckon(c) \/ ReadRow(c) \/ SumWindow(c)
    \/ \E at \in SpendInstants, cost \in SpendCosts : LogSpend(at, cost)
    \/ ClockMoves

-----------------------------------------------------------------------------
(* reserve_budget: every charge of a window is one transaction.            *)

Counted == {"tokens", "cost", "iterations"}
ReserveInit ==
    /\ limits \in LimitChoices
    /\ counters = [f \in Counted |-> 0]
    /\ charges = [c \in ReserveCallers |-> << >>]

\* An unknown cost counts as nothing, and is refused where costs have a ceiling.
Charged(delta) == [f \in Counted |-> IF delta[f] = NoLimit THEN 0 ELSE delta[f]]
NextCounters(delta) == [f \in Counted |-> counters[f] + Charged(delta)[f]]
\* Mutants: the counters as they were meet the limit; an unknown cost is let through.
ExceedsLate(delta) ==
    \/ limits["cost"] # NoLimit /\ delta["cost"] = NoLimit
    \/ \E f \in Counted : limits[f] # NoLimit /\ counters[f] > limits[f]
ExceedsKnown(delta) == \E f \in Counted : limits[f] # NoLimit /\ NextCounters(delta)[f] > limits[f]
Exceeds(delta) ==
    \/ limits["cost"] # NoLimit /\ delta["cost"] = NoLimit
    \/ \E f \in Counted : limits[f] # NoLimit /\ NextCounters(delta)[f] > limits[f]

Reserve(c, delta) ==
    /\ Len(charges[c]) < 2
    /\ LET next == NextCounters(delta)
           corrupt == \E f \in Counted : next[f] > CounterMax
           granted == ~Exceeds(delta) /\ ~corrupt
       IN  /\ counters' = IF granted THEN next ELSE counters
           /\ charges' = [charges EXCEPT ![c] = Append(@, [delta |-> delta, granted |-> granted])]
    /\ UNCHANGED limits

ReserveNext == \E c \in ReserveCallers, delta \in ReserveDeltas : Reserve(c, delta)

-----------------------------------------------------------------------------
(* Properties *)

Done == {c \in BudgetCallers : statusCalls[c].at = "done"}

\* An instant is in the period of now, told by the calendar and not by where the period
\* starts: the same day, the days of one week from Monday to Sunday, the same month.
SamePeriod(w, at, now) ==
    LET thatDay == at \div SecondsPerDay
        today == now \div SecondsPerDay
        date == CivilDate(thatDay)
        date2 == CivilDate(today)
        early == Min({thatDay, today})
        late == CHOOSE d \in {thatDay, today} : d >= thatDay /\ d >= today
    IN  CASE w = "daily" -> thatDay = today
          [] w = "weekly" -> late - early < 7 /\ \A d \in early + 1..late : Weekday(CivilDate(d)) # 0
          [] w = "monthly" -> <<date.year, date.month>> = <<date2.year, date2.month>>

\* The status a client is given was true: what it says was spent in a period is at least
\* what the log held of that period when the status began to be read, and at most what it
\* holds of it and of later now; whatever was logged, and whichever day began, meanwhile.
StatusWasTrue ==
    \A c \in Done, w \in Windows :
        LET call == statusCalls[c]
            InPeriod(at) == SamePeriod(w, at, call.now)
            OrLater(at) == InPeriod(at) \/ at > call.now
        IN  /\ Spent(InPeriod, call.logged) <= call.spent[w]
            /\ call.spent[w] <= Spent(OrLater, Len(spends))

\* No status shows more spent today than this week or this month, although the three are
\* read one after the other while the log grows.
WindowsNest ==
    \A c \in Done : \A w \in {"weekly", "monthly"} : statusCalls[c].spent["daily"] <= statusCalls[c].spent[w]

\* A budget that is used up never looks fine, overridden or not blocking as it may be: what
\* updates may store as the alert threshold keeps the alert below the limit (budget_status).
ExceededIsSeen ==
    \A c \in Done : LET call == statusCalls[c]
                    IN  (\E w \in Windows : /\ call.row.limit[w] # NoLimit /\ call.row.limit[w] > 0
                                            /\ call.spent[w] >= call.row.limit[w])
                            => call.status # "ok"

\* However many loops charge one window: the counters are what was granted, no counter
\* passes its limit or its column, and with a ceiling on costs every cost is known.
ReservesFit ==
    /\ \A f \in Counted :
          /\ counters[f] = MapThenSumSet(
                LAMBDA x : Charged(charges[x[1]][x[2]].delta)[f],
                {x \in ReserveCallers \X (1..2) : x[2] \in DOMAIN charges[x[1]] /\ charges[x[1]][x[2]].granted})
          /\ counters[f] <= CounterMax
          /\ limits[f] # NoLimit => counters[f] <= limits[f]
    /\ limits["cost"] # NoLimit =>
          \A c \in ReserveCallers : \A i \in DOMAIN charges[c] :
              charges[c][i].granted => charges[c][i].delta["cost"] # NoLimit

BudgetsHold == StatusWasTrue /\ WindowsNest /\ ExceededIsSeen /\ ReservesFit

BudgetSpec == BudgetInit /\ ReserveInit /\ [][\/ BudgetNext /\ UNCHANGED reserveVars
                                              \/ ReserveNext /\ UNCHANGED budgetVars]_<<budgetVars, reserveVars>>
=============================================================================
