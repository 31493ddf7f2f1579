SPECIFICATION Spec
CONSTANTS
    Tasks = {t1}
    TaskKeys = {k1}
    TaskKinds <- EditedKinds
    FirstTasks <- StartingKinds
    LastInstant = 2
    MaxTaskRuns = 2
    MaxTaskEdits = 1
    FailureCeiling = 1
    MisfireGrace = 0
    Interval = 1
    RunAt = 1
    CronStep = 2
    QuietInstants = {2}
    Schedules <- SampleSchedules
    MaxFirings = 3
    Days <- SampleDays
    Subs = {c1}
    Sends = {m1}
    LaunchPlans <- SampleLaunches
    MaxCancels = 1
    Texts <- SampleTexts
    Overlap <- SampleOverlap
    Projects <- SampleProjects
    Names <- SampleNames
    Ranks <- SampleRanks
    FirstItems <- SampleItems
    Extractions <- SampleExtractions
    Keys = {"plan", "notes"}
    MaxItems = 3
    MaxCommands = 2
    SweepDays = {0, 31}
    EntityLimit = 1
    PreferenceLimit = 2
    Sessions = {s1, s2}
    Scripts <- SampleScripts
    Capacity = 2
    MaxRuns = 2
    MaxKeys = 3
    McpOffers <- SampleOffers
    McpToolName <- SampleToolNames
    McpSituations <- SampleSituations
    BudgetCallers = {"client"}
    BudgetRequests <- SampleAsks
    FirstBudgets <- SampleBudgets
    SpendInstants <- SampleInstants
    SpendCosts = {5}
    MaxSpends = 2
    ReserveCallers = {l1, l2}
    ReserveDeltas <- SampleCharges
    LimitChoices <- SampleLimits
    CounterMax = 7
    NoLimit = nolimit
INVARIANTS KeyRunsOnce OutcomesAgree StoreHolds ViewIsReplay McpHolds
PROPERTIES NextIsEarliest EndsStay EveryWaitEnds
CHECK_DEADLOCK FALSE
