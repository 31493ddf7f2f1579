SPECIFICATION Spec
CONSTANTS
    Conns = {"o", "f"}
    Followers = {"f"}
    Owner = "o"
    Handlers = {"handler"}
    MaxSeq = 3
    Buffer = 1
    PageLimit = 1
    MaxReopens = 1
    StepCount = 3
    Executions = {e1, e2}
    Graphs <- SampleGraphs
    Delegations <- SampleDelegations
    MaxClientCalls = 2
    MaxPlanCrashes = 1
    pr1 = pr1
    pr2 = pr2
    AcpPrompts = {pr1, pr2}
    NoPrompt = none
    MaxRunLog <- SampleRunLogs
    Slots = 1
    AcpPage = 2
    MaxAcpCancels = 1
    MaxMisreads = 1
    Wires <- SampleWires
    MaxRetries = 2
    Hooks <- SampleHooks
    Reviews <- SampleReviews
    WorkerCalls = {"w1", "w2", "w3"}
    MaxRestarts = 3
    MaxExpiries = 1
    Sends <- SampleSends
    QueueRoom = 1
    MaxInFlight = 2
    Programs <- SamplePrograms
    PipeRoom = 2
    ChunkMax = 2
    HeadCap = 3
    TailCap = 2
    DiagnosticsCap = 4
    MaxOutput = 5
    HeadShown = 3
    MarkerRoom = 1
    PathLength = 1
INVARIANTS OnlyOvertakenMissed AnswerIsWhole SkipsOnlyCycles ShownInOrder ProcessHolds ExtensionsHold ConnectionHolds
PROPERTY EveryFollowerEnds
CHECK_DEADLOCK FALSE
