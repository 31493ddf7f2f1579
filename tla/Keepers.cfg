SPECIFICATION Spec
CONSTANTS
    req1 = req1
    req2 = req2
    Subs = {c1, c2}
    Sends = {}
    LaunchPlans <- ResearchLaunches
    MaxCancels = 1
    MaxConcurrent = 1
    Resolvers = {req1, req2}
    Requests <- SampleRequests
    DenyAll = "deny_all"
    MaxRuleEdits = 1
    Files = {"a", "b"}
    Batches <- SampleBatches
    MaxCalls = 3
    MaxEdits = 1
    Costs = {1, 2}
    Window = 6
    Trigger = 5
    MaxReserve = 2
    KeepLast = 2
    Threshold = 3
    Keep = 1
    MaxEvents = 7
    MaxSteers = 1
    MaxManual = 1
    Users = {"cli", "server"}
    Plugins = {"p"}
    Contents = {"h1", "h2"}
    MaxCommands = 4
    MaxFaults = 2
    MaxMirrored = 3
    MaxSweep = 2
    MaxMishaps = 1
    login1 = login1
    login2 = login2
    use1 = use1
    use2 = use2
    driver1 = driver1
    driver2 = driver2
    Logins = {login1, login2}
    LoginBy <- SampleLoginBy
    Drivers = {driver1, driver2}
    ModelUses = {use1, use2}
    DriverOf <- SampleDriverOf
    Rotating = {login1}
    NoBundle = nobundle
    MaxRenewals = 2
    MaxLosses = 1
    Scripts <- SampleScripts
    FeedKeeps = 2
    Transcripts <- SampleTranscripts
    PageSizes = {1, 2, 5}
    ScanLimit = 8
    FrameRoom = 3
    Cuts = {0, 7}
    LegacyRows <- SampleRows
    EditCalls = {"e1", "e2"}
    EditBatches <- SampleEdits
    Protected = {"policy"}
    NoText = notext
    MaxHops = 3
    Context = 1
    MaxDistance = 4
    DiffLimit = 6
INVARIANTS ChildrenBounded  FilesHold HistoryHolds NoPhantom MirrorIsTrue StoredLoginLives CommandsHold
CHECK_DEADLOCK FALSE
