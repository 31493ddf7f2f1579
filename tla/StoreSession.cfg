\* One session: two turns and an auxiliary run with steers and cancels, or one turn with two
\* approval tickets that users and timeouts decide; a crash at any point.
SPECIFICATION SessionSpec
CONSTANTS
    MaxRequests <- SessionRequests
    Call = {1, 2}
    Key = {1, 2}
    Conversation = {}
    AppendKinds = {"RunStarted", "AssistantItem", "RunCompleted", "ToolFailed"}
    MaxSessions = 1
    MaxRuns = 3
    MaxAuxRuns = 1
    MaxEvents = 5
    MaxExecutorRows = 5
    MaxApprovals = 2
    MaxImported = 0
    MaxCrashes = 1
CHECK_DEADLOCK FALSE
INVARIANTS
    TypeOK
    OneLiveTurn
    KeysMatchEffects
    ApprovalLedger
    CancelHonoured
