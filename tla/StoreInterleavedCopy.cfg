\* Rewind of a session in which an auxiliary agent run and a turn ran side by side.
SPECIFICATION InterleavedSpec
CONSTANTS
    MaxRequests <- CopyRequests
    Call = {}
    Key = {1, 2}
    Conversation = {}
    AppendKinds = {"UserItem", "SessionCompacted", "RunCompleted"}
    MaxSessions = 1
    MaxRuns = 3
    MaxAuxRuns = 1
    MaxEvents = 12
    MaxExecutorRows = 12
    MaxApprovals = 0
    MaxImported = 0
    MaxCrashes = 0
CHECK_DEADLOCK FALSE
PROPERTIES
    CopyKeepsTranscript
