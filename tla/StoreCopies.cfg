\* Up to two turns with compaction markers, forked and rewound in any order, up to three
\* runs; or links and imports beside live runs, and start-up after up to two crashes, the
\* second possibly in the middle of recovery.
SPECIFICATION CopySpec
CONSTANTS
    MaxRequests <- CopyRequests
    Call = {1}
    Key = {1, 2}
    Conversation = {c1, c2}
    AppendKinds = {"UserItem", "SessionCompacted", "RunCompleted", "AssistantItem"}
    MaxSessions = 2
    MaxRuns = 3
    MaxAuxRuns = 1
    MaxEvents = 12
    MaxExecutorRows = 6
    MaxApprovals = 1
    MaxImported = 1
    MaxCrashes = 2
CHECK_DEADLOCK FALSE
PROPERTIES
    CopyKeepsTranscript
    RunsFollowLifecycle
    RecoveryCompletes
    RecoveryLeavesNoLiveRun
    LinksStable
