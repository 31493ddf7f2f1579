SPECIFICATION MCServerSpec
CONSTANTS
    Calls = {1, 2}
    Questions = {2}
    Timed = {2}
    CallId <- ProviderIds
    Steers = {}
    Prompt = prompt
    NoMsg = none
    MaxIterations = 1
PROPERTIES StopsWhenTold DecisionReachesGate
