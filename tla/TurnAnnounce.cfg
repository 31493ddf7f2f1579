SPECIFICATION Spec
CONSTANTS
    Calls = {1}
    Questions = {}
    Timed = {}
    CallId <- ProviderIds
    Steers = {s1}
    Prompt = prompt
    NoMsg = none
    MaxIterations = 1
INVARIANTS RequestAnnounced
