SPECIFICATION Spec
CONSTANTS
    Calls = {1}
    Questions = {1}
    Timed = {1}
    CallId <- ProviderIds
    Steers = {}
    Prompt = prompt
    NoMsg = none
    MaxIterations = 2
INVARIANTS NoStaleQuestion
