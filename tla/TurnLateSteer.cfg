SPECIFICATION Spec
CONSTANTS
    Calls = {}
    Questions = {}
    Timed = {}
    CallId <- ProviderIds
    Steers = {s1}
    Prompt = prompt
    NoMsg = none
    MaxIterations = 1
INVARIANTS SteersConsumed
