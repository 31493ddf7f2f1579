SPECIFICATION Spec
CONSTANTS
    Calls = {1, 2}
    Questions = {}
    Timed = {}
    CallId <- CountedIds
    Steers = {}
    Prompt = prompt
    NoMsg = none
    MaxIterations = 2
INVARIANTS ApprovedForItself
