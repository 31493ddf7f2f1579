SPECIFICATION MCSpec
CONSTANTS
    Calls = {1, 2}
    Questions = {2}
    Timed = {2}
    CallId <- ProviderIds
    Steers = {s1, s2}
    Prompt = prompt
    NoMsg = none
    MaxIterations = 2
INVARIANTS CallsAnsweredOnce ConsentBeforeEffect SteersInOrder
PROPERTIES TurnEnds
