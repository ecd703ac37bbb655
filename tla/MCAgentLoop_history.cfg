\* Up to three messages to one session, four with the tool calls, a cancel and a fault.
SPECIFICATION Spec
CONSTANTS
    r1 = r1
    r2 = r2
    r3 = r3
    Requests = {r1, r2, r3}
    NoOne = NoOne
    Injects = TRUE
    Concurrent = 2
    MaxIterations = 2
    LiveTurns = {1}
    TaskTurns = 1
    MaxBatch = 3
    MaxWork = 4
    MaxCancels = 1
    MaxFaults = 1
SYMMETRY Symmetry
INVARIANTS PromptsWhole ResultsKnown CancelHonest
CHECK_DEADLOCK FALSE
