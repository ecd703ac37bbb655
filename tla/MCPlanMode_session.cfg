\* A plan of two steps: two requests, a tool call and the supervisor at a time.
SPECIFICATION Spec
CONSTANTS
    Slugs = {p}
    NSteps = 2
    Drafted <- Fresh
    Requests = {r1, r2}
    Calls = {c}
    Supervisor = supervisor
    MaxHandled = 4
    MaxTurns = 2
    MaxFailures = 1
SYMMETRY Symmetry
INVARIANTS WorkIsApproved PlanAgrees MarkedTurnsOwe
CHECK_DEADLOCK FALSE
