\* Pipelines of one or two steps, one with three; every failure once.
SPECIFICATION Spec
CONSTANTS
    Children = {c1, c2}
    Users = {u1, u2}
    Run = Run
    Worker = Worker
    Definitions <- MCShort
    MaxDefers = 1
    MaxFaults = 1
    MaxRestarts = 1
SYMMETRY MCSymmetry
INVARIANT OneDriver
INVARIANT OrderKept
INVARIANT GateHolds
PROPERTY RunPromise
CHECK_DEADLOCK FALSE
