\* The smallest instance in which a compaction forgets messages.
SPECIFICATION Spec
CONSTANTS
    MaxMessages = 3
    Keep = 1
    MaxTurns = 1
    MaxCalls = 1
    MaxRequests = 1
    MaxWork = 2
    MaxMishaps = 0
INVARIANTS NothingForgotten
CHECK_DEADLOCK FALSE
