\* Two messages to one session, with two errors, a cancel and a restart.
SPECIFICATION FairSpec
CONSTANTS
    Requests = {r1, r2}
    NoOne = NoOne
    RateLimitRetries = 1
    MaxFaults = 2
    MaxCancels = 1
    MaxRestarts = 1
INVARIANT LockIsTheRun
INVARIANT CancelHitsItsRun
INVARIANT StartsAccounted
INVARIANT ChatTurnsWhole
PROPERTY EveryMessageSettles
CHECK_DEADLOCK FALSE
