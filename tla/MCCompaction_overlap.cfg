\* Automatic, manual and forced compactions of one session, three at most,
\* and an error or a restart.
SPECIFICATION FairSpec
CONSTANTS
    MaxMessages = 3
    Keep = 1
    MaxTurns = 3
    MaxCalls = 1
    MaxRequests = 2
    MaxWork = 2
    MaxMishaps = 1
INVARIANTS MessagesCovered RowsOwned RowTellsTruth ManualWhenIdle
PROPERTIES WatermarkForward RequestsSettle
CHECK_DEADLOCK FALSE
