\* Two asks of any kind, two concurrent decisions, a cancel, and a failing
\* commit or a restart.
SPECIFICATION FairSpec
CONSTANTS
    MaxAsks = 2
    Turns <- MCTurns
    MaxDecisions = 2
    MaxWork = 3
    Stoppers = {s1}
    MaxMishaps = 1
INVARIANTS RunsOnConsent RecordsAgree AnswersContinueOnce
PROPERTY AsksClose
CHECK_DEADLOCK FALSE
