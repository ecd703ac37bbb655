\* Two turns, one message each, a channel bound to an integration that can
\* show it or to one that cannot; batches of two that a crash can cut short,
\* retries and database errors.
SPECIFICATION FairSpec
CONSTANTS
    slack = slack
    lamp = lamp
    Turns = {t1, t2}
    Records = {m1}
    Targets <- MCTargets
    Bindings <- MCBindings
    Capable <- MCCapable
    NoRow = NoRow
    DeadLetterAfter = 2
    DeferLimit = 1
    FetchLimit = 2
    MaxCrashes = 1
    MaxFaults = 1
INVARIANTS InFlightIsHeld RetriesBounded DeadLettersTold FirstTriesInOrder
PROPERTIES EveryRowSettles DeliveryPromise
CHECK_DEADLOCK FALSE
