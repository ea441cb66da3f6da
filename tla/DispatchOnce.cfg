\* Five signals over a queue of two, with failures and the rule's end.
SPECIFICATION FairSpec
CONSTANTS
    MaxEvents = 5
    QueueSize = 2
    Persistent = TRUE
    MayEnd = TRUE
INVARIANTS TypeOK EachEventOnce
PROPERTIES DeliversOnce EveryEventSettles
\* With the last signal handled, nothing more happens.
CHECK_DEADLOCK FALSE
