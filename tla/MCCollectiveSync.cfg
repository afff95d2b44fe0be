SPECIFICATION SyncSpec
CONSTANTS
    e1 = e1
    e2 = e2
    r1 = r1
    u1 = u1
    c1 = c1
    c2 = c2
    Events <- TwoEvents
    Reviews <- OneReview
    Cites <- OfTheFirst
    Uploaders = {u1}
    Collectors = {c1, c2}
    BatchSize = 2
    MaxFaults = 1
CONSTRAINT TwoRows
INVARIANTS SyncTypeOK DeliveredIsPersisted RefusedOnlyAfterFault
PROPERTIES TransfersReliably FactsDelivered
\* Every row may be settled and the inbox empty.
CHECK_DEADLOCK FALSE
