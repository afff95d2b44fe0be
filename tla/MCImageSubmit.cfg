SPECIFICATION ImageSpec
CONSTANTS
    a = a
    b = b
    c = c
    Tasks = {a, b, c}
    Rejects = {a, b}
    Needed = 2
    ProbeCap = 3
    MaxTroubles = 1
    None = None
INVARIANTS ImageTypeOK ImageBoughtOnce TriedRowsAreTrue DeferredOnlyAfterTrouble
PROPERTIES EveryImageArrives
\* Every image may have arrived.
CHECK_DEADLOCK FALSE
