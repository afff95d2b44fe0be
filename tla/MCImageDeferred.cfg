SPECIFICATION ImageSpec
CONSTANTS
    a = a
    b = b
    c = c
    Tasks = {a, b, c}
    Rejects = {a, b}
    Needed = 2
    ProbeCap = 3
    MaxTroubles = 1
    None = None
INVARIANT DeferredIsUncharged
\* Every image may have arrived.
CHECK_DEADLOCK FALSE
