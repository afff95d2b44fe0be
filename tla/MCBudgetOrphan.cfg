\* Three steps, three tasks, a cap of two; steps and submitters are killed at any time.
CONSTANTS
    s1 = s1
    s2 = s2
    s3 = s3
    a = a
    b = b
    c = c
    Steps = {s1, s2, s3}
    Tasks = {a, b, c}
    Plan <- Overlap
    Cap = 2
SPECIFICATION Spec
INVARIANT InFlightNeverSettled
\* Every step may have stopped with nothing left to settle.
CHECK_DEADLOCK FALSE
