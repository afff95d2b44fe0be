SPECIFICATION ReleaseSpec
CONSTANTS
    a = a
    b = b
    c1 = c1
    c2 = c2
    s1 = s1
    s2 = s2
    Bundles = {a}
    Versions = {1, 2, 3, 4}
    Cycles = {}
    Syncs = {}
    MaxHistory = 5
    MaxRevoked = 3
    MaxFaults = 0
INVARIANTS FallsBackToValid
CHECK_DEADLOCK FALSE
