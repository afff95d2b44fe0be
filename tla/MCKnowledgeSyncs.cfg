SPECIFICATION ReleaseSpec
CONSTANTS
    a = a
    b = b
    c1 = c1
    c2 = c2
    s1 = s1
    s2 = s2
    Bundles = {a}
    Versions = {1, 2}
    Cycles = {c1}
    Syncs = {s1, s2}
    MaxHistory = 2
    MaxRevoked = 2
    MaxFaults = 0
PROPERTIES RevokedLeavesDevice DeviceFollows
CHECK_DEADLOCK FALSE
