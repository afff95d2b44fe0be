SPECIFICATION ReleaseSpec
CONSTANTS
    a = a
    b = b
    c1 = c1
    c2 = c2
    s1 = s1
    s2 = s2
    Bundles = {a, b}
    Versions = {1}
    Cycles = {c1, c2}
    Syncs = {s1, s2}
    MaxHistory = 2
    MaxRevoked = 2
    MaxFaults = 1
CONSTRAINT FewActs
INVARIANTS ReleaseTypeOK ChannelNotRevoked
PROPERTIES RevocationsOnlyGrow BucketFollows RevokedLeavesDevice DeviceFollows
CHECK_DEADLOCK FALSE
