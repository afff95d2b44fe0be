SPECIFICATION BatchSpec
CONSTANTS
    t1 = t1
    t2 = t2
    w1 = w1
    w2 = w2
    None = None
    Fingerprints <- TwoTasks
    Units <- TwoTasks
    UnitOf <- OwnUnit
    Hopsapi <- Nobody
    BindingRequired <- Nobody
    Supersedes <- NoSupersedes
    Workers = {w1, w2}
    MaxAttempts = 1
PROPERTIES ChargeNeverHidden
