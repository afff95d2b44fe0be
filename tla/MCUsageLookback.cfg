SPECIFICATION ReconcileSpec
CONSTANTS
    a = a
    b = b
    c = c
    r1 = r1
    r2 = r2
    w1 = w1
    ours = ours
    theirs = theirs
    None = None
    Fingerprints <- TwoTasks
    Units <- TwoTasks
    UnitOf <- OwnUnit
    Hopsapi <- TwoTasks
    BindingRequired <- Nobody
    Supersedes <- NoSupersedes
    Workers = {w1}
    MaxAttempts = 1
    Episodes <- TwoTasks
    EpisodeOf <- OwnUnit
    Reconcilers = {r1, r2}
    OperatorAdopts = FALSE
    Elsewhere <- Nobody
    Keys <- TwoKeys
    KeyOf <- KeyOfHost
    LongLost = TRUE
SYMMETRY Reconcilers2
INVARIANT TaskBoundOnce
