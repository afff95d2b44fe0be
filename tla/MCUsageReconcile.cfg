SPECIFICATION ReconcileSpec
CONSTANTS
    a = a
    b = b
    c = c
    r1 = r1
    r2 = r2
    w1 = w1
    ours = ours
    theirs = theirs
    None = None
    Fingerprints <- AndForeign
    Units <- AndForeign
    UnitOf <- OwnUnit
    Hopsapi <- AndForeign
    BindingRequired <- Nobody
    Supersedes <- NoSupersedes
    Workers = {w1}
    MaxAttempts = 2
    Episodes <- AndForeign
    EpisodeOf <- OwnUnit
    Reconcilers = {r1, r2}
    OperatorAdopts = TRUE
    Elsewhere <- Foreign
    Keys <- TwoKeys
    KeyOf <- KeyOfHost
    LongLost = FALSE
CONSTRAINT Small
SYMMETRY Reconcilers2
INVARIANTS ReconcileTypeOK TaskBoundOnce WrongPairingNeedsCrash
PROPERTY BuysOnce
