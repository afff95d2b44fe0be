SPECIFICATION Spec
CONSTANTS
    fp1 = fp1
    fp2 = fp2
    fp3 = fp3
    fp4 = fp4
    unit = unit
    strict = strict
    w1 = w1
    w2 = w2
    None = None
    Fingerprints <- TwoFingerprints
    Units <- OneUnit
    UnitOf <- SameUnit
    Hopsapi <- OnlyFirst
    BindingRequired <- Nobody
    Supersedes <- NoSupersedes
    Workers = {w1, w2}
    MaxAttempts = 2
INVARIANTS TypeOK PaidAtMostOnce ReturnedRowIsBacked
PROPERTIES BuysOnce BoundIsFinal EveryCallReturns
