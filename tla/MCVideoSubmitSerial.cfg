SPECIFICATION Spec
CONSTANTS
    fp1 = fp1
    fp2 = fp2
    fp3 = fp3
    fp4 = fp4
    unit = unit
    strict = strict
    w1 = w1
    w2 = w2
    None = None
    Fingerprints <- FourFingerprints
    Units <- TwoUnits
    UnitOf <- TwoEach
    Hopsapi <- OneOfEach
    BindingRequired <- OnlyStrict
    Supersedes <- LaterSupersede
    Workers = {w1}
    MaxAttempts = 3
CONSTRAINT OneUnitAtATime
PROPERTY LiveTakeNeverReposted
