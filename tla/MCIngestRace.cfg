CONSTANTS
    r1 = r1
    r2 = r2
    w1 = w1
    w2 = w2
    c1 = c1
    c2 = c2
    NoCaption = NoCaption
    NumSources = 2
    MaxJobs = 2
    Requests <- TwoRequests
    Workers <- TwoWorkers
    Captions = {c1}
    MaxDay = 2
    Limits = {1}
    BlockLimit = 1
    ZyteBatchMax = 1
    MaxBatches = 2
    MaxDuplicates = 1
    MaxDeaths = 1
    MaxLosses = 1
SYMMETRY Symmetry
SPECIFICATION Spec
PROPERTY JobsFollowLifeCycle
CHECK_DEADLOCK FALSE
INVARIANTS
    TypeOK
    SucceededHasEvidence
    EvidenceIsStored
    VersionsContiguous
    ActiveJobHasOwner
    CooldownOvershoot
    IngestedOnce
