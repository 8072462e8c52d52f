CONSTANTS
    r1 = r1
    r2 = r2
    w1 = w1
    w2 = w2
    c1 = c1
    c2 = c2
    NoCaption = NoCaption
    NumSources = 1
    MaxJobs = 1
    Requests <- OneRequest
    Workers <- OneWorker
    Captions = {c1}
    MaxDay = 1
    Limits = {1}
    BlockLimit = 3
    ZyteBatchMax = 1
    MaxBatches = 1
    MaxDuplicates = 0
    MaxDeaths = 0
    MaxLosses = 1
SPECIFICATION Spec
CHECK_DEADLOCK FALSE
INVARIANT UnprocessedCanBeQueued
