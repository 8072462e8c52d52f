CONSTANTS
    r1 = r1
    r2 = r2
    w1 = w1
    w2 = w2
    c1 = c1
    c2 = c2
    NoCaption = NoCaption
    NumSources = 1
    MaxJobs = 2
    Requests <- TwoRequests
    Workers <- TwoWorkers
    Captions = {c1}
    MaxDay = 1
    Limits = {1}
    BlockLimit = 1
    ZyteBatchMax = 1
    MaxBatches = 2
    MaxDuplicates = 1
    MaxDeaths = 1
    MaxLosses = 0
SPECIFICATION FairSpec
CHECK_DEADLOCK FALSE
PROPERTY JobsEnd
