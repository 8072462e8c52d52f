CONSTANTS
    r1 = r1
    r2 = r2
    w1 = w1
    w2 = w2
    c1 = c1
    c2 = c2
    NoCaption = NoCaption
    NumSources = 2
    MaxJobs = 2
    Requests <- OneRequest
    Workers <- OneWorker
    Captions = {c1}
    MaxDay = 1
    Limits = {2}
    BlockLimit = 3
    ZyteBatchMax = 2
    MaxBatches = 4
    MaxDuplicates = 0
    MaxDeaths = 0
    MaxLosses = 0
SPECIFICATION HSpec
CHECK_DEADLOCK FALSE
PROPERTY CooldownKept
