CONSTANTS
    p1 = p1
    t1 = t1
    t2 = t2
    w1 = w1
    w2 = w2
    r1 = r1
    r2 = r2
    a1 = a1
    Sources = {1}
    Passages = {p1}
    Turns = {t1, t2}
    Rewrites = {p1}
    Flagged = {t2}
    Workers = {w1, w2}
    Requests = {r1, r2}
    Admins = {a1}
    AutoPublish = FALSE
    Limits = {1}
    MaxJobs = 2
    MaxReviews = 2
    MaxTurnReviews = 0
    MaxRepeats = 0
    MaxDeaths = 1
    MaxLosses = 1
    Script = a1
    ScriptRequest = r1
    BatchSize = 1
    Modes = {"all", "existing_only", "exclude_only"}
    MaxRequests = 1
SPECIFICATION FairScriptSpec
CHECK_DEADLOCK FALSE
INVARIANTS
    ApprovedHasChunk
    TurnsApprovedByAdmin
    EndMeansReviewed
    CitedTurnsLabelled
PROPERTIES
    ScriptEnds
    TasksEnd
