CONSTANTS
    p1 = p1
    p2 = p2
    t1 = t1
    t2 = t2
    x1 = x1
    w1 = w1
    w2 = w2
    r1 = r1
    r2 = r2
    a1 = a1
    a2 = a2
    Sources = {1, 2}
    Passages = {p1, p2}
    Turns = {t1}
    Rewrites = {x1}
    Flagged = {p2, x1}
    Workers = {w1, w2}
    Requests = {r1}
    Admins = {a1}
    AutoPublish = FALSE
    Limits = {1, 2}
    MaxJobs = 2
    MaxReviews = 2
    MaxTurnReviews = 1
    MaxRepeats = 1
    MaxDeaths = 1
    MaxLosses = 1
SYMMETRY Symmetry
SPECIFICATION Spec
CHECK_DEADLOCK FALSE
INVARIANTS TypeOK CapturedFlagsExcluded CitableHasSpeaker CitedOnce
PROPERTIES NoEvidenceGap TasksFollowLifeCycle
