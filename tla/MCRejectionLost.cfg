CONSTANTS
    p1 = p1
    p2 = p2
    t1 = t1
    t2 = t2
    x1 = x1
    w1 = w1
    w2 = w2
    r1 = r1
    r2 = r2
    a1 = a1
    a2 = a2
    Sources = {1}
    Passages = {p1}
    Turns = {t1}
    Rewrites = {x1}
    Flagged = {}
    Workers = {w1}
    Requests = {r1}
    Admins = {a1, a2}
    AutoPublish = FALSE
    Limits = {1}
    MaxJobs = 1
    MaxReviews = 1
    MaxTurnReviews = 2
    MaxRepeats = 0
    MaxDeaths = 0
    MaxLosses = 0
SPECIFICATION Spec
CHECK_DEADLOCK FALSE
PROPERTY RejectionStands
