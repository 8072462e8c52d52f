CONSTANTS
    p1 = p1
    p2 = p2
    t1 = t1
    x1 = x1
    w1 = w1
    r1 = r1
    a1 = a1
    Sources = {1, 2}
    Passages = {p1, p2}
    Turns = {t1}
    Rewrites = {x1}
    Flagged = {p2, x1}
    Workers = {w1}
    Requests = {r1}
    Admins = {a1}
    AutoPublish = TRUE
    Limits = {1}
    MaxJobs = 2
    MaxReviews = 2
    MaxTurnReviews = 0
    MaxRepeats = 0
    MaxDeaths = 0
    MaxLosses = 0
    SearchLimit = 3
    PerWork = 2
    RankConstant = 60
SPECIFICATION AskSpec
CHECK_DEADLOCK FALSE
INVARIANTS
    AskTypeOK
    AnswersWereCitable
    AnswersFlagsExcluded
    ResultsDiverse
    RankingsRespected
    AnswerCitesOnce
