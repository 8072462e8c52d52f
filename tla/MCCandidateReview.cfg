CONSTANTS
    c1 = c1
    c2 = c2
    c3 = c3
    r1 = r1
    r2 = r2
    r3 = r3
    NoCandidate = NoCandidate
    Candidates = {c1, c2, c3}
    Requests = {r1, r2, r3}
SPECIFICATION Spec
CHECK_DEADLOCK FALSE
INVARIANTS TypeOK ApprovedHasSource ApprovalsAudited
PROPERTY BulkAllOrNothing
