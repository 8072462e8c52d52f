CONSTANTS
    k1 = k1
    l1 = l1
    l2 = l2
    c1 = c1
    c2 = c2
    Keys = {k1}
    Logins = {l1, l2}
    Calls = {c1}
    Limit = 2
    Window = 2
    Ttl = 2
    MaxTime = 4
    MaxRotations = 1
SYMMETRY Symmetry
SPECIFICATION SessionsSpec
CHECK_DEADLOCK FALSE
INVARIANTS
    WindowLimit
    RefusedWhenFull
    OldSessionsRevoked
    ActsWithLiveSession
