SPECIFICATION MCSpec
CONSTANTS
    r1 = r1
    r2 = r2
    a2 = a2
    pa = pa
    pb = pb
    Vehicles = {v1}
    Keys = {k1}
    Requests = {r1, r2}
    ApiThreads = {a1, a2}
    Passwords = {pa, pb}
    MAX_ATTEMPTS = 2
    MayFail = TRUE
    MaxCommits = 3
    MaxRestarts = 1
    Acl = acl
    Absent = absent
    NoKey = nokey
INVARIANTS NoLostCorrection KeyEntriesCurrent
PROPERTY Converges
CHECK_DEADLOCK FALSE
