SPECIFICATION Spec
CONSTANTS
    Vehicles = {v1}
    Keys = {k1}
    Requests = {r1}
    ApiThreads = {a1}
    Passwords = {pa, pb}
    MAX_ATTEMPTS = 2
    MayFail = FALSE
    MaxCommits = 2
    MaxRestarts = 0
    Acl = acl
    Absent = absent
    NoKey = nokey
INVARIANT DeletedAccountRevoked
CHECK_DEADLOCK FALSE
