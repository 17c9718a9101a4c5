SPECIFICATION Spec
CONSTANTS
    Vehicles = {v1}
    Keys = {k1}
    Requests = {}
    ApiThreads = {a1, a2}
    Passwords = {pa}
    MAX_ATTEMPTS = 2
    MayFail = FALSE
    MaxCommits = 2
    MaxRestarts = 0
    Acl = acl
    Absent = absent
    NoKey = nokey
INVARIANT RevokedKeyDropped
CHECK_DEADLOCK FALSE
