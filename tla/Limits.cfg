SPECIFICATION MCSpec
CONSTANTS
    ip1 = ip1
    Attempts = {k1, k2, k3, k4}
    AdminOps = {a1}
    Ips = {ip1, ip2}
    Users = {alice}
    Types = {"login", "totp"}
    Threshold <- AddressLimit
    UserThreshold <- AccountLimit
    ExtThreshold <- LongerAt
    NoThreshold = NoThreshold
    FailureWindow = 1
    BlockTime = 2
    ExtTime = 3
    UserWindow = 1
    UserTime = 1
    Day = 3
    AdminTime = 2
    MaxInFlight = 2
    MaxClock = 3
    MaxCrashes = 1
    n1 = n1
    b1 = b1
    v1 = v1
    v2 = v2
    v3 = v3
    Vehicles = {v1, v2, v3}
    Interval = 2
    Burst = 2
    MaxTracked = 2
    MaxTime = 7
    Keys = {n1, n2}
    Bodies = {b1, b2}
    Window = 2
    MaxCache = 1
    QueueSize = 1
    Workers = 2
    MaxMessages = 3
SYMMETRY Symmetry
INVARIANTS BlocksFollowRules  RateIsKept 
CHECK_DEADLOCK FALSE
