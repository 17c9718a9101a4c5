SPECIFICATION MCSpec
CONSTANTS
    Scenes <- AllScenes
    m1 = m1
    m2 = m2
    Messages = {m1, m2}
    priority <- HighAndNormal
    Producers = {p1, p2}
    Threads = {t1, t2}
    workers = 1
    maxsize = 1
    normal_priority_limit = 1
    max_attempts = 2
    retries = 3
    maxErrors = 2
    NoMessage = NoMessage
    Notes = {n1}
    Devices = {d1, d2}
    MaxAttempts = 3
    MaxPending = 1
    Workers = 2
    MaxTokens = 2
    MaxRows = 3
    Published <- MCPublished
    Sent <- MCSent
    Ages <- MCAges
    StopsEver = TRUE
INVARIANTS  EveryTargetOnce ShownIsReported
PROPERTIES MailResolved  NewestIsShown
CHECK_DEADLOCK FALSE
