SPECIFICATION MCSpec
CONSTANTS
    Workers = {w1, w2}
    Producers = {p1, p2}
    Jobs = {1, 2, 3}
    maxsize = 2
    Policies = {"block", "drop_oldest", "drop_newest"}
    NoJob = NoJob
    NoThread = NoThread
INVARIANTS SomeWorkerAwake
PROPERTIES KeepsPromise QueuedLeaves WorkersExit
CHECK_DEADLOCK FALSE
