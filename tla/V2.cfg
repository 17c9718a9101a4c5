SPECIFICATION Spec
CONSTANTS
    Cars = {c1, c2}
    Apps = {a1, a2}
    Commands = {k1, k2, k3}
    Codes = {n1}
    MaxData = 2
    NoConn = noconn
    NoCmd = nocmd
INVARIANTS NewestIsRegistered PeersKnowStatus AppsShowNewest PendingIsWaiting
CONSTRAINT InScene
SYMMETRY Symmetry
CHECK_DEADLOCK FALSE
