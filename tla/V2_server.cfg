SPECIFICATION MCSpec
CONSTANTS
    Cars = {c1, c2}
    Apps = {}
    Commands = {k1}
    Codes = {n1}
    MaxData = 0
    NoConn = noconn
    NoCmd = nocmd
    s1 = s1
    s2 = s2
    s3 = s3
    s4 = s4
    r1 = r1
    r2 = r2
    a = a
    b = b
    NoSocket = nosocket
    Sockets <- MCSockets
    Ips = {a, b}
    Ip <- MCIp
    MaxTotal = 4
    MaxPerIp = 2
    InitialAuth = 3
    CarIdle = 5
    AppIdle = 6
    Grace = 1
    CheckInterval = 2
    CheckLag = 1
    PingInterval = 2
    MaxBlanks = 3
    Horizon = 12
INVARIANTS SlotsAccounted AuthenticationWindow 
PROPERTIES WaitersProceed  
CHECK_DEADLOCK FALSE
