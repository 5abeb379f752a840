SPECIFICATION Spec
CONSTANTS
    c1 = c1
    c2 = c2
    Clients <- MCClients
    HeadSize = 2
    BodySize = 1
    BufSize = 3
    SocketSize = 2
    RetryLimit = 2
    PacketLimit = 3
    MaxSessions = 1
    MaxSockets = 2
    MaxReports = 2
    MaxDeaths = 1
    MaxErrors = 1
SYMMETRY MCSymmetry
INVARIANTS InStep Connected NoLeak
CHECK_DEADLOCK FALSE
