SPECIFICATION Spec
CONSTANTS
    a1 = a1
    a2 = a2
    c1 = c1
    c2 = c2
    c3 = c3
    NoConn = NoConn
    NoHost = NoHost
    Peers = {a1}
    Conns = {c1, c2}
    MaxPairings = 0
INVARIANT ReportedByCurrent
CHECK_DEADLOCK FALSE
