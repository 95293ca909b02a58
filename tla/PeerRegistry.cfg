SPECIFICATION FairSpec
CONSTANTS
    a1 = a1
    a2 = a2
    c1 = c1
    c2 = c2
    c3 = c3
    NoConn = NoConn
    NoHost = NoHost
    Peers = {a1}
    Conns = {c1, c2}
    MaxPairings = 1
CHECK_DEADLOCK FALSE
INVARIANTS RevokedStaysOut NoOrphans OnlineIsServed IInv
PROPERTIES DisplacedOnlyByNewer OfflineNoticed StaleEnds
