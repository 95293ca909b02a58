SPECIFICATION Spec
CONSTANTS
    k1 = k1
    k2 = k2
    on = on
    off = off
    p1 = p1
    p2 = p2
    c1 = c1
    c2 = c2
    Absent = Absent
    NoView = NoView
    NoConn = NoConn
    Keys = {k1, k2}
    Values <- MCValues
    Pages = {p1}
    Conns = {c1, c2}
    Batches <- MCTwoKeyBatches
    Schema <- MCSchema
    QueueSize = 2
    WireSize = 1
    MaxInstance = 1
    MaxRevision = 4
    MaxFaults = 1
INVARIANTS ShowsCommitted ReadyFollowsHub IInv
CHECK_DEADLOCK FALSE
