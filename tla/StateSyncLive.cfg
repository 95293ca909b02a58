SPECIFICATION Spec
CONSTANTS
    k1 = k1
    k2 = k2
    on = on
    off = off
    p1 = p1
    p2 = p2
    c1 = c1
    c2 = c2
    Absent = Absent
    NoView = NoView
    NoConn = NoConn
    Keys = {k1}
    Values <- MCValues
    Pages = {p1}
    Conns = {c1, c2}
    Batches <- MCFewBatches
    Schema <- MCSchema
    QueueSize = 1
    WireSize = 1
    MaxInstance = 3
    MaxRevision = 2
    MaxFaults = 1
CHECK_DEADLOCK FALSE
INVARIANTS ReconnectDiscipline
PROPERTIES NeverBackwards ImplementsRevisionedState ReloadRequested Converges SubscriptionsReleased
