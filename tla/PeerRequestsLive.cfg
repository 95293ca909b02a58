SPECIFICATION FairSpec
CONSTANTS
    r1 = r1
    r2 = r2
    Requests = {r1}
    MaxConns = 2
    QueueSize = 1
    MaxInstance = 1
PROPERTY EveryCallAnswered
CHECK_DEADLOCK FALSE
