SPECIFICATION Spec
CONSTANTS
    r1 = r1
    r2 = r2
    Requests = {r1}
    MaxConns = 2
    QueueSize = 1
    MaxInstance = 2
PROPERTY CrashEndsUnknown
CHECK_DEADLOCK FALSE
