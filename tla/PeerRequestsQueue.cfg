SPECIFICATION Spec
CONSTANTS
    r1 = r1
    r2 = r2
    Requests = {r1, r2}
    MaxConns = 1
    QueueSize = 1
    MaxInstance = 2
SYMMETRY MCSymmetry
INVARIANTS SuccessMeansExecuted RefusedMeansNotExecuted NothingLeftPending ClosedLeavesNobodyWaiting OneOutcome IInv
CHECK_DEADLOCK FALSE
