CONSTANTS
    Conns = {c1, c2}
    NoConn = NoConn
    Reqs = {r1, r2}
    NoReq = NoReq
    Waiters = {}
    MaxWaiters = 1
    MaxChunks = 1
SPECIFICATION Spec
SYMMETRY Symmetry
INVARIANTS
    FailureSurvivesReconnect
CHECK_DEADLOCK FALSE
