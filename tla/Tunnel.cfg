CONSTANTS
    Conns = {c1, c2}
    NoConn = NoConn
    Reqs = {r1}
    Waiters = {w1, w2}
    MaxWaiters = 1
    MaxChunks = 1
SPECIFICATION TunnelFairSpec
INVARIANTS
    TunnelInv
    NeverTruncated
PROPERTIES
    NewestWins
    LossSettles
CHECK_DEADLOCK FALSE
