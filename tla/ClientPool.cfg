CONSTANTS
    o1 = o1
    Requests = {r1, r2}
    Origins = {o1}
    Conns = {c1, c2}
    Callers = {k1}
    OriginOf <- OneOrigin
    NoConn = NoConn
    NoRequest = NoRequest
SPECIFICATION FairSpec
INVARIANTS OneDialer ShutdownIsHonest
PROPERTIES AcquireEnds ShutdownCompletes
