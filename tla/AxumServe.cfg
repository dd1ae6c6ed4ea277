SPECIFICATION FairSpec
CONSTANT
    Conns = {c1, c2, c3}
INVARIANT NoLeak
INVARIANT DrainReachesAll
INVARIANT DoneMeansClosed
INVARIANT DropEndsAll
PROPERTY StopEnds
