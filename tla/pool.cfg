CONSTANTS
    Goroutines = {g1, g2}
    Conns = {c1, c2, c3}
    NoConn = NoConn
    MaxAttempts = 2
SPECIFICATION FairSpec
INVARIANT NoLeak
PROPERTIES NoSelfCut RequestEnds Recovers
