SPECIFICATION FairSpec
CONSTANTS
    Workers = {w1, w2}
    Conns = {c1, c2, c3}
    NoConn = NoConn
    Environments = {{}, {"StartInRepair"}, {"StopAtJoin"}, {"TroubleInRepair"}, {"LateNews"}, {"SlowListener"}}
    MaxRaids = 2
    MaxTrouble = 2
    MaxJoinFaults = 2
    MaxNews = 2
    BackoffMin = 1
    BackoffMax = 3
CHECK_DEADLOCK FALSE
INVARIANT ReconnectInv
PROPERTY StallRejoinsAreSpaced
PROPERTY TroubleEnds
