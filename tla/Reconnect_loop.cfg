SPECIFICATION FairSpec
CONSTANTS
    Workers = {w1, w2}
    Conns = {c1, c2, c3}
    NoConn = NoConn
    Environments = {{"LateNews"}}
    MaxRaids = 1
    MaxTrouble = 1
    MaxJoinFaults = 0
    MaxNews = 2
    BackoffMin = 1
    BackoffMax = 3
PROPERTY RepairsNeverLoop
CHECK_DEADLOCK FALSE
