SPECIFICATION Spec
CONSTANTS
    Workers = {w1, w2}
    Conns = {c1, c2, c3}
    NoConn = NoConn
    Environments = {{"StopAtJoin"}}
    MaxRaids = 2
    MaxTrouble = 2
    MaxJoinFaults = 2
    MaxNews = 2
    BackoffMin = 1
    BackoffMax = 3
INVARIANT StopsAreFinal
CHECK_DEADLOCK FALSE
