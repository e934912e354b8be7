SPECIFICATION FairSpec
CONSTANTS
    Sources = {s1, s2, s3}
    Dests = {d1, d2, d3}
    Counts = {0, 1, 2}
CHECK_DEADLOCK FALSE
INVARIANT LeastRoutes
INVARIANT RawWriterIsAlone
PROPERTY CascadeEnds
