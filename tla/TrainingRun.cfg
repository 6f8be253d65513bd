SPECIFICATION MCSpec
CONSTANTS
    Callers = {c1}
    Streams = {s1}
    Params = {p1, p2, p3}
    Pinned = {p1}
    Ignored = {p3}
    MaxRuns = 2
    MaxCalls = 2
    MaxLosses = 1
INVARIANTS
    RowInv
    EndIsTrue
PROPERTIES
    StreamsClose
CHECK_DEADLOCK FALSE
