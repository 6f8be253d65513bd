SPECIFICATION Spec
CONSTANTS
    Callers = {c1}
    Streams = {s1}
    Params = {p1}
    Pinned = {p1}
    Ignored = {}
    MaxRuns = 1
    MaxCalls = 1
    MaxLosses = 0
INVARIANTS
    ClosesWithJob
CHECK_DEADLOCK FALSE
