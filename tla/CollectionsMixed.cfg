SPECIFICATION Spec
CONSTANTS
    Docs = {d1, d2}
    Callers = {u1, u2}
    MaxCalls = 2
    MaxFailures = 0
INVARIANTS
    SameSpace
CHECK_DEADLOCK FALSE
