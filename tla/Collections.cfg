SPECIFICATION Spec
CONSTANTS
    Docs = {d1, d2, d3}
    Callers = {u1, u2}
    MaxCalls = 6
    MaxFailures = 1
INVARIANTS
    CollectionsInv
    OneSpace
    QueriesAnswered
SYMMETRY Symmetry
CHECK_DEADLOCK FALSE
