SPECIFICATION Spec
CONSTANTS
    Callers = {c1, c2}
    Processes = {w1, w2}
    Slots = {d1, d2}
    NoProcess = NoProcess
    MaxRuns = 2
    MaxVersion = 2
    MaxCalls = 4
INVARIANTS
    ServingInv
    ServesTheRow
SYMMETRY Symmetry
CHECK_DEADLOCK FALSE
