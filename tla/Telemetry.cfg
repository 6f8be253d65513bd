SPECIFICATION MCSpec
CONSTANTS
    d1 = d1
    f1 = f1
    b1 = b1
    b2 = b2
    Domains = {d1}
    LocalTools = {}
    ModelFiles = {f1}
    Batches = {b1, b2}
    Workers = {w1, w2}
    Admins = {a1}
    NoBatch = NoBatch
    Capacity = 1
    BatchSize = 2
    MaxVisits = 2
    MaxEdits = 1
    MaxLosses = 1
    MaxFailures = 1
INVARIANTS
    TelemetryInv
    CountsAreTrue
    OneOpenSighting
    BlockedIsEscalated
SYMMETRY Symmetry
CHECK_DEADLOCK FALSE
