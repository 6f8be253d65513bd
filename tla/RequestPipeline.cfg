SPECIFICATION MCSpec
CONSTANTS
    a1 = a1
    a2 = a2
    s1 = s1
    s2 = s2
    m1 = m1
    m2 = m2
    w1 = w1
    w2 = w2
    Requests = {r1}
    Approvals = {a1, a2}
    Messages = {m1, m2}
    Sessions = {s1, s2}
    Workers = {w1, w2}
    NoRequest = NoRequest
    NoApproval = NoApproval
    NoMessage = NoMessage
    MaxCrashes = 1
INVARIANTS
    CallsAreReleased
    BlockedTextStaysHere
    DecidedIsBacked
    SecondResponseNeedsLoss
    PipelineInv
PROPERTIES
    RefinesGovernedRelease
    MessagesAreHandled
CHECK_DEADLOCK FALSE
