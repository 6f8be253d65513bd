SPECIFICATION MCSpec
CONSTANTS
    q1 = q1
    q2 = q2
    u1 = u1
    g1 = g1
    t1 = t1
    r1 = r1
    openai = openai
    Policies = {q1, q2}
    UseCases = {u1}
    Providers = {g1}
    Admins = {b1, b2}
    Vendors = {openai, groq}
    NoVendor = NoVendor
    NoRow = NoRow
    Terms = {t1}
    Prompts <- MCPrompts
    MaxVersions = 3
    MaxEdits = 3
    Requests = {r1}
    Approvals = {a1}
    Messages = {m1}
    Sessions = {s1}
    Workers = {w1}
    NoRequest = NoRequest
    NoApproval = NoApproval
    NoMessage = NoMessage
    MaxCrashes = 0
INVARIANTS
    ScreeningInv
    MatchesAreMasked
    StandingRulesApply
CHECK_DEADLOCK FALSE
