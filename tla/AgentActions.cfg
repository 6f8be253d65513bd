SPECIFICATION MCSpec
CONSTANTS
    Agents = {a1}
    Chains = {c1}
    Capabilities = {p1}
    Sessions = {s1}
    NoAgent = NoAgent
    NoChain = NoChain
    MaxLimit = 1
    MaxTime = 1
    MaxHops = 2
    MaxUpdates = 1
    Actions = {x1}
    Callers = {u1, u2}
    Tools = {t1}
    Rules <- MCRules
    NoAction = NoAction
    NoTool = NoTool
    MaxPolicies = 1
INVARIANTS
    ActionsInv
    NothingBarredIsAllowed
PROPERTIES
    VerdictsStand
SYMMETRY Symmetry
CHECK_DEADLOCK FALSE
