SPECIFICATION MCSpec
CONSTANTS
    Agents = {a1, a2}
    Chains = {c1}
    Capabilities = {p1}
    Sessions = {s1, s2}
    NoAgent = NoAgent
    NoChain = NoChain
    MaxLimit = 3
    MaxTime = 2
    MaxHops = 3
    MaxUpdates = 1
INVARIANTS
    HopsAreGranted
    DepthWithinLimit
    DelegationInv
    CountersAreTrue
    OneGrantCovers
PROPERTIES
    StoppedChainsTakeNoHops
SYMMETRY Symmetry
CHECK_DEADLOCK FALSE
