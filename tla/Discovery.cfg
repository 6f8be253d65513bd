SPECIFICATION MCSpec
CONSTANTS
    ad = ad
    ns = ns
    host = host
    gw = gw
    gw2 = gw2
    stub = stub
    onlink = onlink
    a1 = a1
    a2 = a2
    Agents = {a1, a2}
    Services = {ad, ns, host, gw, gw2}
    Via <- MCVia
    Privileged = {a1}
    Directories = {ad}
    Resolvers = {ns}
    Nameservers <- MCNameservers
    Routes <- MCRoutes
    Unusable = {stub, onlink}
    Admins = {u1, u2}
    MaxPasswords = 2
    MaxCalls = 2
    MaxLosses = 1
INVARIANTS
    DiscoveryInv
    OneConnection
PROPERTIES
    DecisionsStand
    ConfiguredIsListed
CHECK_DEADLOCK FALSE
