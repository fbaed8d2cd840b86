SPECIFICATION Spec
CONSTANTS
    p1 = p1
    p2 = p2
    s1 = s1
    r1 = r1
    r2 = r2
    r3 = r3
    m1 = m1
    m2 = m2
    k1 = k1
    k2 = k2
    k3 = k3
    Projects = {p1, p2}
    Sessions = {s1}
    Roots = {r1, r2, r3}
    NoRoot = NoRoot
    MaxMessages = 2
    MaxCheckpoints = 2
    MaxHistory = 6
    Commands <- AllTried
    ProviderEvents <- TokenEvents
INVARIANTS
    DecisionsMatchHistory
    LiveRootsUnique
    TextIsCommittedTokens
