SPECIFICATION PagingSpec
CONSTANTS
    SpiffeIds = {w1}
    CertObservations <- MCCertObservations
    certHistoryMax = 3
    rotationLearnMin = 3
    rotationRateWindow = 2
    rotationRateMax = 3
    Identities = {w1, svc}
    Dests = {c1, c2, c3}
    NoDest = NoDest
    profileWindowSize = 2
    profileWindowMax = 3
    profileLearnMin = 2
    profileDestSetMax = 1
    ByteModulus = 4
    Handlers = {h1, h2}
    Nodes = {n1, n2}
    Conns = {c1, c2, c3}
    SourceOf <- MCSourceOf
    DestOf <- MCDestOf
    DomainOf <- MCDomainOf
    Shapes <- ChurnShapes
    NoIdentity = NoIdentity
    NoTool = NoTool
    NoToken = NoToken
    NoCert = NoCert
    Refs = {1, 2, 3, 4, 5}
    maxEntries = 2
    staleTTL = 1
    AttestationTTL = 1
    Lag = 1
    Skew = 0
    MaxTime = 3
    MaxEvents = 4
    n1 = n1
    n2 = n2
    c1 = c1
    c2 = c2
    c3 = c3
    w1 = w1
    w2 = w2
    svc = svc
    tokA = tokA
    tokB = tokB
    toolA = toolA
    ca1 = ca1
    ca2 = ca2
    d1 = d1
    d2 = d2
    Queries <- MCQueries
    Limits = {0, 2}
INVARIANTS
    PagesAddUp
    SessionTypeOK
PROPERTIES
    OnlyRotationsExceedCap
    EntriesLeaveForAReason
