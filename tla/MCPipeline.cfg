SPECIFICATION PipelineSpec
CONSTANTS
    Processes = {p1}
    MaxRecords = 1
    p1 = p1
    pid1 = pid1
    pod = pod
    svid = svid
    c1 = c1
    ca = ca
    Buffers = {svid}
    None = None
    Records = {}
    Certificates <- Certs
    RingCap = 1
    Conns = {c1}
    Sock <- Socket
    Existing = {}
    PID <- OnePID
    NetNS <- OnePod
    Running = {p1}
    MaxDeny = 1
    Plaintext <- Contents
    SPIFFEID <- Ids
    TrustDomain <- Domains
    Pathless = {}
    trusted_domains = {"prod"}
    CustomPolicy = None
    Forwarding = FALSE
    ChannelCap = 2
    Node1 = n1
    Stream = h1
    NoAddresses = NoAddresses
    SpiffeIds = {"spiffe://prod/a"}
    CertObservations <- MCObservations
    NoDest = NoDest
    NoIdentity = NoIdentity
    NoTool = NoTool
    NoToken = NoToken
    NoCert = NoCert
    Cert <- MCCert
    Refs = {1, 2, 3}
    MaxTime = 1
    MaxEvents = 2
INVARIANT IdentityIsQueryable
CHECK_DEADLOCK FALSE
