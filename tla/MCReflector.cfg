SPECIFICATION FairReflectorSpec
CONSTANTS
    Processes = {p1, p2}
    PID <- PIDs
    NetNS <- Namespaces
    Running = {p1}
    MaxRecords = 2
    p1 = p1
    p2 = p2
    pid1 = pid1
    pod = pod
    host = host
    svid = svid
    evil = evil
    bare = bare
    odd = odd
    call = call
    c1 = c1
    c2 = c2
    Buffers = {svid, evil, bare, odd, call}
    None = None
    Records <- Requests
    Certificates <- Certs
    RingCap = 1
    Conns = {c2}
    Sock <- Sockets
    Existing = {}
    MaxDeny = 1
    Plaintext <- Contents
    SPIFFEID <- Ids
    TrustDomain <- Domains
    Pathless = {"spiffe://cluster.local"}
    trusted_domains = {"cluster.local"}
    CustomPolicy <- Misspelt
    Forwarding = TRUE
    ChannelCap = 1
INVARIANTS
    ReflectorTypeOK
    BlameHasCause
    PostedIsWhole
PROPERTIES
    LoopsKeepUp
    LoopsStop
CHECK_DEADLOCK FALSE
