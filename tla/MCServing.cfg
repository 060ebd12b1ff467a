\* The client's send paths, the proxy, and the proxy in front of the client.
SPECIFICATION MCSpec
CONSTANTS
    Providers = {p1, p2}
    MaxCandidates = 3
    Families = {"redpill_aci_verified_tls", "tinfoil"}
    Served = "c1"
    Conns = {"c1", "c2"}
    Configs <- MCConfigs
    Requests <- MCRequests
    ListedOrigin = "listed"
    MaxHeaderBytes = 2
    MaxBodyBytes = 2
    ChunkBytes = 2
    BodyChunkBytes = 2
    HeaderLengths = {3, 5}
    ContentLengths = {2, 3}
    NoRequest = NoRequest
    NoResponse = NoResponse
CHECK_DEADLOCK FALSE
INVARIANTS
    NeverReplayed
    OutcomeIsHonest
    WholeBoundedRequests
    WorkNeverLooksRefused
PROPERTIES
    ForwardsOnlyAdmitted
    ServedImplementsProxy
    NothingHangs
