SPECIFICATION Spec
CONSTANTS
    Kinds = {"tinfoil", "near", "ppq", "chutes", "redpill"}
    Requests = {r1, r2}
    MaxEntries = 1
    MaxClients = 1
    NoncesEach = 1
    SessionLife = 2
    TokenLife = 1
    MaxNow = 2
    MaxRotations = 1
    Resolves = {p1, p2, p3}
    p1 = p1
    p2 = p2
    p3 = p3
    Keys = {"platform", "quote"}
    PlatformKeys = {"platform"}
    Offline = {p3}
    Policies <- MCPolicies
    MaxQueued = 1
    MaxAttempts = 2
    StoreSize = 1
    Validity = 1
    MaxTime = 1
    Lookups = {l1, l2}
    Certs = {c1, c2}
    VcekEntries = 1
    FailureTtl = 1
    JwksTtl = 2
    FetchTime = 1
    MaxInstant = 5
INVARIANTS
    VerifiedPeerOnly
    NothingTwice
    CollateralSound
PROPERTIES
    CachedKeysCurrent
    WorkEnds
CHECK_DEADLOCK FALSE
