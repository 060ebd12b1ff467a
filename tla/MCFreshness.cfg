\* Two callers over a cacheable and a per-request route while keys rotate, or
\* one caller while the wall clock is set back and forth.
SPECIFICATION Spec
ACTION_CONSTRAINT Apart
CONSTANTS
    Callers = {c1, c2}
    Flights = {f1, f2}
    Keys = {"cached", "fresh"}
    PerRequestKeys = {"fresh"}
    NoFlight = NoFlight
    NoEntry = NoEntry
    NoVerdict = NoVerdict
    OneCaller = c1
    CachedKey = "cached"
    Freshness = "AllowCached"
    CachedBinding = 3
    VerdictTtl = 4
    StaleAllowance = 1
    JumpThreshold = 1
    U64Max = 100
    MaxWaiters = 1
    MaxRefreshes = 1
    ReferenceValidUntil = 50
    MaxRequests = 2
    MaxGeneration = 1
    MaxMonotonic = 4
    MaxWall = 6
CHECK_DEADLOCK FALSE
SYMMETRY FlightSymmetry
INVARIANTS
    FreshEvidence
PROPERTIES
    HitRespectsClocks
