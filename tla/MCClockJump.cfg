\* As MCClocks: is every wall-clock jump past the threshold noticed?
SPECIFICATION Spec
CONSTANTS
    Callers = {c1}
    Flights = {f1}
    Keys = {"route"}
    PerRequestKeys = {}
    NoFlight = NoFlight
    NoEntry = NoEntry
    NoVerdict = NoVerdict
    Freshness = "AllowCached"
    CachedBinding = 3
    VerdictTtl = 4
    StaleAllowance = 0
    JumpThreshold = 1
    U64Max = 100
    MaxWaiters = 1
    MaxRefreshes = 0
    ReferenceValidUntil = 50
    MaxRequests = 2
    MaxGeneration = 0
    MaxMonotonic = 4
    MaxWall = 6
CHECK_DEADLOCK FALSE
PROPERTIES
    ClockJumpRevalidates
