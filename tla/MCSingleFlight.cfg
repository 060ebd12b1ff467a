\* Three callers race on one cacheable route; the queue holds one waiter, as in the tests.
\* Fair scheduling of tasks, no fairness for the wait timeout.
SPECIFICATION FairSpec
CONSTANTS
    Callers = {c1, c2, c3}
    Flights = {f1, f2, f3}
    Keys = {"route"}
    PerRequestKeys = {}
    NoFlight = NoFlight
    NoEntry = NoEntry
    NoVerdict = NoVerdict
    Freshness = "PerSession"
    CachedBinding = 0
    VerdictTtl = 1
    StaleAllowance = 0
    JumpThreshold = 1
    U64Max = 100
    MaxWaiters = 1
    MaxRefreshes = 0
    ReferenceValidUntil = 50
    MaxRequests = 1
    MaxGeneration = 0
    MaxMonotonic = 0
    MaxWall = 0
CHECK_DEADLOCK FALSE
INVARIANTS
    SingleFlight
    WaiterSlots
PROPERTIES
    CallersReturn
