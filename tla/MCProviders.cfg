\* A pool of two models; one route and its circuits; a router with both fallbacks.
SPECIFICATION SpecShown
CONSTANTS
    r1 = r1
    r2 = r2
    r3 = r3
    d1 = d1
    d2 = d2
    p1 = p1
    p2 = p2
    Execution = {x1, x2}
    OneExecution = {x0}
    OneRoute = {r1}
    AllRoutes = {r1, r2, r3}
    AllDomains = {d1, d2}
    AllPools = {p1, p2}
    Route = {r1, r2}
    Domain = {d1}
    Pool = {p1}
    DomainOf <- OneProvider
    PoolOf <- OnePool
    Primary = r1
    ModelFallback = r2
    ProviderFallback = None
    None = None
    Mortal = {}
    MaxExternalAttempts = 2
    MaxConcurrency = 1
    FailureThreshold = 1
    ReservationTicks = 2
    CooldownTicks = 2
    AttemptTicks = 1
SYMMETRY Symmetric
INVARIANTS
    TypeOK
    ConcurrencyHolds
    CircuitsHold
PROPERTIES
    OutcomesDecide
    OneFallback
    RoutersHold
