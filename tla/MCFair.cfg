\* Does the version, the probe, the lease, the cleanup, the deletion end?
SPECIFICATION FairSpecShown
CONSTANTS
    None = None
    Admin = {a1}
    Runner = {c1}
    Batch = {b1}
    Page = 1
    MaxArticle = 1
    MaxPolicy = 2
    Takedowns = FALSE
    Execution = {x1, x2}
    Mortal = {x2}
    Route = {r1}
    Domain = {d1}
    Pool = {p1}
    AnyDomain = d1
    AnyPool = p1
    AnyRoute = r1
    Job = {j1, j2, j3}
    Worker = {w1}
    Articles = {n1}
    Chat = {h1, h2}
    Requests = {q1, q2}
    OfSource = OfSource
    Workers = {v1, v2}
INVARIANT
    MarkersAreTrue
PROPERTIES
    RightsAreVersioned
    VersionsAreReconciled
    ProbeComesBack
    ArticleComesBack
    CleanupEnds
    DeletionEnds
CHECK_DEADLOCK FALSE
