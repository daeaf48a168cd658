\* The indexing and ingestion queues, the coordinator and a cold worker, one instance at a time.
SPECIFICATION SpecShown
CONSTANTS
    Job = {j1, j2, j3}
    Worker = {w0}
    MoreJobs = {j1, j2, j3, j4}
    TwoWorkers = {w1, w2}
    None = None
    MaxAttempts = 1
    MaxGeneration = 2
    MaxContent = 1
    MaxPolicy = 1
    Volatile = TRUE
    Moderated = FALSE
    Manual = {"summary"}
    d1 = d1
    i1 = i1
    i2 = i2
    g1 = g1
    common = common
    jobs = jobs
    indexing = indexing
    qa = qa
    Callers = {c1, c2}
    OneSource = {s1}
    ChainedJobs = {j1, j2, j3}
    Retried = {j1}
    OneAdmin = {a0}
    TwoAdmins = {w1, w2}
    OneKey = {k0}
    TwoKeys = {c1, c2}
    Recoverers = {r1}
SYMMETRY SymmetricShown
INVARIANTS
    StaleEmbeddingIsOwed
    DueWorkIsTaken
    FlightsHold
PROPERTIES
    LateOutputIsDropped
    EndsAreEarned
    QueuesHold
CHECK_DEADLOCK FALSE
