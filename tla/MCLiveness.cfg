\* Does every attempt end, and every lease come back?
SPECIFICATION FairSpec
CONSTANTS
    Source = {s1}
    Job = {j1, j2}
    Worker = {w1}
    Recoverer = {r1}
    Admin = {a1}
    Key = {k1, k2}
    None = None
    Purgeable = {}
    Volatile = {}
    MaxAttempts = 1
    LeaseTicks = 1
    MaxLatency = 0
    DeferTicks = 0
    MaxGeneration = 2
    MaxPolicy = 1
PROPERTIES
    RunningEnds
    LeaseComesBack
