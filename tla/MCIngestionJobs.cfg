\* One source, two overlapping invocations, one recovery loop, one admin.
SPECIFICATION Spec
CONSTANTS
    Source = {s1}
    Job = {j1, j2}
    Worker = {w1, w2}
    Recoverer = {r1}
    Admin = {a1}
    Key = {k1}
    None = None
    Purgeable = {}
    Volatile = {}
    MaxAttempts = 3
    LeaseTicks = 2
    MaxLatency = 1
    DeferTicks = 0
    MaxGeneration = 2
    MaxPolicy = 1
SYMMETRY Symmetric
INVARIANTS
    TypeOK
    ExclusiveFence
    GenerationsAreFences
    LinkedRetries
    SuccessWasWritten
PROPERTIES
    NoStaleBatch
    TerminalIsFinal
    LiveLeaseIsKept
    CrashKeepsRetry
    ImplementsFencing
