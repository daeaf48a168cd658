\* Is a running job recovered, when its lease was released under it?
SPECIFICATION FairSpec
CONSTANTS
    Job = {j1, j2}
    Worker = {w1}
    None = None
    MaxAttempts = 1
    MaxGeneration = 2
    MaxContent = 1
    MaxPolicy = 1
    Volatile = TRUE
    Moderated = FALSE
    Manual = {}
PROPERTIES
    RunningIndexingEnds
CHECK_DEADLOCK FALSE
