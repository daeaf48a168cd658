\* Does every queue with due work have a turn in a run that executes anything?
SPECIFICATION Spec
CONSTANTS
    None = None
    d1 = d1
    i1 = i1
    i2 = i2
    g1 = g1
    x1 = x1
    s1 = s1
    Job = {d1, i1, i2, g1}
    QueueOf <- QueueOfJob
    SubjectOf <- SubjectOfJob
    AvailableAt <- DueSince
    MaxJobs = 3
    MaxRecoveries = 2
    Budget = 3
INVARIANTS
    ReservedTurn
CHECK_DEADLOCK FALSE
