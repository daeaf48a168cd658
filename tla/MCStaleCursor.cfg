\* Does a completed marker cover the source, when a takedown paused it?
SPECIFICATION Spec
CONSTANTS
    None = None
    Admin = {}
    Runner = {c1}
    Batch = {b1}
    Page = 1
    MaxArticle = 2
    MaxPolicy = 3
    Takedowns = TRUE
INVARIANTS
    CompletedIsComplete
CHECK_DEADLOCK FALSE
