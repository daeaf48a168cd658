\* Is every approved takedown cleaned up, although one before it refuses?
SPECIFICATION FairSpec
CONSTANTS
    None = None
    OfSource = OfSource
    Article = {x1}
    Chat = {c1, c2}
    Request = {r1, r2}
    Scopes = {{"metadata"}, {"summary"}}
    Targets = {x1}
    Page = 1
    MaxPolicy = 1
PROPERTIES
    CleanupEnds
CHECK_DEADLOCK FALSE
