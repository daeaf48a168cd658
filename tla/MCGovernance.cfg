\* Deletion, sessions, questions and their page, takedowns and reconciliation, one instance at a time.
SPECIFICATION SpecShown
CONSTANTS
    None = None
    Worker = {w1, w2}
    Writer = {v1, v2}
    LeaseTicks = 1
    DeferTicks = 1
    OneArticle = {x0}
    TwoArticles = {v1, v2}
    Chats = {h1}
    OneRequest = {q0}
    TwoRequests = {w1, w2}
    OfSource = OfSource
    Admins = {a0}
    TwoAdmins = {w1, w2}
    OneRunner = {c0}
    TwoRunners = {w1, w2}
    Batches = {b1}
    Askers = {w1, w2}
    Keys = {v1, v2}
    Questions = {m1}
    Conversations = {t1, t2, t3}
    Clients = {p1, p2, p3}
    SessionIds = {s1, s2, s3}
    SignedIn = {s1}
    Passwords = {v1, v2}
    Users = 2
    Calls = 3
    Clicks = 7
SYMMETRY Symmetric
INVARIANTS
    TypesHold
    FlagsAreEvidence
    ReceiptsAreTrue
    SessionsAreCurrent
    ScreenHolds
PROPERTIES
    EvidenceIsKept
    RightsHold
    EndsAreFinal
    OnlyLiveSessionsAct
CHECK_DEADLOCK FALSE
