SPECIFICATION SafetySpec
CONSTANTS
    Hashes = {h1, h2, h3}
    NoHash = NoHash
    Clients = {c1}
    Poller = Poller
    MaxAttempts = 2
    ListLimit = 2
    LostReplies = TRUE
    MaxRows = 2
    MaxRequests = 2
    MaxEnqueues = 2
    MaxCrashes = 1
    v1 = v1
    v2 = v2
    s1 = s1
    s2 = s2
INVARIANTS
    CheckpointConsistent
    AttemptsCapped
    CancelledIsRemoved
    DownloadsAccounted
    BudgetKept
    EmbyInSync
PROPERTIES
    CancelSticks
    PredecessorRemoved
    WaitsKept
    NotifierImplementsQueue
SYMMETRY MCSymmetry
CHECK_DEADLOCK FALSE
