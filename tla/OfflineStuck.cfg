SPECIFICATION FairSpec
CONSTANTS
    Hashes = {h1, h2, h3}
    NoHash = NoHash
    Clients = {c1}
    Poller = Poller
    MaxAttempts = 3
    ListLimit = 2
    LostReplies = TRUE
    MaxRows = 1
    MaxRequests = 0
    MaxEnqueues = 1
    MaxCrashes = 1
PROPERTIES
    PendingActionResolves
CHECK_DEADLOCK FALSE
