SPECIFICATION Spec
CONSTANTS
    h1 = h1
    h2 = h2
    NoHash = NoHash
    client = client
    poller = poller
    p1 = p1
    p2 = p2
PROPERTIES
    RunningActionResolves
    Announced
CHECK_DEADLOCK FALSE
