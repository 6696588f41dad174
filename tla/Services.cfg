SPECIFICATION ServicesSpec
CONSTANTS
    Dirs = 2
    MaxErrors = 2
    MaxRuns = 3
    MaxMishaps = 2
    u1 = u1
    u2 = u2
    w1 = w1
    w2 = w2
    NoWork = NoWork
    f1 = f1
    f2 = f2
    NoFile = NoFile
    a1 = a1
    a2 = a2
    r1 = r1
    r2 = r2
    c1 = c1
    NoCode = NoCode
    q1 = q1
INVARIANTS
    NeverSpliced
    CursorHonest
    OneBackfill
    RoundTrip
    UserFilesKept
    AssetStates
PROPERTIES
    LookupCatchesUp
    StopSticks
    BackfillEnds
    DrainOnce
    NothingRunningCleared
    FollowedIsSubmitted
    ScanEnds
    CuratedKept
CHECK_DEADLOCK FALSE
