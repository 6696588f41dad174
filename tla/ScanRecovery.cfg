SPECIFICATION RecoverySpec
CONSTANTS
    Files = {f1, f2}
    NoFile = NoFile
    OnlyNew = TRUE
    MaxTasks = 2
    MaxChanges = 1
    MaxFailures = 1
    MaxCrashes = 1
    works = works
    list = list
    tags = tags
INVARIANTS
    OneWorker
    NothingScannedTwice
    CodesKept
    StaleIsExcused
PROPERTIES
    SuccessIsComplete
    CancelHeard
SYMMETRY MCSymmetry
CHECK_DEADLOCK FALSE
