SPECIFICATION Spec
CONSTANTS
    Files = {f1, f2}
    NoFile = NoFile
    OnlyNew = TRUE
    MaxTasks = 1
    MaxChanges = 1
    MaxFailures = 0
    MaxCrashes = 0
PROPERTIES
    CancelStops
SYMMETRY MCSymmetry
CHECK_DEADLOCK FALSE
