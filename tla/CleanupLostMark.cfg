SPECIFICATION Spec
CONSTANTS
    Codes = {k1, k2, k3}
    NoCode = NoCode
    MaxRestarts = 0
PROPERTIES
    LeavesWhenClean
