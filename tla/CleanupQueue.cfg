SPECIFICATION FairSpec
CONSTANTS
    Codes = {k1, k2}
    NoCode = NoCode
    MaxRestarts = 1
PROPERTIES
    ImplementsQueue
    ObsoleteRemoved
