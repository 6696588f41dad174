SPECIFICATION Spec
CONSTANTS
    a1 = a1
    a2 = a2
    r1 = r1
    r2 = r2
    c1 = c1
    Assets = {a1, a2}
    Remote = {r1, r2}
    Codes = {c1}
    NoCode = NoCode
    CodeOf <- MCCodeOf
    Casting = {a2, r2}
    Rank <- MCRank
    Matching <- MCMatching
    Confirmed = {}
    Requests = {q1}
    MaxCalls = 4
PROPERTIES
    LocksProtected
CHECK_DEADLOCK FALSE
