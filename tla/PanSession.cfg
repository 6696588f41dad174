SPECIFICATION Spec
CONSTANTS
    Accounts = {a1, a2}
    NoAccount = NoAccount
    Callers = {login, relay}
    Login = login
    Relay = relay
    MaxTokens = 3
    MaxResolves = 1
    MaxRestarts = 1
INVARIANTS
    NotSelfRejected
    LoginKept
    DisconnectSticks
    LinksMatch
PROPERTIES
    NewerLoginWins
SYMMETRY MCSymmetry
CHECK_DEADLOCK FALSE
