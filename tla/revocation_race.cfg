SPECIFICATION TokensSpec
CONSTANTS
    Proc = {executor, operator}
    Issuers = {executor}
    Operators = {operator}
    Token = {k1, k2}
    Empty = Empty
    Garbled = Garbled
    None = None
    TTL = 2
    MaxTime = 0
    MaxCrashes = 0
CHECK_DEADLOCK FALSE
INVARIANTS
    RevokedIsDenied
