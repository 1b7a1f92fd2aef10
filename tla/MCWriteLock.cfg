SPECIFICATION LockFairSpec
CONSTANTS
    Callers = {c, m}
    Others = {b}
    Required = {m}
    MaxKills = 2
    Nil = Nil
INVARIANTS
    LockTypeOK
PROPERTIES
    LockComesBack
