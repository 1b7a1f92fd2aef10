SPECIFICATION LockSpec
CONSTANTS
    Callers = {c, m}
    Others = {b}
    Required = {m}
    MaxKills = 2
    Nil = Nil
INVARIANTS
    Exclusion
