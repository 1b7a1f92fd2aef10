SPECIFICATION FairSpec
CONSTANTS
    Pages = {a, b}
    Runners = {r1}
    Budget = 1
    MaxCost = 2
    MaxFaults = 3
    TraceFaults = TRUE
    None = None
INVARIANTS
    TypeOK
    StatusMatchesFiles
PROPERTY
    Completes
CHECK_DEADLOCK FALSE
