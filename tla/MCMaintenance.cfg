SPECIFICATION FairSpec
CONSTANTS
    m1 = m1
    m2 = m2
    i1 = i1
    None = None
    Order <- MCOrder
    Mounted <- MCMounted
    v1 = v1
    v2 = v2
    Starts <- MCStarts
    Versions = {v1, v2}
    Blocked = {}
    MaxCandidates = 2
    Ceiling = 2
    MaxCost = 2
    MaxEdits = 2
    MaxCrashes = 1
    MaxCommands = 1
    MaxDay = 2
INVARIANTS TypeOK SpendWithinCeiling
PROPERTIES
    HonestReceipt
    MarksAreAccounted
    EventuallyFresh
CHECK_DEADLOCK FALSE
