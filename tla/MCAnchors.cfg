SPECIFICATION FairSpec
CONSTANTS
    Anchorers = {a1}
    MaxEvents = 3
    MaxAnchors = 6
    MaxFaults = 2
    None = None
INVARIANTS
    TypeOK
    OnlyTornReported
    HistoryChangeDetected
PROPERTIES
    EventsGetAnchored
CHECK_DEADLOCK FALSE
