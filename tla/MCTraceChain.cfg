SPECIFICATION Spec
CONSTANTS
    Writers = {w1, w2}
    MaxDay = 3
    MaxEvents = 4
    MidnightQuiet = TRUE
    ShortWrites = FALSE
    None = None
INVARIANTS
    TypeOK
    ChainVerifies
    DeletionDetected
    NoFalseAlarm
PROPERTIES
    ImplementsAuditLog
CHECK_DEADLOCK FALSE
