SPECIFICATION Spec
CONSTANTS
    Writers = {w1, w2}
    MaxDay = 3
    MaxEvents = 3
    MidnightQuiet = FALSE
    ShortWrites = TRUE
    None = None
INVARIANTS
    InFileLinked
    IndexLocatesEvent
CHECK_DEADLOCK FALSE
