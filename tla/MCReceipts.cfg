SPECIFICATION Spec
CONSTANTS
    Procs = {w1}
    concept = concept
    topic = topic
    summary = summary
    Pages = {concept, topic}
    Title <- SameTitle
    Summaries = {}
    HandMade = {topic}
    MaxContent = 3
    MaxFaults = 2
    None = None
INVARIANTS
    TypeOK
    VisibleIsAccountedFor
    ContentIsTraced
CHECK_DEADLOCK FALSE
