SPECIFICATION FairSpec
CONSTANTS
    s1 = s1
    s2 = s2
    t1 = t1
    t2 = t2
    t3 = t3
    f1 = f1
    f2 = f2
    None = None
    Sources = {s1, s2}
    Titles = {t1, t2, t3}
    Key <- MCKey
    Slug <- MCSlug
    Drafts <- MCDrafts
    BatchSize = 1
    MaxAttempts = 2
    Wire = "openai"
    Statuses = {429, 500}
    Plans = {"concepts", "contradictions"}
    Edited = {s1}
    MaxEdits = 1
    MaxCommands = 2
    MaxDrafts = 2
    MaxFaults = 1
INVARIANTS
    TypeOK
    ReceiptsPrecede
    NothingIsDropped
    CitedIsAffected
PROPERTY
    CompileEnds
CHECK_DEADLOCK FALSE
