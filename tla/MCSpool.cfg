SPECIFICATION FairSpec
CONSTANTS
    b1 = b1
    b2 = b2
    w1 = w1
    o1 = o1
    tenant = tenant
    e1 = e1
    e2 = e2
    None = None
    Emitters = {e1, e2}
    WikiPaths = {w1}
    OutputPaths = {o1}
    Contents <- MCContents
    Invocations <- MCInvocations
    ConfigTenant = None
    MaxSecond = 1
    MaxEmissions = 2
    MaxEdits = 2
    MaxFaults = 1
INVARIANTS
    TypeOK
    CompletedWasThere
    OnlyReceiptedLeaves
PROPERTY
    EmittedIsHeld
CHECK_DEADLOCK FALSE
