SPECIFICATION Spec
CONSTANTS
    g1 = g1
    g2 = g2
    t1 = t1
    t2 = t2
    c1 = c1
    p1 = p1
    p2 = p2
    None = None
    Procs = {p1, p2}
    Pages = {g1, g2}
    Base <- MCBase
    Topics = {t1, t2}
    Matching <- MCMatching
    Slug <- MCSlug
    Responses <- MCResponses
    Given = {None, 1}
    MaxPages = 2
    Commands = {"generate", "quiz", "export"}
    MaxCommands = 3
    MaxUpsets = 1
SYMMETRY MCSymmetry
INVARIANTS
    TypeOK
    RebuiltIndexIsWiki
    CardsWereVisible
    Grounded
    SessionIsWhole
CHECK_DEADLOCK FALSE
