SPECIFICATION MCSpec
CONSTANTS
    turn = turn
    user = user
    p1 = p1
    p2 = p2
    t1 = t1
    x1 = x1
    x2 = x2
    llm = llm
    NoItem = NoItem
    Threads = {turn, user}
    Points = {p1, p2}
    Items = {t1, x1}
    Freeform = llm
    PointOf <- MCPointOf
    Template <- MCTemplate
    SeedPool = {x1}
    FilePool = {}
    MaxRecords = 2
    Window = 0
    MaxAttempts = 2
    MaxUpload = 2
    MaxOps = 3
    MaxDay = 1
INVARIANTS KeptWhenAlone WrongIsArchived
PROPERTY GivenIsNew
CHECK_DEADLOCK FALSE
SYMMETRY Symmetry
