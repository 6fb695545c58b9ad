SPECIFICATION FairSpec
CONSTANTS
    p1 = p1
    p2 = p2
    p3 = p3
    s1 = s1
    s2 = s2
    db = db
    sess = sess
    NoConn = NoConn
    NoDb = NoDb
    NoClient = NoClient
    Idle = Idle
    Pages = {p1, p2, p3}
    Sessions = {}
    Conns = {c1, c2}
    DbList <- OneDb
    DbOf <- DbOfOne
    CountMod = 65536
    ConnMax = 1
    QueueLimit = 2
    Scripts <- TwoStatements
    MayFail = FALSE
    MayLeave = FALSE
INVARIANTS
    CountExact
    WaitersHaveWaker
PROPERTIES
    RefusedOnlyWhenFull
    PagesAnswered
CHECK_DEADLOCK FALSE
