SPECIFICATION Spec
CONSTANTS
    p1 = p1
    p2 = p2
    p3 = p3
    s1 = s1
    s2 = s2
    db = db
    sess = sess
    NoConn = NoConn
    NoDb = NoDb
    NoClient = NoClient
    Idle = Idle
    Pages = {p1, p2}
    Sessions = {s1}
    Conns = {c1, c2}
    DbList <- TwoDbs
    DbOf <- DbOfTwo
    CountMod = 65536
    ConnMax = 1
    QueueLimit = 2
    Scripts <- Mixed
    MayFail = TRUE
    MayLeave = TRUE
SYMMETRY Symmetry
INVARIANTS
    TypeOK
    Ownership
    AnswersReachTheirAsker
    QueueExact
    SleepersReachable
CHECK_DEADLOCK FALSE
