SPECIFICATION FairSpec
CONSTANTS
    p1 = p1
    p2 = p2
    p3 = p3
    s1 = s1
    s2 = s2
    db = db
    sess = sess
    NoConn = NoConn
    NoDb = NoDb
    NoClient = NoClient
    Idle = Idle
    Pages = {}
    Sessions = {s1, s2}
    Conns = {c1}
    DbList <- OneDb
    DbOf <- DbOfOne
    CountMod = 65536
    ConnMax = 1
    QueueLimit = 2
    Scripts <- OneStatement
    MayFail = FALSE
    MayLeave = FALSE
PROPERTIES
    WaitingSessionServed
CHECK_DEADLOCK FALSE
