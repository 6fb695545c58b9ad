SPECIFICATION Spec
CONSTANTS
    p1 = p1
    p2 = p2
    p3 = p3
    s1 = s1
    s2 = s2
    db = db
    sess = sess
    NoConn = NoConn
    NoDb = NoDb
    NoClient = NoClient
    Idle = Idle
    Pages = {}
    Sessions = {s1}
    Conns = {c1}
    DbList <- TwoDbs
    DbOf <- DbOfTwo
    CountMod = 65536
    ConnMax = 2
    QueueLimit = 1
    Scripts <- OneStatement
    MayFail = TRUE
    MayLeave = FALSE
PROPERTIES
    ErrorBranchNotReached
CHECK_DEADLOCK FALSE
