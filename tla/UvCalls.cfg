SPECIFICATION FairSpec
CONSTANTS
    Callers = {t1, t2}
    MaxFires = 2
    Kinds = {"queued", "sync"}
    MayFail = FALSE
    MayTimeout = FALSE
    NoCall = NoCall
    NoOne = NoOne
INVARIANTS
    SyncAnswersItsCall
PROPERTIES
    CallsAllRun
    SyncReturns
CHECK_DEADLOCK FALSE
