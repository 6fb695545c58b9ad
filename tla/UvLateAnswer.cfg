SPECIFICATION Spec
CONSTANTS
    Callers = {t1}
    MaxFires = 2
    Kinds = {"sync"}
    MayFail = FALSE
    MayTimeout = TRUE
    NoCall = NoCall
    NoOne = NoOne
INVARIANTS
    SyncAnswersItsCall
CHECK_DEADLOCK FALSE
