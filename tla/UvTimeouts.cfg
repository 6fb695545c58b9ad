SPECIFICATION Spec
CONSTANTS
    Callers = {t1, t2}
    MaxFires = 2
    Kinds = {"queued", "sync", "coalesced"}
    MayFail = TRUE
    MayTimeout = TRUE
    NoCall = NoCall
    NoOne = NoOne
SYMMETRY Symmetry
INVARIANTS
    TypeOK
    NoLostCall
    CoalescedLatest
PROPERTIES
    CallsInOrder
CHECK_DEADLOCK FALSE
