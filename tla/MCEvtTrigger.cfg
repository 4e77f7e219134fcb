SPECIFICATION Spec
CONSTANTS
    c1 = c1
    c2 = c2
    t1 = t1
    t2 = t2
    t3 = t3
    k = k
    Conns = {c1, c2}
    Topics = {t1}
    Keys = {k}
    Ms = 2
    MaxEvents = 2
    MaxMons = 1
    MaxLate = 1
    Transient = {}
    Internal = {"_stop"}
    LateHistory = TRUE
    LedgerFails = TRUE
    Transs <- OneTrans
    Batches <- OneBatch
    Nows <- StillClock
    Watches <- OneWatch
    Dispatch <- AllServices
SYMMETRY Symmetry
INVARIANTS
    TriggerInv
    NoLostTrigger
    NotesFlagged
PROPERTIES
    SignoffOutcome
CHECK_DEADLOCK FALSE
