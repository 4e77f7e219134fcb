SPECIFICATION Spec
CONSTANTS
    c1 = c1
    c2 = c2
    t1 = t1
    t2 = t2
    t3 = t3
    k = k
    Conns = {c1, c2}
    Topics = {t1, t2, t3}
    Keys = {k}
    Ms = 2
    MaxEvents = 2
    MaxMons = 0
    MaxLate = 1
    Transient = {}
    Internal = {}
    LateHistory = FALSE
    LedgerFails = FALSE
    Transs <- ThreeTranss
    Batches <- NoBatches
    Nows <- StillClock
    Watches <- NoWatches
    Dispatch <- AllServices
SYMMETRY Symmetry
INVARIANTS
    OnlySubscribed
CHECK_DEADLOCK FALSE
