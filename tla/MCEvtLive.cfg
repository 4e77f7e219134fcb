SPECIFICATION FairSpec
CONSTANTS
    c1 = c1
    c2 = c2
    t1 = t1
    t2 = t2
    t3 = t3
    k = k
    Conns = {c1, c2}
    Topics = {t1}
    Keys = {k}
    Ms = 2
    MaxEvents = 2
    MaxMons = 0
    MaxLate = 2
    Transient = {c2}
    Internal = {"_btrig"}
    LateHistory = FALSE
    LedgerFails = FALSE
    Transs <- MonTranss
    Batches <- NoBatches
    Nows <- Clock
    Watches <- NoWatches
    Dispatch <- NoSatServices
PROPERTIES
    EventuallySent
    MarkGrows
CHECK_DEADLOCK FALSE
