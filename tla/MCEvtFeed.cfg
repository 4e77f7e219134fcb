SPECIFICATION Spec
CONSTANTS
    c1 = c1
    c2 = c2
    t1 = t1
    t2 = t2
    t3 = t3
    k = k
    Conns = {c1, c2}
    Topics = {t1, t2}
    Keys = {k}
    Ms = 2
    MaxEvents = 3
    MaxMons = 0
    MaxLate = 1
    Transient = {}
    Internal = {}
    LateHistory = FALSE
    LedgerFails = FALSE
    Transs <- FeedTranss
    Batches <- FeedBatches
    Nows <- StillClock
    Watches <- NoWatches
    Dispatch <- AllServices
SYMMETRY Symmetry
INVARIANTS
    TypeOK
    ExactlyOnce
    OnlySubscribed
    Watermark
    RegistryAgrees
PROPERTIES
    ImplementsFeed
    BcastFlushes
CHECK_DEADLOCK FALSE
