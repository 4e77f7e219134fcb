SPECIFICATION Spec
CONSTANTS
    t1 = t1
    t2 = t2
    k1 = k1
    k2 = k2
    Topics = {t1, t2}
    Keys = {k1, k2}
    Ms = 2
    MaxEvents = 4
    MaxOpens = 2
    Transs <- LongTranss
    Nows <- Clock
PROPERTIES
    RolledBack
CHECK_DEADLOCK FALSE
