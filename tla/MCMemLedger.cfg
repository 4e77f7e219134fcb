SPECIFICATION Spec
CONSTANTS
    t1 = t1
    t2 = t2
    k1 = k1
    k2 = k2
    Topics = {t1, t2}
    Keys = {k1, k2}
    Ms = 2
    MaxEvents = 3
    MaxOpens = 2
    Transs <- FewTranss
    Nows <- Clock
INVARIANTS
    TypeOK
    Recreates
    WholeTransactions
PROPERTIES
    OneTakenBack
CHECK_DEADLOCK FALSE
