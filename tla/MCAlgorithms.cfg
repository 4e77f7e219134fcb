SPECIFICATION Spec
CONSTANTS
    Topics = {t1, t2, t3, t4, t5}
    MaxReq = 2
    SigTopics = {t1, t2, t3}
    SigKeys = {k1, k2}
    MaxSigs = 5
    ActSigs = {g1, g2}
    Fields = {f1, f2}
    Vals = {v1, v2}
    Zero = zero
    user = user
    admin = admin
    topic = topic
    read = read
    write = write
    RoleNames = {user, admin}
    PolTopics = {topic, t1}
    PolBits = {read, write}
    PolRules <- MCRules
    MaxRules = 3
    DayBits = 3
    Horizon = 20
    Nodes <- MCNodes
    Contents <- MCContents
    MaxCommits = 3
    Base = 2
    Dirs = {d1, d2}
    Zips = {z}
    Keys = {m1, m2}
    Rows = {r1, r2}
    Stamps = {s1, s2}
    MaxWrites = 2
    Sids = {i1, i2}
    Codecs = {c1, c2}
    Reqs = {q1, q2}
    Readers <- MCReaders
    MaxRotations = 2
    SubjKeys <- MCKeys
    FieldVals = {0, 1}
    MaxRows = 3
    Queries <- MCQueries
    Projects <- MCProjects
INVARIANTS
    LoopOutcome
    WatchesFaithful
    MergeFaithful
    AssociationsAnywhere
    ValidDays
    VersionsIdentify
    ReadsBack
    BackupFaithful
    CookieOpens
    QueryAnswers
    RelationsMirror
CHECK_DEADLOCK FALSE
