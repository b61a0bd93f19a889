SPECIFICATION Spec
CONSTANTS
    g1 = g1
    g2 = g2
    r1 = r1
    r2 = r2
    t1 = t1
    t2 = t2
    none = none
    Groups = {g1}
    Size = 3
    Versions = {1, 2}
    Requests = {r1, r2}
    Templates = {t1, t2}
    NoResponse = none
    SnapshotMayFail = FALSE
    LateReports = FALSE
INVARIANT TypeOK
INVARIANT ReadyMeansComplete
INVARIANT CountedOnce
PROPERTY ImplementsBarrier
