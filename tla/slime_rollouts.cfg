SPECIFICATION SlimeSpec
CONSTANTS
    g1 = g1
    g2 = g2
    e1 = e1
    e2 = e2
    r1 = r1
    t1 = t1
    none = none
    Groups = {g1, g2}
    Size = 2
    Versions = {0, 1}
    Requests = {r1}
    Templates = {t1}
    NoResponse = none
    SnapshotMayFail = TRUE
    LateReports = TRUE
    Engines = {e1, e2}
    MaxFaults = 1
    MaxOthers = 1
    Nothing = none
SYMMETRY Symmetry
INVARIANT SlimeTypeOK
INVARIANT AnsweredMeansReady
INVARIANT SameDecision
INVARIANT CountsNeverLeak
INVARIANT ReturnedMeansReady
