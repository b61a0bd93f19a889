SPECIFICATION Spec
CONSTANTS
    w1 = w1
    w2 = w2
    w3 = w3
    Workers = {w1, w2}
    MaxVersion = 2
    InitialVersion = 0
    ReportsDuringUpdate = FALSE
    RestartMatchesEngines = FALSE
SYMMETRY Symmetry
INVARIANT ServingMatchesEngine
