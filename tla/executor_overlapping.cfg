SPECIFICATION ExecSpec
CONSTANTS
    w1 = w1
    w2 = w2
    first = first
    second = second
    None = None
    Workers = {w1, w2}
    Executions = {first, second}
    CallOrder <- Opposite
    MaxVersion = 1
    InitialVersion = 0
    ReportedFields = {"failure"}
    ReportsDuringUpdate = FALSE
    RestartMatchesEngines = TRUE
SYMMETRY Symmetry
INVARIANT NoReloadInService
PROPERTY ReturnEndsUpdate
PROPERTY ImplementsPatientPool
