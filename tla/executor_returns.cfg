SPECIFICATION FairExecSpec
CONSTANTS
    w1 = w1
    w2 = w2
    first = first
    second = second
    None = None
    Workers = {w1}
    Executions = {first, second}
    CallOrder <- Single
    MaxVersion = 2
    InitialVersion = 0
    ReportedFields = {"failure", "lifecycle", "version"}
    ReportsDuringUpdate = FALSE
    RestartMatchesEngines = TRUE
PROPERTY EveryExecutionReturns
PROPERTY CommitMeansLoaded
