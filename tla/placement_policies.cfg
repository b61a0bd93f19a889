SPECIFICATION Spec
CONSTANTS
    none = none
    NumWorkers = 3
    WorkerStates <- States
    Rollouts <- Shapes
    Digests <- Draw
    Unit = 2
    WMakespan = 2000
    WPrefill = 500
    WSkew = 300
    WWait = 400
    RiskShare = 7
    RiskUnit = 20
    TurnCap = 6
    Nothing = none
INVARIANT PlacedOnServing
INVARIANT GreedyBalanced
INVARIANT RoundRobinFair
INVARIANT PackNotOutdone
INVARIANT SplitPays
