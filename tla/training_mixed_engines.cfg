SPECIFICATION Spec
CONSTANTS
    mixed = mixed
    none = none
    Mixed = mixed
    NoBatch = none
    MaxBatches = 1
    MaxPolicyLag = 1
    StartRollout = 0
    NumRollout = 3
    FirstVersion = 1
    MaxFaults = 2
    CallsRaise = FALSE
CHECK_DEADLOCK FALSE
PROPERTY PrefetchNeverEndsRun
