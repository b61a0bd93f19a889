SPECIFICATION FairSpec
CONSTANTS
    mixed = mixed
    none = none
    Mixed = mixed
    NoBatch = none
    MaxBatches = 1
    MaxPolicyLag = 1
    StartRollout = 1
    NumRollout = 5
    FirstVersion = 1
    MaxFaults = 3
    CallsRaise = TRUE
CHECK_DEADLOCK FALSE
INVARIANT TypeOK
INVARIANT EachRolloutOnce
INVARIANT LabelsAreTrue
 
PROPERTY NoStraddle
PROPERTY ImplementsContract
PROPERTY TryDisposes
