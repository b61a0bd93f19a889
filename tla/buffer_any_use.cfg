SPECIFICATION Spec
CONSTANTS
    b1 = b1
    b2 = b2
    b3 = b3
    BatchIds = {b1, b2, b3}
    MaxBatches = 2
    MaxPolicyLag = 1
    MaxVersion = 3
    MaxPuts = 3
SYMMETRY Symmetry
INVARIANT FifoTail
INVARIANT StaleAccounting
PROPERTY TakenInOrderAndFresh
