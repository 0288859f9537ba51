CONSTANTS
    Writers = {w1, w2}
    auditRingSize = 3
    Limit = 2
    Legacy = 2
    MaxSeq = 5
    MaxRestarts = 1
    faults = TRUE
SYMMETRY Symmetry
CHECK_DEADLOCK FALSE
SPECIFICATION Spec
INVARIANTS EachOnceInOrder NothingSkippedInTime NewestFirstWhenQuiet
