CONSTANTS
    Workers = {q1, q2}
    Owners = {o1, o2}
    NoOwner = NoOwner
    Links = {l1, l2}
    faults = TRUE
SYMMETRY Symmetry
SPECIFICATION Spec
INVARIANTS UsableOnlyIfProven UsableOnlyIfApproved QueueTellsTheTruth
