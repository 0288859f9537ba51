CONSTANTS
    MaxE164 = 3
    MaxCode = 2
    MaxText = 3
    Workers = {q1, q2}
    Names = {n1}
    NoName = NoName
    Emails = {e1, e2}
    NoEmail = NoEmail
    Keys = {k1, k2}
    OldPhones <- MCOldPhones
    TypedPhones <- MCTypedPhones
SYMMETRY Symmetry
SPECIFICATION ProfileSpec
INVARIANTS EditsPersist EmailIsProven AcceptedNumberReturns
