CONSTANTS
    Workers = {q1, q2}
    Links = {l1, l2}
    NoLink = NoLink
    resendCooldown = 1
    tokenMaxAge = 2
    faults = TRUE
SYMMETRY Symmetry
SPECIFICATION Spec
INVARIANTS SingleUseInTurn RefusedOnlyAfterMail FailedResetCanBeRetried
PROPERTY CooldownInTurn
