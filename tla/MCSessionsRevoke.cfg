CONSTANTS
    Workers = {q1, q2}
    Sids = {s1, s2}
    NoSid = NoSid
    idleTimeout = 2
    MaxInFlight = 1
    userSessionsTTL = 3
    MaxTime = 2
    MaxPw = 1
    Settings <- Reliable
SYMMETRY Symmetry
CHECK_DEADLOCK FALSE
SPECIFICATION Spec
INVARIANT RevocationIsFinal
