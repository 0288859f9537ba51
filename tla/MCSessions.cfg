CONSTANTS
    Workers = {q1, q2}
    Sids = {s1, s2}
    NoSid = NoSid
    idleTimeout = 1
    MaxInFlight = 1
    userSessionsTTL = 2
    MaxTime = 3
    MaxPw = 1
    Settings <- MCSettings
SYMMETRY Symmetry
CHECK_DEADLOCK FALSE
SPECIFICATION Spec
INVARIANTS TypeOK MarkerOutlivesOldSessions IndexComplete QuietRevocationIsFinal
           OldPasswordSignedOut
