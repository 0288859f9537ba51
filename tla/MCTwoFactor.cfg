CONSTANTS
    Workers = {q1, q2}
    Tokens = {t1, t2}
    Challenges = {k1, k2}
    NoChallenge = NoChallenge
    MaxRequests = 2
    faults = TRUE
SYMMETRY Symmetry
SPECIFICATION Spec
INVARIANTS ActiveTokenBehindOTP ChallengeSpentOnce VerifiedPasskeyIsStored EachRequestAnsweredOnce
