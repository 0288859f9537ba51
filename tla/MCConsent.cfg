CONSTANTS
    Workers = {q1, q2}
    c1 = c1
    c2 = c2
    g1 = g1
    Clients = {c1, c2}
    NoClient = NoClient
    Groups = {g1}
    Configs <- MCConfigs
    MaxFailures = 1
SPECIFICATION Spec
INVARIANTS LapseIsFollowedUp SignedOutIsForgotten
PROPERTIES SteadyMembersKeepConsent LapsedConsentEnds
