CONSTANTS
    Users = {u1, u2}
    NoUser = NoUser
    Handlers = {h1, h2}
    MaxRequests = 2
    MaxOutside = 1
    faults = TRUE
SYMMETRY Symmetry
CHECK_DEADLOCK FALSE
SPECIFICATION GroupSpec
INVARIANTS AnswerHolds
PROPERTY OpenRequestsStay
