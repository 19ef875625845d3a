SPECIFICATION Spec

SYMMETRY Symmetry

CONSTANTS
    Requests = {r1, r2}
    Users = {u1}
    None = None
    ACCESS_TTL = 1
    TTL = 2
    MaxClock = 2
    MaxTokens = 1


INVARIANT TypeOK
INVARIANT WriterWasAdmin
PROPERTY LockedOutStaysOut
