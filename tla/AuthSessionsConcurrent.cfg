SPECIFICATION Spec

CONSTANTS
    Requests = {r1, r2}
    Users = {u1}
    Passwords = {p1, p2}
    Token = {t1, t2, t3}
    Family = {f1, f2}
    TTL = 1
    MaxClock = 1
    None = None

SYMMETRY Symmetry

INVARIANT TypeOK
INVARIANT RotatedTokenIsRevoked
INVARIANT SessionsAreNotLost
PROPERTY DeadFamilyStaysDead
PROPERTY DeactivatedAccountGetsNoToken
PROPERTY ImplementsLedger
