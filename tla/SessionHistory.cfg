SPECIFICATION HSpec

CONSTANTS
    Requests = {r1, r2}
    Users = {u1}
    Passwords = {p1, p2}
    Token = {t1, t2, t3}
    Family = {f1, f2}
    TTL = 1
    MaxClock = 0
    None = None

SYMMETRY Symmetry

INVARIANT UncontendedPromisesHold
INVARIANT OldPasswordOpensNothing
