\* A reset against a login in flight.
SPECIFICATION Spec

CONSTANTS
    Requests = {r1, r2}
    Tokens = {t1, t2, t3}
    SessionIds = {s1, s2}
    OldPassword = OldPassword
    None = None
    MaxIssue = 3

SYMMETRY Symmetry

INVARIANTS
    ResetEndsEverySession
