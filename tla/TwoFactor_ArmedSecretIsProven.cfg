SPECIFICATION Spec

CONSTANTS
    Requests = {r1, r2}
    SessionIds = {s1, s2, s3}
    Secrets = {k1, k2}
    NoSecret = NoSecret
    NoSession = NoSession
    MaxAttempts = 2
    MaxSkew = 1
    FirstStep = 2
    LastStep = 3
    AttemptBound = 3
    TotpOn = TRUE

SYMMETRY Symmetry

INVARIANTS
    ArmedSecretIsProven
