\* Two logins and an armed account: four tokens, so that two pending sessions
\* can both be rotated.
SPECIFICATION Spec

CONSTANTS
    Requests = {r1, r2}
    SessionIds = {s1, s2, s3, s4}
    Secrets = {k1}
    NoSecret = NoSecret
    NoSession = NoSession
    MaxAttempts = 1
    MaxSkew = 0
    FirstStep = 2
    LastStep = 3
    AttemptBound = 1
    TotpOn = TRUE

SYMMETRY Symmetry

INVARIANTS
    OneRotationPerPending
    OneSessionPerCode

PROPERTIES
    NoPromotion
