\* Two secrets and two attempts: enrollments that supersede each other, and
\* failures recorded on one row by two requests.
SPECIFICATION Spec

CONSTANTS
    Requests = {r1, r2}
    SessionIds = {s1, s2}
    Secrets = {k1, k2}
    NoSecret = NoSecret
    NoSession = NoSession
    MaxAttempts = 2
    MaxSkew = 1
    FirstStep = 2
    LastStep = 2
    AttemptBound = 2
    TotpOn = TRUE

SYMMETRY Symmetry

INVARIANTS
    TypeOK
    EnabledHasSecret
    OverBudgetIsDoomed

PROPERTIES
    NoSilentSwap
    PendingIsOneTime
