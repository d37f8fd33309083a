\* Two requests in flight, three tokens: the last of three tries can be lost.
SPECIFICATION Spec

CONSTANTS
    Requests = {r1, r2}
    Tokens = {t1, t2, t3}
    SessionIds = {s1}
    OldPassword = OldPassword
    None = None
    MaxIssue = 3

SYMMETRY Symmetry

INVARIANTS
    TypeOK
    SingleUse
    OnlyNewestUsable
    TruthfulRefusal
    RetriesAreLostToRivals
    SuccessMeansWritten
    OldSessionsEnd

PROPERTIES
    TokensAreOneTime
