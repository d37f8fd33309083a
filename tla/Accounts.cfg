\* Two requests at a time on two members, who compete for two addresses.
SPECIFICATION Spec

CONSTANTS
    Requests = {r1, r2}
    Users = {u1, u2}
    Emails = {e1, e2}
    Passwords = {p1, p2}
    SessionIds = {s1, s2, s3}
    FirstPassword = FirstPassword
    NoEmail = NoEmail
    NoUser = NoUser
    NoRequest = NoRequest

SYMMETRY Symmetry

INVARIANTS
    TypeOK
    EmailsUnique
    PasswordStaysReplaced
    PlainOkContains
    EditKeepsAddress
