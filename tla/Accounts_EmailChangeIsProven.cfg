\* Two updates of one member in flight.
SPECIFICATION Spec

CONSTANTS
    Requests = {r1, r2}
    Users = {u1, u2}
    Emails = {e1, e2}
    Passwords = {p1, p2}
    SessionIds = {s1, s2, s3}
    FirstPassword = FirstPassword
    NoEmail = NoEmail
    NoUser = NoUser
    NoRequest = NoRequest

SYMMETRY Symmetry

PROPERTIES
    EmailChangeIsProven
