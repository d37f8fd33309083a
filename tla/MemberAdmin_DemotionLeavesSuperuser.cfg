\* A demotion against the erasure of the other superuser.
SPECIFICATION Spec

CONSTANTS
    Requests = {r1, r2}
    Users = {u1, u2}
    NoUser = NoUser
    NoRequest = NoRequest
    defaultPageSize = 25
    maxPageSize = 100
    maxPage = 1000000
    MaxInt = 2147483647

SYMMETRY Symmetry

PROPERTIES
    DemotionLeavesSuperuser
