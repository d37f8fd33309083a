\* Two requests at a time on three members: a superuser, an admin and a target.
SPECIFICATION Spec

CONSTANTS
    Requests = {r1, r2}
    Users = {u1, u2, u3}
    NoUser = NoUser
    NoRequest = NoRequest
    defaultPageSize = 25
    maxPageSize = 100
    maxPage = 1000000
    MaxInt = 2147483647

SYMMETRY Symmetry

INVARIANTS
    TypeOK
    SuperuserRemains
    AdminStaysInScope
    NoWaitCycle

PROPERTIES
    DemotionRevokes
