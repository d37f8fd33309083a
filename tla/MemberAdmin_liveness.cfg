\* Three requests on one row: one can hold the row, the second the advisory lock
\* and wait for the row, the third wait for the advisory lock.  No symmetry, which
\* would not be sound for liveness.
SPECIFICATION FairSpec

CONSTANTS
    Requests = {r1, r2, r3}
    Users = {u1}
    NoUser = NoUser
    NoRequest = NoRequest
    defaultPageSize = 25
    maxPageSize = 100
    maxPage = 1000000
    MaxInt = 2147483647

PROPERTIES
    EveryRequestAnswered
