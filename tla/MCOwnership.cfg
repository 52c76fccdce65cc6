SPECIFICATION Spec
CONSTANTS
    ua = ua
    ub = ub
    da = da
    db = db
    n = n
    unnamed = unnamed
    absent = absent
    nobody = nobody
    none = none
    Users = {ua, ub}
    Devices = {da, db}
    Names = {n}
    NoName = unnamed
    Absent = absent
    NoUser = nobody
    NoRequest = none
    Requests <- MCRequests
    Workers = {w1, w2}
SYMMETRY WorkerSymmetry
INVARIANT TypeOK
INVARIANT OpenedByOwner
INVARIANT ListedOnlyIfGranted
INVARIANT ListIsCurrent
PROPERTY OwnerIsForever
CHECK_DEADLOCK FALSE
