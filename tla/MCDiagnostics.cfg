SPECIFICATION FairSpec
CONSTANTS
    none = none
    Ids = {i}
    NoId = none
    Workers = {w1, w2}
    MaxChores = 2
    MaxFaults = 3
INVARIANT TypeOK
INVARIANT ClaimIsKept
INVARIANT SilentOnlyAreCut
PROPERTY WelcomedEventually
CHECK_DEADLOCK FALSE
