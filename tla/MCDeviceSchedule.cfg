SPECIFICATION FairSpec
CONSTANTS
    none = none
    Devices = {d}
    Workers = {w}
    Nonces = {n1, n2, n3, n4, n5, n6}
    NoNonce = none
    NoJob = none
    MaxToggles = 3
    MaxFaults = 3
INVARIANT TypeOK
INVARIANT SkippedIsOwed
INVARIANT OncePerPeriod
PROPERTY RefreshedEventually
CHECK_DEADLOCK FALSE
