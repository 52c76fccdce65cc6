SPECIFICATION Spec
CONSTANTS
    none = none
    Devices = {d}
    Workers = {v, w}
    Nonces = {n1, n2, n3, n4, n5}
    NoNonce = none
    NoJob = none
    MaxToggles = 1
    MaxFaults = 0
INVARIANT SkippedIsOwed
CHECK_DEADLOCK FALSE
