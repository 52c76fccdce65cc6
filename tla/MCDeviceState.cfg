SPECIFICATION Spec
CONSTANTS
    none = none
    Messages = {m1, m2, m3, m4}
    Events = {e}
    Workers = {w}
    MaxMessages = 2
    NoEvents = none
    NoJob = none
    MaxFaults = 1
SYMMETRY MessageSymmetry
INVARIANT TypeOK
INVARIANT DisplayIsCurrent
INVARIANT NewestIsDisplayed
CHECK_DEADLOCK FALSE
