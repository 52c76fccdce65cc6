SPECIFICATION Spec
CONSTANTS
    none = none
    Messages = {m1, m2, m3, m4}
    Events = {e}
    Workers = {w}
    MaxMessages = 2
    NoEvents = none
    NoJob = none
    MaxFaults = 0
INVARIANT RetainsNewest
CHECK_DEADLOCK FALSE
