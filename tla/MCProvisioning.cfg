SPECIFICATION FairSpec
CONSTANTS
    Workers = {w1, w2}
    Devices = {d, e}
    MinPool = 1
    MaxIds = 3
    MaxChores = 1
    MaxFaults = 1
    AllowList <- MCAllowList
INVARIANT TypeOK
INVARIANT IdsAreUnique
INVARIANT PooledIdsWork
INVARIANT PoolBounded
PROPERTY ImplementsIdentities
PROPERTY WorksEventually
PROPERTY RefilledEventually
CHECK_DEADLOCK FALSE
