SPECIFICATION FairSpec
CONSTANTS
    MaxMessages = 3
    MaxOwed = 3
    MaxFaults = 5
INVARIANT TypeOK
INVARIANT ShownIsWhole
INVARIANT NoneForgotten
PROPERTY ImplementsMailbox
PROPERTY WorksEventually
PROPERTY PoppedEventually
CHECK_DEADLOCK FALSE
