CONSTANTS
    SendCap = 2
    MaxData = 3
SPECIFICATION FairSpec
INVARIANT ClosesInOrder
PROPERTY ShutdownEnds
