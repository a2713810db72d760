CONSTANTS
    Lookups = {l1, l2, l3}
    MaxBlocking = 2
SPECIFICATION FairSpec
PROPERTIES KeepsContract Served
