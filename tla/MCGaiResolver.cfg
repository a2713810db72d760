CONSTANTS
    Lookups = {l1, l2, l3}
    Threads = {h1, h2}
SPECIFICATION FairSpec
INVARIANT OneJob
PROPERTIES KeepsContract Served
