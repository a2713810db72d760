CONSTANTS
    RequestLen = 2
    StatusLen = 1
    MaxReply = 5
SPECIFICATION FairSpec
INVARIANTS EstablishedIsComplete FailureIsHonest
PROPERTIES Establishes Completes
