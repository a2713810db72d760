CONSTANTS
    BufSize = 3
    ReadSize = 2
    SendCap = 1
    RecvCap = 2
    HeadLen = 1
    MaxRequest = 2
    MaxReply = 5
SPECIFICATION FairSpec
INVARIANTS BodyBound EndIsWhole PanicOnlyOnExcess BrokenIsHonest
PROPERTIES NoGap RequestReturns BodyEnds
