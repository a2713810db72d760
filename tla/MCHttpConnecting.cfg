CONSTANT MaxAddrs = 3
SPECIFICATION FairSpec
INVARIANTS FailureIsHonest NoLostWakeup PanicOnlyOnEmptyAnswer
PROPERTIES ImplementsDial KeepsResolveContract ReachableConnects Terminates
