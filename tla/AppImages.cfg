SPECIFICATION FairSpec
CONSTANTS
    Images = {"a", "b", "c"}
    MainImages = {"a", "b"}
    Chunks = 2
    MaxPushes = 2
    MaxLosses = 1
    MaxTime = 2
    MaxQueue = 3
INVARIANT TypeOK CountExact CountCovers
PROPERTY ListedKept EventuallyShown
CHECK_DEADLOCK FALSE
