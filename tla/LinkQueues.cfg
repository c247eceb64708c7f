SPECIFICATION FairSpec
CONSTANTS
    MAX_EXTBOARD = 3
    CntRange = 2
    MaxSends = 2
    MaxArrivals = 3
INVARIANTS TypeOK SleepsOnlyWhenEmpty MutexReleased NoneStranded CountsMatch WaitingIsMarked SeenInOrder
PROPERTIES EveryArrivalSeen EveryQueuedLeaves
