SPECIFICATION FairSpec
CONSTANTS
    h = h
    e = e
    Host = h
    Ext = e
    Size <- ThreeThenOne
    DataTries = 2
    EofTries = 2
    Faults = {"loss", "late", "spurious", "port", "nomem"}
INVARIANTS TypeOK OnceInOrder
PROPERTIES EveryMessageResolved
