SPECIFICATION FairSpec
CONSTANTS
    h = h
    e = e
    Host = h
    Ext = e
    Size <- One
    DataTries = 2
    EofTries = 1
    Faults = {"late", "header", "loss", "spurious", "nomem"}
PROPERTIES EveryMessageResolved
