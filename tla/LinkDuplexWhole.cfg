SPECIFICATION Spec
CONSTANTS
    h = h
    e = e
    Host = h
    Ext = e
    Size <- Duplex
    DataTries = 2
    EofTries = 2
    Faults = {"loss", "corrupt"}
INVARIANTS WholeMessages
