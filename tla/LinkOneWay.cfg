SPECIFICATION Spec
CONSTANTS
    h = h
    e = e
    Host = h
    Ext = e
    Size <- OneWay
    DataTries = 3
    EofTries = 4
    Faults = {"loss", "corrupt"}
INVARIANTS WholeMessages OkMeansDelivered
PROPERTIES ImplementsService
