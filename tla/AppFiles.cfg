SPECIFICATION FairSpec
CONSTANTS
    Requests = {"blf"}
    Pushes = {"blf", "fw"}
    Blocks <- TwoVersions
    Faults = {"read", "nomem", "cancel", "fail", "open", "write", "reset"}
    MaxFaults = 2
    MaxPushes = 1
    MaxQueue = 2
    Absent = Absent
    NoJob = NoJob
INVARIANT TypeOK CleanTransferInstalls
PROPERTY EventuallyCurrent
