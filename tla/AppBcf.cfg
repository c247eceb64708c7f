SPECIFICATION Spec
CONSTANTS
    Requests = {"bcf"}
    Pushes = {}
    Blocks <- TwoVersions
    Faults = {}
    MaxFaults = 0
    MaxPushes = 0
    MaxQueue = 2
    Absent = Absent
    NoJob = NoJob
INVARIANT BcfInstalls
