SPECIFICATION FairSpec
CONSTANTS
    Window = 2
    TicksPerSecond = 2
    MaxFw = 2
    MaxFaults = 2
    MaxCalls = 1
    MaxQueue = 2
INVARIANT TypeOK KnownToMain RightHandler
PROPERTY OncePerWindow EventuallyLoggedIn
