SPECIFICATION Spec
CONSTANTS
    Programs = {"stdio", "io", "replace", "write"}
    Size = 2
    MaxVersions = 3
    MaxTemps = 2
    MaxCrashes = 2
INVARIANT TypeOK SuccessIsDurable
PROPERTY ReplacesAtomically
CHECK_DEADLOCK FALSE
