SPECIFICATION Spec
CONSTANTS
    Domain = 4
    Alphabet = {0, 1, 170, 240, 250, 255}
    MaxLen = 5
    Inputs <- AllMessages
INVARIANTS FitsDomain Reassembles UndamagedAccepted OneByteDetected DataAndCrcClean
