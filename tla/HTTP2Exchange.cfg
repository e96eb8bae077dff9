\* Six fingerprints, four requests, answers of up to three units, faults.
SPECIFICATION Spec
CONSTANTS
    Fingerprints <- MCFingerprints
    Requests <- MCRequests
    Answers <- MCAnswers
    DefaultWindow = 3
    Bad = Bad
    ConnWindow = 1
    MaxBody = 2
    Pipe = 2
    Faults = TRUE
INVARIANTS RequestIntact WholeAnswer HeaderTimeoutHonest NoStall
CHECK_DEADLOCK FALSE
