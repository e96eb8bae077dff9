\* The same instance without faults: answers with trailers.
SPECIFICATION Spec
CONSTANTS
    Fingerprints <- MCFingerprints
    Requests <- MCRequests
    Answers <- MCAnswers
    DefaultWindow = 3
    Bad = Bad
    ConnWindow = 1
    MaxBody = 2
    Pipe = 2
    Faults = FALSE
INVARIANT StatusAsAnswered
CHECK_DEADLOCK FALSE
