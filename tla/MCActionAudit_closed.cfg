SPECIFICATION Spec
CONSTANTS
    r1 = r1  r2 = r2  r3 = r3
    Requests = {r1, r2}
    Operations <- Offered
    MaxRecords = 4
    MaxFaults = 0
    MaxCrashes = 0
    MaxReplaced = 0
SYMMETRY Interchangeable
INVARIANTS
    ClosedOnlyByFailure
CHECK_DEADLOCK FALSE
