SPECIFICATION Spec
CONSTANTS
    r1 = r1  r2 = r2  r3 = r3
    Requests = {r1, r2, r3}
    Operations <- ValidAndUnknown
    MaxRecords = 5
    MaxFaults = 1
    MaxCrashes = 2
    MaxReplaced = 1
SYMMETRY Interchangeable
INVARIANTS
    PerformedIsIntended
    AnswerIsRecorded
    ReopensAfterQuietStop
CHECK_DEADLOCK FALSE
