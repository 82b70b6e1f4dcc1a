SPECIFICATION Spec
CONSTANTS
    p1 = p1  p2 = p2  p3 = p3
    Ports = {p1, p2, p3}
    Down = Down
    MaxFaults = 2
    MaxKills = 3
    MaxEdits = 2
SYMMETRY Interchangeable
INVARIANTS
    ConsistentAtRest
    ServedPortOpen
PROPERTIES
    FailureRestores
    EditsSurvive
