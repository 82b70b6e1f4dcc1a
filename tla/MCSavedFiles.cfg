SPECIFICATION SavedSpec
CONSTANTS
    h1 = h1  h2 = h2
    c1 = c1  c2 = c2
    f1 = f1  f2 = f2  f3 = f3
    Hosts = {h1, h2}
    Clients = {c1, c2}
    Fields = {f1, f2, f3}
    MaxCalls = 3
    MaxFaults = 2
    MaxEdits = 1
SYMMETRY Interchangeable
PROPERTIES
    EditReplacesShown
    FailureIsClean
