SPECIFICATION Spec
CONSTANTS
    t1 = t1  t2 = t2
    c1 = c1  c2 = c2
    a1 = a1  a2 = a2
    n1 = n1  n2 = n2
    v1 = v1  v2 = v2
    Threads = {t1, t2}
    Clients = {c1, c2}
    Existing = {c1}
    Nonces = {n1, n2}
    Hosts = {a1, a2}
    Server = Server
    Documents = {Server, c1}
    Contents = {v1, v2}
    MaxResults = 1
    MaxRequests = 4
    MaxLost = 1
    MaxRestarts = 1
    NoThread = NoThread  NoClient = NoClient
SYMMETRY Interchangeable
INVARIANTS
    RepeatsHaveCause
    RememberedDeletionsHold
PROPERTIES
    OkIsEffective
