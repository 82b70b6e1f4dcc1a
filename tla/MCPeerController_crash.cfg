SPECIFICATION Spec
CONSTANTS
    h1 = h1  h2 = h2
    k0 = k0  k1 = k1  k2 = k2
    n1 = n1  n2 = n2
    Helpers = {h1, h2}
    Keys = {k0, k1, k2}
    Nonces = {n1, n2}
    Hosts = {1, 2}
    Protected = {k0}
    MaxPeers = 3
    MaxFaults = 1
    MaxKills = 1
    MaxEdits = 0
    NoOne = NoOne  NoKey = NoKey  NoNonce = NoNonce
SYMMETRY Interchangeable
INVARIANTS
    AddressesDistinct
    DetectedFailureRepaired
    NonceIssuesOnce
    CreatedPeersKeepConfig
    DeletedStaysDeleted
    ProtectedServed
PROPERTIES
    FailedLeavesNoTrace
    ImplementsRegistry
