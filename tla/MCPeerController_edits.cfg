SPECIFICATION FairSpec
CONSTANTS
    h1 = h1  h2 = h2
    k0 = k0  k1 = k1  k2 = k2
    n1 = n1  n2 = n2
    Helpers = {h1, h2}
    Keys = {k1, k2}
    Nonces = {n1}
    Hosts = {1, 2}
    Protected = {}
    MaxPeers = 1
    MaxFaults = 1
    MaxKills = 0
    MaxEdits = 1
    NoOne = NoOne  NoKey = NoKey  NoNonce = NoNonce
PROPERTIES
    HandEditsSurvive
    RequestsAnswered
