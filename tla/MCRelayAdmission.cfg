SPECIFICATION RelayFairSpec
CONSTANTS
    r1 = r1  r2 = r2  r3 = r3
    Requests = {r1, r2, r3}
    Slots = 2
    Kinds = {"action", "status", "login"}
    Slotted = {"action"}
    Local = {"login"}
    Burst <- MCBurst
    Cost <- MCCost
    MaxClock = 2
INVARIANTS
    RateBound
    SlotsConserved
PROPERTIES
    SlotsReturn
CHECK_DEADLOCK FALSE
