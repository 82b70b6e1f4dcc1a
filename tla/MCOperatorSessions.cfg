SPECIFICATION Spec
CONSTANTS
    b1 = b1  b2 = b2  t1 = t1  t2 = t2
    Browsers = {b1, b2}
    Tabs = {t1, t2}
    BrowserOf <- OneBrowser
    Lifetime = 1
    MaxSessions = 2
    MaxClock = 1
    MaxSignIns = 3
    MaxPages = 3
    MaxRestarts = 1
SYMMETRY Interchangeable
PROPERTIES
    AdmittedWhileInForce
    RefusedForCause
CHECK_DEADLOCK FALSE
