SPECIFICATION FairStatusSpec
CONSTANTS
    t1 = t1  t2 = t2  t3 = t3
    Threads = {t1, t2, t3}
    TTL = 2
    ReadLimit = 1
    MaxClock = 3
    MaxFlights = 2
    Interval = 2
    HistoryLimit = 1
INVARIANTS
    OneCommandAtATime
    AnswersAreFresh
PROPERTIES
    StatusEvidenced
    RequestsEnd
CHECK_DEADLOCK FALSE
