SPECIFICATION EitherSpec
CONSTANTS
    c1 = c1  c2 = c2  c3 = c3
    Clients = {c1, c2, c3}
    Profiles = {"awg3", "wg"}
    Home <- TwoProfiles
    Enrolled = {c1}
    FirstProfile = "awg3"
    MaxCalls = 4
    MaxForeign = 1
    NoClient = NoClient
    Order <- TwoCards
    Forms = {"endpoint", "port"}
    MaxTasks = 3
    MaxElsewhere = 1
INVARIANTS
    DisplayIsCurrent
    GatesTrackCalls
PROPERTIES
    NoLostEdit
    SettingsSavedAsShown
CHECK_DEADLOCK FALSE
