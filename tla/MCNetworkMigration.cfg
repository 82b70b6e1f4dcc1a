SPECIFICATION FairSpec
CONSTANTS
    s1 = s1  s2 = s2  s3 = s3
    Settings = {s1, s2}
    Clients = 2
    Down = Down
    Sizes = {8, 16}
    MaxFaults = 2
    MaxKills = 2
    MaxEdits = 1
INVARIANTS
    FilesAgree
PROPERTIES
    WrittenWhileDown
    RecoveryRestores
    EditsSurvive
    NextCallRepairs
