CONSTANTS
    i1 = i1
    i2 = i2
    i3 = i3
    i4 = i4
    Ids = {i1, i2, i3, i4}
    LocalIds = {}
    OtherIds = {}
    Rows <- PollRow
    MinInstances = 2
    MaxInstances = 2
    MaxFailures = 2
    Loads = {50}
    InitialFleet = {i1, i2}
    RegistryMayFail = FALSE
    TerminateMayFail = FALSE
SPECIFICATION FairHistorySpec
INVARIANTS
    ReplacementsFit
    DeadAfterConsecutiveFailures
PROPERTY LostInstancesForgotten
