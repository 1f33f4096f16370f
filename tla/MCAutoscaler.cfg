CONSTANTS
    i1 = i1
    i2 = i2
    Ids = {i1, i2}
    LocalIds = {}
    OtherIds = {}
    None = None
    Rows <- PollRow
    LaunchTag = "ASG-Project2"
    DefaultTag = "Teleproy2-ASG"
    MinInstances = 1
    MaxInstances = 2
    ScaleUpThreshold = 70
    ScaleDownThreshold = 30
    EvaluationWindow = 1
    MaxFailures = 2
    Loads = {0}
    InitialFleet = {i1}
    RegistryMayFail = TRUE
    TerminateMayFail = TRUE
SPECIFICATION FairAutoscalerSpec
INVARIANTS
    PollTypeOK
    ScaleDownKeepsMinimum
PROPERTIES
    LiveRowsStay
    ImplementsLoop
    RestoresMinimum
