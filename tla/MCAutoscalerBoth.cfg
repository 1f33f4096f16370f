CONSTANTS
    i1 = i1
    i2 = i2
    i3 = i3
    Ids = {i1, i2, i3}
    LocalIds = {}
    OtherIds = {}
    None = None
    Rows <- PollRow
    LaunchTag = "ASG-Project2"
    DefaultTag = "Teleproy2-ASG"
    MinInstances = 2
    MaxInstances = 2
    ScaleUpThreshold = 70
    ScaleDownThreshold = 30
    EvaluationWindow = 1
    MaxFailures = 1
    Loads = {0}
    InitialFleet = {i1, i2}
    RegistryMayFail = FALSE
    TerminateMayFail = FALSE
SPECIFICATION AutoscalerSpec
INVARIANT ReplacementsFit
