CONSTANTS
    i1 = i1
    i2 = i2
    h1 = h1
    Ids = {i1, i2}
    LocalIds = {}
    OtherIds = {h1}
    None = None
    Rows <- MCRows
    LaunchTag = "ASG-Project2"
    DefaultTag = "Teleproy2-ASG"
    MinInstances = 2
    MaxInstances = 3
    ScaleUpThreshold = 70
    ScaleDownThreshold = 30
    EvaluationWindow = 2
SPECIFICATION FairSpec
PROPERTY RecoversWheneverBelow
