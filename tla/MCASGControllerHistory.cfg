CONSTANTS
    i1 = i1
    i2 = i2
    i3 = i3
    Ids = {i1, i2, i3}
    LocalIds = {}
    OtherIds = {}
    None = None
    Rows <- MCRows
    LaunchTag = "ASG-Project2"
    DefaultTag = "Teleproy2-ASG"
    MinInstances = 1
    MaxInstances = 2
    ScaleUpThreshold = 70
    ScaleDownThreshold = 30
    EvaluationWindow = 2
SPECIFICATION HistorySpec
SYMMETRY Symmetry
INVARIANTS
    TypeOK
    WithinMaxInstances
    ScaleDownLeavesMin
PROPERTIES
    NoLiveGhost
    ImplementsWindow
