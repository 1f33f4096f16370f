CONSTANTS
    MinInstances = 2
    MaxInstances = 5
    ScaleUpThreshold = 70
    ScaleDownThreshold = 30
    EvaluationWindow = 3
    MaxCount = 6
    LoadStep = 5
SPECIFICATION StreaksSpec
INVARIANTS
    StreaksTypeOK
    DesiredMeetsReference
    ActionDoesNotThrash
    FullWindowChangesSize
PROPERTY ImplementsWindow
