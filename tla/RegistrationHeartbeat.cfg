CONSTANTS
    LossStates = {"idle", "failing"}
    MaxLate = 1
    MaxFailures = 3
    ClientBodies = {}
SPECIFICATION Spec
INVARIANT HeartbeatOnlyRefreshes
