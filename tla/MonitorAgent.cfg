CONSTANTS
    LossStates = {"idle", "failing"}
    MaxLate = 2
SPECIFICATION AgentSpec
INVARIANTS
    AgentTypeOK
    OneConnection
    ClientRegistered
PROPERTY ImplementsMembership
