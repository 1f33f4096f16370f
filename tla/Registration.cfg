CONSTANTS
    LossStates = {"idle", "failing"}
    MaxLate = 1
    MaxFailures = 2
    ClientBodies <- ClientBodiesMC
SPECIFICATION FairSpec
INVARIANTS
    TypeOK
    DeadByItsOwnFailures
PROPERTIES
    EventuallyRegistered
    LostInstanceForgotten
