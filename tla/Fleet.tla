-------------------------------- MODULE Fleet --------------------------------
(***************************************************************************)
(* What MonitorS shares with the outside and between its own goroutines:   *)
(* the instances EC2 runs for this ASG and the instance registry (the      *)
(* SQLite table of internal/adapters/persistence/sqlite.go, one statement  *)
(* per call).                                                              *)
(***************************************************************************)
EXTENDS FiniteSets, Functions

CONSTANTS
    Ids,       \* EC2 instance ids
    LocalIds,  \* ids that begin with "local-", for agents outside EC2
    OtherIds,  \* any other id somebody registers: a host name, for instance
    Rows       \* registry rows: records with at least status, excluded, load

VARIABLES
    aws,       \* ids of the pending or running instances this ASG launched
    registry,  \* row of every registered id
    draining   \* running instances whose agent was told to shut down

fleet == <<aws, registry, draining>>

ASSUME IdAssumption ==
    Ids \cap LocalIds = {} /\ (Ids \cup LocalIds) \cap OtherIds = {}

AllIds == Ids \cup LocalIds \cup OtherIds

IsActive(row) == row.status = "active"

\* Status active and not ExcludedFromAvg: the row counts for ControllerASG.
Counted(row) == IsActive(row) /\ ~row.excluded

NoRows == [i \in {} |-> 0]

Put(f, i, v) == [j \in DOMAIN f \cup {i} |-> IF j = i THEN v ELSE f[j]]

Without(f, i) == Restrict(f, DOMAIN f \ {i})

FleetInit ==
    /\ aws = {}
    /\ registry = NoRows
    /\ draining = {}

\* registry.Register and registry.Delete where the caller looks at the result.
Upsert(i, row) == registry' = Put(registry, i, row)
Delete(i) == registry' = Without(registry, i)

\* Delete where the error is dropped: a statement the database refuses (it is
\* busy, or the disk is full) goes unnoticed.
DeleteOrNot(i) == Delete(i) \/ UNCHANGED registry

\* An instance leaves EC2 and takes its agent with it.
Gone(i) ==
    /\ aws' = aws \ {i}
    /\ draining' = draining \ {i}

\* The best-effort Shutdown call to the agent of a running instance.
AskToShutDown(i) == draining' \in {draining, draining \cup ({i} \cap aws)}

FleetTypeOK ==
    /\ aws \subseteq Ids
    /\ draining \subseteq aws
    /\ DOMAIN registry \subseteq AllIds
    /\ registry \in [DOMAIN registry -> Rows]
=============================================================================
