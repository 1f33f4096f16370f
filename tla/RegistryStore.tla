---------------------------- MODULE RegistryStore ----------------------------
(***************************************************************************)
(* What the two registries do with a row (internal/adapters/persistence):  *)
(* SQLite, a table that Register overwrites row by row, and the map in     *)
(* memory that MonitorS falls back to, whose Register keeps what the       *)
(* caller leaves out and whose List hands out the rows themselves.         *)
(*                                                                         *)
(* Of a row the model keeps the address and the status, and of its meta    *)
(* the port and the failures, which the polls go by.                       *)
(***************************************************************************)
EXTENDS Naturals

CONSTANTS
    MaxFailures,  \* SchedulerOpts.MaxFailures
    ClientBodies  \* what clients of POST /register pass

Kinds == {"sqlite", "memory"}

\* The number of failures stands for itself up to MaxFailures, which stands for
\* any greater one.  A meta without grpc_port has the port agents listen on by
\* default, "own".
Meta == [failures : 0..MaxFailures, port : {"own", "other"}]

NoMeta == [failures |-> 0, port |-> "own"]

Row == [ip : {"none", "own", "other"}, active : BOOLEAN, meta : Meta]

Absent == [ip |-> "none", active |-> FALSE, meta |-> NoMeta, absent |-> TRUE]

\* What a caller passes to Register: an address or "", a meta of its own or
\* none (Meta == nil), and a status or ""; "inactive" is any status that is not
\* active.
Body == {b \in [ip : {"none", "own", "other"}, meta : Meta, withMeta : BOOLEAN,
                status : {"", "active", "inactive"}] :
            b.withMeta \/ b.meta = NoMeta}

ASSUME FailuresAssumption == MaxFailures \in Nat \ {0}
ASSUME BodiesAssumption == ClientBodies \subseteq Body

\* monitorSServer.Register, for an agent.
AgentBody == [ip |-> "own", meta |-> NoMeta, withMeta |-> TRUE, status |-> ""]

\* MonitorService.Heartbeat: the id and nothing else.
HeartbeatBody ==
    [ip |-> "none", meta |-> NoMeta, withMeta |-> FALSE, status |-> ""]

\* pollInstance, which always has a meta and the row's own status.
PolledBody(row) ==
    [ip |-> row.ip, meta |-> row.meta, withMeta |-> TRUE,
     status |-> IF row.active THEN "active" ELSE "inactive"]

\* SQLiteRegistry.Register: INSERT, or UPDATE of every column but created_at.
SQLiteRow(body) ==
    [ip |-> body.ip, active |-> body.status # "inactive", meta |-> body.meta]

\* InMemoryRegistry.Register for an id it has not got.
NewMemoryRow(body) == [ip |-> body.ip, active |-> TRUE, meta |-> body.meta]

\* Mutant: the map forgets what the caller leaves out, as the table does.
OverwrittenRow(row, body) == NewMemoryRow(body)

\* InMemoryRegistry.Register for an id it has.
MergedRow(row, body) ==
    [ip     |-> IF body.ip # "none" THEN body.ip ELSE row.ip,
     active |-> TRUE,
     meta   |-> IF body.withMeta THEN body.meta ELSE row.meta]

\* The row after Register(body), of the row there was.
Registered(kind, row, body) ==
    CASE kind = "sqlite"                  -> SQLiteRow(body)
      [] kind = "memory" /\ row = Absent  -> NewMemoryRow(body)
      [] kind = "memory" /\ row # Absent  -> MergedRow(row, body)

\* Whether the row is that of an agent which polls reach.
AtAgent(row) == row.ip = "own" /\ row.meta.port = "own"
=============================================================================
