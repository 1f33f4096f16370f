---------------------------- MODULE PollScheduler ----------------------------
(***************************************************************************)
(* The polling side of MonitorS: StartSchedulers and pollInstance          *)
(* (pkg/monitor/monitor.go), and ControllerASG.HandleDeadInstance          *)
(* (internal/controller/asg.go), which pollInstance calls in its own       *)
(* goroutine.                                                              *)
(*                                                                         *)
(* Every tick copies the registry and starts one goroutine per active row; *)
(* the next tick waits for all of them (wg.Wait).  A goroutine works on its *)
(* copy of the row and writes it back whole, so what happens to the row    *)
(* meanwhile is overwritten.                                               *)
(***************************************************************************)
EXTENDS Integers, Fleet

CONSTANTS
    MinInstances,
    MaxInstances,
    MaxFailures,       \* SchedulerOpts.MaxFailures
    Loads,             \* the cpu_load values the agents report
    InitialFleet,      \* the instances that run and are registered at the start
    RegistryMayFail,   \* may the registry refuse a statement?
    TerminateMayFail   \* may EC2 refuse to terminate an instance?

VARIABLE polls   \* the goroutines of the current round: id -> step and row copy

vars == <<fleet, polls>>

ASSUME PollAssumption ==
    /\ MaxFailures \in Nat \ {0}
    /\ MinInstances \in Nat \ {0}
    /\ MaxInstances \in Nat
    /\ {RegistryMayFail, TerminateMayFail} \subseteq BOOLEAN
    /\ InitialFleet \subseteq Ids

\* The rows of this module.
PollRow == [status : {"active"}, excluded : BOOLEAN,
            failures : 0..MaxFailures, load : Loads \cup {0}]

\* monitorSServer.Register: the agent's meta, no load and no failures in it.
RegisteredRow ==
    [status |-> "active", excluded |-> FALSE, failures |-> 0, load |-> 0]

\* Mutants: a success does not clear the failures; a failure is not counted;
\* one poll more than MaxFailures has to fail.
OkKeepsFailures(row, load) == [row EXCEPT !.load = load, !.excluded = FALSE]
BadUncounted(row) == [row EXCEPT !.excluded = TRUE]
DeadTooLate(row)  == row.failures > MaxFailures

PolledOk(row, load) ==
    [row EXCEPT !.load = load, !.failures = 0, !.excluded = FALSE]

PolledBad(row) ==
    [row EXCEPT !.failures = @ + 1, !.excluded = TRUE]

DeclaredDead(row) == row.failures >= MaxFailures

ASSUME PollRowAssumption == PollRow \subseteq Rows

Steps == {"dial", "write", "terminate", "delete", "count", "create"}

At(step, i) == i \in DOMAIN polls /\ polls[i].step = step

Goto(i, step) == polls' = [polls EXCEPT ![i].step = step]

Done(i) == polls' = Without(polls, i)

ActiveRows == {i \in DOMAIN registry : IsActive(registry[i])}

-----------------------------------------------------------------------------
PollInit ==
    /\ aws = InitialFleet
    /\ registry = [i \in InitialFleet |-> RegisteredRow]
    /\ draining = {}
    /\ polls = NoRows

\* The ticker fires and no goroutine is left from the last round.  A failing
\* ListInstances skips the tick.
StartRound ==
    /\ polls = NoRows
    /\ polls' = [i \in ActiveRows |-> [step |-> "dial", row |-> registry[i]]]
    /\ UNCHANGED fleet

\* Ping and GetMetrics succeed and carry the right instance id.  An agent that
\* was told to shut down still answers, with Success = false.
Answers(i) == i \in aws \ draining

PollOk(i, load) ==
    /\ At("dial", i)
    /\ Answers(i)
    /\ polls' = [polls EXCEPT ![i] =
                    [step |-> "write", row |-> PolledOk(polls[i].row, load)]]
    /\ UNCHANGED fleet

\* Any poll may fail: the network, the timeout, the agent.
PollFails(i) ==
    /\ At("dial", i)
    /\ LET row == PolledBad(polls[i].row)
       IN  polls' = [polls EXCEPT ![i] =
               [step |-> IF DeclaredDead(row) THEN "terminate" ELSE "write",
                row |-> row]]
    /\ UNCHANGED fleet

\* RegisterInstance(inst), error dropped.
WriteBack(i) ==
    /\ At("write", i)
    /\ \/ Upsert(i, polls[i].row)
       \/ RegistryMayFail /\ UNCHANGED registry
    /\ Done(i)
    /\ UNCHANGED <<aws, draining>>

-----------------------------------------------------------------------------
\* HandleDeadInstance.

\* GracefulTerminate: the Shutdown call may still reach the agent, and an
\* instance EC2 no longer runs counts as terminated.
TerminateDead(i) ==
    /\ At("terminate", i)
    /\ \/ Gone(i)
       \/ TerminateMayFail /\ AskToShutDown(i) /\ UNCHANGED aws
    /\ Goto(i, "delete")
    /\ UNCHANGED registry

DeleteDead(i) ==
    /\ At("delete", i)
    /\ \/ Delete(i)
       \/ RegistryMayFail /\ UNCHANGED registry
    /\ Goto(i, "count")
    /\ UNCHANGED <<aws, draining>>

\* GetAggregatedMetrics counts every active row, excluded or not.  When it
\* fails, and List after it, the count is zero.
CountActive(i) ==
    /\ At("count", i)
    /\ \/ IF Cardinality(ActiveRows) < MinInstances THEN Goto(i, "create")
                                                    ELSE Done(i)
       \/ RegistryMayFail /\ Goto(i, "create")
    /\ UNCHANGED fleet

Unused(j) == j \in Ids \ (aws \cup DOMAIN registry \cup DOMAIN polls)

\* Mutant: the goroutine counts again instead of ending.
CreateUntilEnough(i) ==
    /\ At("create", i)
    /\ \/ \E j \in Ids : Unused(j) /\ aws' = aws \cup {j}
       \/ UNCHANGED aws
    /\ Goto(i, "count")
    /\ UNCHANGED <<registry, draining>>

\* RecoverIfNeeded launches one instance; an error ends the goroutine as well.
CreateReplacement(i) ==
    /\ At("create", i)
    /\ \/ \E j \in Ids : Unused(j) /\ aws' = aws \cup {j}
       \/ UNCHANGED aws
    /\ Done(i)
    /\ UNCHANGED <<registry, draining>>

-----------------------------------------------------------------------------
\* The agents and EC2.

\* An agent registers when it starts and when it finds its connection lost.
AgentRegisters(i) ==
    /\ i \in aws
    /\ Upsert(i, RegisteredRow)
    /\ UNCHANGED <<aws, draining, polls>>

\* An agent that is interrupted deregisters, unless its reconnector has closed
\* the connection by then; one that is killed does not.  systemd starts it
\* again, and the new process knows of no Shutdown.
AgentStops(i) ==
    /\ i \in aws
    /\ DeleteOrNot(i)
    /\ draining' = draining \ {i}
    /\ UNCHANGED <<aws, polls>>

InstanceLost(i) ==
    /\ i \in aws
    /\ Gone(i)
    /\ UNCHANGED <<registry, polls>>

-----------------------------------------------------------------------------
Poll(i) ==
    \/ \E load \in Loads : PollOk(i, load)
    \/ PollFails(i)

HandleDead(i) ==
    TerminateDead(i) \/ DeleteDead(i) \/ CountActive(i) \/ CreateReplacement(i)

Scheduler ==
    \/ StartRound
    \/ \E i \in AllIds : Poll(i) \/ WriteBack(i) \/ HandleDead(i)

World == \E i \in Ids : AgentRegisters(i) \/ AgentStops(i) \/ InstanceLost(i)

\* MonitorS is killed and started again, with the registry it left.
SchedulerRestarts ==
    /\ polls' = NoRows
    /\ UNCHANGED fleet

PollNext == Scheduler \/ World \/ SchedulerRestarts

PollSpec == PollInit /\ [][PollNext]_vars

\* Each goroutine runs, dials with a timeout and calls out; the calls return.
PollFairness ==
    /\ WF_vars(StartRound)
    /\ \A i \in AllIds :
          WF_vars(Poll(i)) /\ WF_vars(WriteBack(i)) /\ WF_vars(HandleDead(i))

-----------------------------------------------------------------------------
Consistent(row) ==
    /\ row \in PollRow
    /\ row.excluded <=> row.failures > 0
    /\ row.failures < MaxFailures

\* Types; and a stored row is excluded exactly when its last poll failed, and
\* never holds MaxFailures failures (monitor.go:358-376).
PollTypeOK ==
    /\ FleetTypeOK
    /\ polls \in [DOMAIN polls -> [step : Steps, row : PollRow]]
    /\ \A i \in DOMAIN registry : Consistent(registry[i])

\* HU-08 with HandleDeadInstance: replacing dead instances never takes the
\* fleet over its maximum.
ReplacementsFit == Cardinality(aws) <= MaxInstances

\* HU-22 on the polling side (monitor.go:351-381): the row of an instance that
\* is gone does not outlive it, whatever in-flight polls write back.
LostInstancesForgotten ==
    \A i \in Ids : (i \in DOMAIN registry \ aws) ~> (i \notin DOMAIN registry \ aws)
=============================================================================
