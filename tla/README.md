# A verification project for the distributed EC2 auto-scaler

TLA+ specifications of MonitorS, the server that keeps a group of EC2 instances
at the right size, and of MonitorC, the agent on each of them, with TLC
configurations that model-check them on small instances and TLAPS proofs of their
main properties for all instances. Paths
such as `asg.go:172` are under `src/internal/controller/`, `monitor.go` means
`src/pkg/monitor/monitor.go`, and the rest are given in full. HU-nn are the user
stories of the repository's README.

## 1. The system

MonitorS is one process with several goroutines; MonitorC is an agent on every
instance of the group; EC2 and an SQLite file are outside both.

| Component | State | Operations | Talks to |
|---|---|---|---|
| ControllerASG, reconcile loop (`asg.go`) | two streaks, time of the last scaling action; within a pass: ids EC2 reported, active rows, their total load | every 15 s a pass: read EC2, read the registry, delete ghosts, wait / recover the minimum / evaluate the load, launch or retire | registry, EC2, agents (Shutdown) |
| ControllerASG.HandleDeadInstance (`asg.go:454-482`) | none | terminate, delete the row, count active rows, launch one replacement | registry, EC2; called from the poll goroutines |
| Poll scheduler (`monitor.go:240-384`) | one goroutine per polled row and its copy of the row | per tick: list, one Ping + GetMetrics per active row, write the copy back or declare the instance dead; next tick waits for all | registry, agents, HandleDeadInstance |
| MonitorS gRPC service (`monitor.go:28-200`) | none | Register, Deregister, GetAggregatedMetrics, GetEvents | registry, event log |
| Instance registry (`sqlite.go`, `inmemory.go`) | a row per id: status, failures, load, ExcludedFromAvg, times | Register (upsert of the whole row), Delete, List, MarkInactive, RecordMetric, GetAggregatedMetrics | SQLite file, survives restarts; or, if it cannot be opened, a map that dies with MonitorS |
| EC2 adapter (`ec2.go`, `awsretry.go`) | none | CreateInstance, GracefulTerminate, TerminateInstance; waits and retries while a token is expired | EC2, agents |
| MonitorC agent (`src/cmd/monitorc/main.go`) | two goroutines that share a client: main and the reconnector; the connection, a Shutdown flag, an instance id | register on start and when the connection is lost, answer Ping / GetMetrics / Shutdown, deregister when interrupted | MonitorS |
| HTTP API (`src/internal/adapters/http/handler.go`) | none | register and heartbeat write a row; the other endpoints read | registry |
| Discovery (`discovery.go`, `metadata.go`) | none | find the address of MonitorS: variable, file, EC2 tag | EC2 |
| Configuration (`src/config/`) | limits, thresholds, window, EC2 parameters | load, validate, override from the environment | read by all |
| Event log, load simulator, tools | a table of events; otherwise none | append and list; programs on their own | none |

The components share state rather than exchange messages. The registry is
written by the agents (through Register and Deregister), the poll goroutines, the
reconcile loop, HandleDeadInstance and the HTTP handlers, one SQL statement at a time and with no
transaction around a decision. EC2 is read and changed by the reconcile loop and
by HandleDeadInstance. That is where the difficulty lies:

- *Interleaving.* A pass reads EC2, then the registry, then decides, then makes
  several slow calls. Between any two calls agents register or stop, polls write
  rows, instances vanish, dead instances are replaced.
- *Stale copies.* A poll writes back the row as it was at the start of the round.
  The create and terminate loops act on counts and lists of earlier in the pass.
  The map in memory hands out the rows themselves, so there a poll holds no copy
  until somebody deletes the row.
- *Lost and late.* A Register that timed out at the agent may have been handled, and a
  request nobody waits for any more may still be handled later (no handler looks at its
  context, `monitor.go:28-66`), after the agent left or registered again. A Deregister may
  be cut off by the other goroutine closing the connection.
- *Partial failure.* Launches, terminations, deletes and upserts fail one by one,
  sometimes after having taken effect, and most errors are only logged.
- *Restart.* Streaks, cooldown, the pass and the polls are in memory; the
  registry and the instances are not.
- *Long sequences.* The streaks span several passes, many of which do not
  evaluate anything.
- *Progress.* A pass gives up whenever it has something to wait for.
- *Start.* Every error in the configuration ends the process, systemd starts it
  again, and the environment is applied after the validation.

What makes each part correct:

- *Reconcile loop:* never more than `MaxInstances` and, when scaling down, never
  fewer than `MinInstances`; the row of a running instance is not a ghost; it acts
  on the load exactly after a full window; it recovers and scales eventually.
- *Policy arithmetic:* the smallest sufficient size within the limits, which does
  not call for the opposite action.
- *Polling:* the failure bookkeeping of the rows is consistent; only consecutive
  failures kill; rows of lost instances go away.
- *Dead instances:* replacing them does not outgrow the group.
- *Loop and polls together:* neither destroys what the other relies on, and between
  them the minimum comes back.
- *Registries:* whichever is open and whoever writes, the bookkeeping of a row
  stays about its own agent.
- *Agent:* registered when it believes so, one connection at a time, a stop
  deregisters as far as the connection allows, a lost connection leads to a new
  registration.
- *Configuration:* a running controller has the limits its algorithms assume, and
  MonitorS gets to run once its file is acceptable.

## 2. The modules

    ScalingPolicy      arithmetic, no state        ScalingWindow   abstract window
        |        \                                    ^        ^
        |         ScalingStreaks (counters alone) ----'        |
        |                                                      |
    ASGController (+ Fleet) --- ASGControllerHistory ----------'
        |
        +--- Autoscaler        the loop and the polls in one process
        |
    PollScheduler (+ Fleet) --- PollSchedulerHistory

    MonitorAgent -------------> Membership    what Register and Deregister promise
        |
        +--- Registration      agent, polls, HTTP clients and either registry
        |
    RegistryStore      what the two registries do with a row, no state

    Startup            the configuration of all of these

**Fleet** is what goroutines share: `aws`, the ids EC2 runs for this group,
`registry`, a function from the registered ids to their rows, and `draining`, the
instances whose agent got a Shutdown. Ids come in three kinds, because the reconcile
loop tells them apart: EC2 ids, ids that begin with `local-`, and anything else an
agent may register, such as a host name. A registry call is one action of whoever
calls it, like the one SQL statement it is. `Delete` and `Upsert` are for calls
whose failure the caller handles; `DeleteOrNot` is for the ones that drop the
error. A row keeps only `status`, `excluded`, `load` (and `failures` in
PollScheduler): addresses, names and times decide nothing modelled here.

**ScalingPolicy** is the arithmetic of `asg.go:212-272` and `334-342`. Loads are
integers (percents). The code compares a float32 average with a threshold; the
model compares the total with the threshold times the count, so rounding of the
average at the threshold itself is not modelled. The conditions, both streaks
and their resets are kept as in the code, including what happens when the
thresholds are in the wrong order, which `Validate` does not exclude.

**ScalingWindow** is the abstract specification of HU-26: no counters, only the
zones (over, under, inside the band) of the last evaluations not yet used by an
action; it acts exactly when they are a whole window of one side.
**ScalingStreaks** runs the counters of the code on their own against it.

**ASGController** is the reconcile loop. The program counter `pc` is at the call
that comes next; there is one action per call out of the process, and what the
code does between two calls belongs to the action before or after it:

| Action | Code |
|---|---|
| `DescribeInstances` | tick, cooldown check, `getAWSInstances` (116-137) |
| `ListInstances`, `ListFails` | `List` (140-144) |
| `RemoveGhost`, `CountInstance` | one row of the loop 153-167, in any order |
| `AwaitRegistration` | 171-178, the pass ends |
| `BeginRecovery` | 180-195 |
| `EvaluateLoad` | 207-254: conditions, streaks, victims |
| `LaunchOk`, `LaunchFails`, `EndLaunch` | the create loops of recovery and `scaleUp` |
| `ShutdownVictim`, `TerminateOk`, `TerminateFails`, `DeregisterVictim`, `EndScaleDown` | the terminate loop of `scaleDown`, with `GracefulTerminate` |
| `CooldownElapses` | 180 s since `lastScaleAction` |
| `Restart` | the process dies and `main` runs again |

`EnvWrite`, `EnvDelete` and `EnvLose` stand for everybody else: any row of `Rows`
may be written under any id and any row deleted at any moment, and any instance may
disappear. In `Spec` the environment launches no instances, so that what is said of the
maximum is said of this loop alone. `SharedSpec` adds the dead-instance handlers of the
same process as `Handlers` (they launch, and ask agents to shut down) and starts with
whatever an earlier MonitorS left; it is the contract Autoscaler meets. `LaunchTag` and `DefaultTag` are the
two places the Project tag comes from (`ec2.go:48`, `asg.go:401-407`).

**ASGControllerHistory** adds history variables: the zones and actions that
ScalingWindow speaks of.

**PollScheduler** is the poll scheduler with HandleDeadInstance. `polls` maps the
ids of the round in progress to the step their goroutine is at and to its copy of
the row. `PollOk` and `PollFails` are the outcomes of the dial, Ping and
GetMetrics; `WriteBack` upserts the copy; `TerminateDead`, `DeleteDead`,
`CountActive` and `CreateReplacement` are the four calls of HandleDeadInstance.
Agents register, stop and are lost at any time. `RegistryMayFail` and
`TerminateMayFail` say which calls the outside may refuse. **PollSchedulerHistory** adds
`missed`, a history variable that counts failed polls since the last success, while
MonitorS stays up.

**Autoscaler** is MonitorS as `src/cmd/monitors/main.go` puts it together: the
reconcile loop (`Loop == INSTANCE ASGController`) and PollScheduler on one fleet,
in any interleaving, with one restart for both and the registry that outlives it
(SQLite). The environment of ASGController
is gone; agents and lost instances are those of PollScheduler, and `ImplementsLoop`
says that they do nothing that environment could not have done. `LoopStep` and
`PollStep` add what one side must know of the other, that a launched id is new to
both. Nothing is assumed of how long an instance takes to boot and register, so one that
HandleDeadInstance launches between the loop's read of EC2 and its read of the registry may
have a row the loop takes for a ghost. `newcomers` is a history variable with the
instances this may happen to.

**MonitorAgent** is one agent, its connection and MonitorS' answers to it. `main` and `loop`
are where its two goroutines are: main waits for the interrupt, then deregisters with
the client it finds and stops (410-420); the reconnector dials, registers, watches the
connection and starts over (163-267). `link` is the state gRPC reports of the connection,
`conns` counts the connections that are open, `wire` has the requests on their way and
`reply` the answer to Register. Any request may be rejected, handled without the caller
hearing of it, or lost with the connection; systemd starts the agent again after any end.
Whoever gives a request up (`GiveUp`, `DeregisterReturns`, `CloseConnection`, the end of the
process, a lost connection) may leave it behind in `late`: MonitorS handles it at any later
moment (`HandleLate`), while MonitorS stays up.
**Membership** is its abstract specification: out, joining, admitted, member, leaving, left,
when a row may come and go in each, and that what was asked for and not waited for
(`overdue`) may be done in any of them. An agent is a member only by way of admitted.

**RegistryStore** is what `Register` does in each registry: SQLite overwrites every
column of the row, the map keeps what the caller leaves out. Of a row it keeps whether the
address is the agent's own, another or none, the status, and of its meta the failures and
whether the port is the agent's; of the callers, what each passes: the agent, a heartbeat, a
poll, and a client of `POST /register`, who may pass anything (`Body`).

**Registration** is one instance from end to end: MonitorAgent, the polls of that
instance, HandleDeadInstance and the HTTP clients over the registry MonitorS has
opened (`kind`). `poll.shared` says that a poll works on the row itself, as it does with
the map until the row is deleted. A heartbeat and a client may come at any moment, also before
the agent registered and after it is gone. EC2 may refuse to terminate a dead
instance, whose row goes all the same (`TerminateRefused`); SQLite may refuse the write of a
poll or the delete (`WriteRefused`, `DeleteRefused`), whose errors the code drops. Three history
variables serve the properties. `blamed` counts failed calls of the agent at its own address
since a success was stored. `origin` is whose word the row and the poll go by: the agent's,
the agent's after a heartbeat took the address away, or anyone's. `orphaned` says that
MonitorS took the row of an agent that runs. **MCRegistration** has the two clients of the run.

**Startup** is the way from `config.json` and the `AUTOSCALER_*` variables to a
running controller (`src/config/`, `src/cmd/monitors/main.go:23-39`,
`asg.go:66-95`). `phase` is how far `main` has come; a failure anywhere leads back
to "down", from where systemd starts it again. `WriteDefault` and `TearFile` are the
default file written whole or in part, `ValidateConfig` applies what `Validate`
changes, `ApplyEnvOverrides` the variables and then the controller's own defaults.
The operator (`Edit`) may replace the file, and every start may find other
variables. A text is empty, filled in, or one of the two spellings of a placeholder;
of the texts treated alike (AMI, region, subnet, security groups) it keeps `ami`.
Thresholds are whole numbers.

Operators whose comment begins with "Mutant" are the definitions next to them with
a plausible bug; no specification uses them. They show that the properties can
tell the difference.

Modelled as external, from how the code uses it: EC2. `DescribeInstances` is
taken to return all pending and running instances of the filter at one moment,
and ids are not reused while something refers to them. EC2's eventual
consistency right after a launch is not modelled; in the code the cooldown hides
it, except after a restart.

## 3. The runs

| Run | Question |
|---|---|
| `streaks` | Do the counters implement ScalingWindow, and the formula its reference, for every sequence of loads? Limits 2..5, thresholds 70/30 and a window of 3 are the shipped configuration; loads move in steps of 5 percent over up to 6 instances, one more than the maximum. |
| `controller` | `TypeOK`, `WithinMaxInstances`, `ScaleDownLeavesMin`, `NoLiveGhost` through whole passes with the environment, failures and restarts between any two calls; and does the complete controller implement ScalingWindow? |
| `controller_live` | Does the controller act whenever it should, for ever, with the minimum of two that `Validate` demands? |
| `poll` | When EC2 and the registry obey and MonitorS stays up: does replacing dead instances fit the maximum, do only consecutive failures kill, and do the rows of lost instances go away? |
| `autoscaler` | Loop and polls together, with restarts and every refused call: does the loop meet only what its environment allows (`ImplementsLoop`), does a scale-down leave the minimum, does the bookkeeping of the rows survive (`PollTypeOK`), which rows of running instances can the loop take for ghosts, and does the minimum come back? |
| `agent` | Does an agent implement Membership, through every loss, timeout, late request, interrupt and restart, without leaking a connection? |
| `registration` | Is an instance that is registered by its agent's word only ever blamed for its own failures, does a running agent end up registered, and do the rows of lost instances go away, on either registry? |
| `startup` | Which configurations can reach a running controller, and does a repaired one always? |
| `controller_untagged`, `controller_withheld`, `autoscaler_both`, `registration_heartbeat` | Four statements of the documentation that the code does not meet (section 5). |

What the properties say, and what it takes to violate them:

- `WithinMaxInstances`: the launches of a pass are decided on a read of EC2 and
  carried out many steps later. It holds because a pass only decides while it
  counts as many rows as EC2 reported.
- `ScaleDownLeavesMin`: of the instances EC2 reported, `MinInstances` stay,
  although the registry changes while the victims are retired. It is stated over
  what the pass saw: no code can promise it of instances that die meanwhile.
- `NoLiveGhost`: that the loop sees what it launched, by the tag it launched it with. In
  `Spec` only the loop launches, so the order of its two reads does not matter to it;
  `LiveRowsStay` is where it does.
- `ImplementsWindow`: a refinement; it fails if a reset is missed on any path.
- `RecoversMinimum`, `ScalesUpUnderLoad`, `ScalesDownWhenIdle`: if from some point
  on all instances are counted and there are too few (none, or one of a minimum of two), or
  they are overloaded, or idle, then the controller enters the launch (or terminate) loop
  again and again, even if every launch fails.
- `DeadAfterConsecutiveFailures`: the failure count travels through copies of rows
  and through upserts by agents; it is compared with the polls that really failed.
- `PollTypeOK`: besides types, a stored row is excluded exactly when its last poll
  failed, and never holds `MaxFailures` failures.
- `ReplacementsFit`: several goroutines of a round count and launch at once.
- `LostInstancesForgotten`: a poll in flight writes a deleted row back; the next
  rounds have to find out.
- `LiveRowsStay`: `NoLiveGhost` when instances appear that the loop did not launch. It
  depends on reading EC2 first and the registry second: the row of a running instance is
  deleted in one case only, when a handler launched the instance between the two reads and it
  registered before the second. The run reaches that case; section 5 has what it does.
- `ImplementsLoop`: the composition refines `SharedSpec`. A step of a poll, a handler or an
  agent that changed two things at once the loop takes for separate, or that left the loop's
  own state from before a restart behind, would break it. The mutant is MonitorS with the
  registry in memory (`src/cmd/monitors/main.go:48`), whose restart takes the rows along.
- `ScaleDownKeepsMinimum`: `ScaleDownLeavesMin` in the composition.
- `RestoresMinimum`: once nothing goes wrong any more (`Disturbance`: a restart, a
  refused call, a lost instance, an agent that stops or is not reached), the
  minimum serves for good. The dead-instance handlers alone do not achieve that
  (they may count too much), nor does the loop (it may wait for a row nobody
  removes); an instance that runs but never registers, or was told to shut down and still
  runs, withholds it (`Withheld`), which is finding `controller_withheld` again.
- `OneConnection`, `ClientRegistered`: two goroutines share the client; every path
  out of a registration or a watch has to close and clear what it opened, once.
- `ImplementsMembership`: a refinement; the row may only come or go while the agent
  joins or leaves or by a request it gave up, and it takes itself for a member only after
  MonitorS gave it a row, also when answers are lost or requests of earlier connections, or
  of an earlier process, are handled late.
- `DeadByItsOwnFailures`: heartbeats, HTTP clients, the agent and polls write one row, and
  a poll may hold a copy, the row itself, or a row that was deleted under it. It is about an
  instance whose row is its agent's word: the agent registered while no poll was in flight,
  and since then nobody posted another address, port or failure count, and no heartbeat took
  the address away. Without that it is false: with the map, a poll under way on a row that a
  heartbeat made, when it fails, counts against the agent that registers meanwhile.
- `HeartbeatOnlyRefreshes`: the same of the rows a heartbeat came to after the agent. It is
  what the comment on heartbeats says, and false (section 5).
- `EventuallyRegistered`: an agent that keeps running ends up registered while MonitorS is
  up, on the registry that survives restarts, unless MonitorS takes its row away
  (`orphaned`). Without that premise, and with the map, it is false: see section 5.
- `LostInstanceForgotten`: as in `poll`, for both registries, if HTTP clients stop
  writing the row of an instance that is gone and writes stop being refused; terminations may
  be refused for ever, and a late Register may bring the row back.
- `LimitsHold`, `WindowAndCooldownHold`: the defaults are spread over `Validate` and
  `NewASGController`, with unvalidated variables applied in between. The second
  holds with any variables, the first only for a controller whose limits none overrides.
- `StartsOnceConfigured`: if the file is acceptable and the variables readable from some point
  on, and nobody kills MonitorS any more, it runs and keeps running, also after starts that
  wrote the default or tore the file. The operator's repair is the premise: nothing
  in the code repairs a torn file.

### Bounds

- *Instances.* `controller` has 3 ids for limits 1..2: the maximum, and one more to
  exceed it with. `controller_live` has 3 for 2..3, where the minimum is missed with none and
  with one instance that runs and answers. `controller_withheld` has a host name besides, whose
  row is found a ghost. `poll` has a fleet of two that may be replaced by two others.
  `autoscaler` has 2 for 1..2, where the minimum can be lost, doubly replaced and
  scaled down again; `autoscaler_both` has 3 for a minimum and maximum of 2, the least
  in which the maximum can be exceeded. The minimum of one, in `controller` and `autoscaler`, is
  below what `Validate` lets a file say (variables may set it); the theorems about
  both have any minimum. `agent` and `registration` are about one
  instance; other instances share nothing with it but the registry's statements, and
  those are about one row each. No restart in `poll`: `autoscaler` and the
  theorems have it.
- *Rows.* An idle and a busy row put the average over, under and inside the
  thresholds. `controller` adds an excluded row, so that passes wait with
  every instance registered. The runs of PollScheduler and Autoscaler use all rows of
  PollScheduler, with one load. Of the bodies a client of `POST /register` may pass,
  `registration` has two: all of it true, with the instance taken out of service, and none of it
  true, with `MaxFailures` failures posted; `registration_heartbeat` has no such client. The
  theorems have any subset of them. A failure count above `MaxFailures` is taken for
  `MaxFailures`, which is all the polls ask; a negative one, which a client may also post,
  is not modelled.
- *Window.* Two evaluations in the controller runs (the least that has a streak to
  interrupt), three in `streaks`, one in `autoscaler`, which asks nothing of the window.
- *Failures.* `MaxFailures` is 3, as `src/cmd/monitors/main.go:78` sets it, in
  `registration_heartbeat`; 2 in `poll`, `autoscaler` and `registration` (the least at which
  failures have to be consecutive and a row is excluded between two polls), 1 in
  `autoscaler_both`. The theorems have any number.
- *Connections.* `LossStates` has both states gRPC may report after a loss.
- *Late requests.* `MaxLate` is 2 in `agent`, where an overdue Register and an overdue
  Deregister may come in either order, or two of one kind, and 1 in `registration`, where
  any of them meets polls, clients and restarts. The theorems have any number.
- *Counters.* Nothing else is bounded: streaks, failures, loads and open connections are
  bounded by the code itself. `missed` and `blamed` stop at `MaxFailures`, beyond which no
  property looks.
- *Configurations.* `startup` has a complete file and one for each field that may be
  wrong, at the boundary where there is one (a minimum of 1, a cooldown of 0 and of
  -1), and an environment for each kind of variable, unreadable ones included.
- *Symmetry* over the ids is used in `controller` only, never with liveness.

### Fairness

`FairSpec` (ASGController): the ticker fires again and every call returns, so every
step of a pass is weakly fair. `ListInstances` is strongly fair: a registry that
is read again and again is read successfully again and again. Launches and terminations may
fail for ever. `FairHistorySpec` (PollSchedulerHistory): every goroutine of a round runs and its dial times
out (weak fairness per id), and a new round starts when the last has ended. Neither assumes
anything of the agents or of EC2. Both leave out the restart: a server that is
restarted before it completes three passes need never act. `AutoscalerFairness`:
the loop goes on, by a step or the end of its cooldown (never both possible at once), and so do
the polls; which goroutine of a round moves
is left open, since a round ends only when all of them have. Registration's `Fairness`: the
reconnector and the polls go on, and what the agent tries again and again (to
connect, to have its Register handled) works in the end (strong fairness); nothing makes
gRPC find out about a loss or reconnect. Startup's `FairSpec`: `main`
goes on from step to step, and `Restart=always` in `deploy/monitors.service` starts it again. A call that waits for
fresh credentials (`awsretry.go:32`) is one that has not returned; liveness
therefore holds only once credentials are valid.

Deadlock is checked in every run.

## 4. The proofs

| Theorem | Assumes | States |
|---|---|---|
| `TypeCorrect` | | `Spec => []TypeOK`, `SharedSpec => []TypeOK` |
| `MaxInstancesRespected` | `Tagged` | `Spec => []WithinMaxInstances` |
| `LiveRowsKept` | `Tagged` | `Spec => NoLiveGhost` |
| `MinInstancesKept` | `LocalIds = {}` | `Spec => []ScaleDownLeavesMin`, `SharedSpec => []ScaleDownLeavesMin` |
| `DesiredCount` | | reference definition of `calculateDesiredCount`, for every load |
| `NoThrash`, `WindowsAct` | thresholds 70/30, minimum at least 2 | no action sets up its opposite; a condition always calls for a change |
| `WindowImplemented` | thresholds 70/30, minimum at least 2 | `HistorySpec => ImplementsWindow`, for any window |
| `StreaksCorrect`, `DesiredCorrect` | | `StreaksSpec => []StreaksTypeOK`, `[]DesiredMeetsReference` |
| `StreaksImplementWindow` | thresholds 70/30, minimum at least 2 | `StreaksSpec => ImplementsWindow`, for any window |
| `NeverThrashes`, `FullWindowsAct` | thresholds 70/30, minimum at least 2 | `StreaksSpec => []ActionDoesNotThrash`, `[]FullWindowChangesSize` |
| `BookkeepingCorrect` | | `PollSpec => []PollTypeOK` |
| `DeadAfterFailuresOnly` | `~RegistryMayFail` | `HistorySpec => []DeadAfterConsecutiveFailures` (PollSchedulerHistory) |
| `ReplacementsFitMaximum` | `~RegistryMayFail`, `~TerminateMayFail`, a finite initial fleet within the maximum | `PollSpec => []ReplacementsFit` |
| `BookkeepingTogether` | | `AutoscalerSpec => []PollTypeOK` |
| `LiveRowsStayThere` | `Tagged` | `AutoscalerSpec => LiveRowsStay`: only of `newcomers` |
| `LoopContract` | a finite initial fleet | `AutoscalerSpec => ImplementsLoop` |
| `MinimumKeptTogether` | `LocalIds = {}`, a finite initial fleet | `AutoscalerSpec => []ScaleDownKeepsMinimum` |
| `DeadAfterFailuresTogether` | `~RegistryMayFail` | `TogetherSpec => []DeadAfterConsecutiveFailures` (AutoscalerProofs) |
| `AgentTyped`, `AtMostOneConnection`, `OnlyRegisteredClients` | | `AgentSpec => []AgentTypeOK`, `[]OneConnection`, `[]ClientRegistered` |
| `MembershipImplemented` | | `AgentSpec => ImplementsMembership`, with any number of late requests |
| `RegistrationTyped`, `DeadByOwnFailures` | | `Spec => []TypeOK`, `[]DeadByItsOwnFailures` (Registration), whatever clients post |
| `ConfigurationTyped` | | `Spec => []TypeOK` (Startup) |
| `LimitsEstablished` | | `Spec => []LimitsHold` (Startup) |
| `WindowAndCooldownEstablished` | | `Spec => []WindowAndCooldownHold` (Startup) |

All hold for any set of ids, any rows and any limits that satisfy the ASSUMEs of
the modules (named there: limits and thresholds positive, minimum at most maximum,
the kinds of ids disjoint). Where a theorem assumes more, the assumption is
needed: without `Tagged` TLC finds the counterexample (`controller_untagged`); local
ids count as active although EC2 does not run them, so with them the rest may be fewer than
the minimum; with refused writes or terminations TLC refutes the two properties of PollScheduler
(`RegistryMayFail` or `TerminateMayFail` set in `MCPollScheduler.cfg`), and
`DeadAfterConsecutiveFailures` of `TogetherSpec` likewise. The premise of
`DeadByItsOwnFailures` is needed too: with heartbeats let into it, it is
`HeartbeatOnlyRefreshes`, which fails.

The arguments:

- *Maximum.* `WithinMaxInstances` is not inductive: at the launch loop it must be
  known that what is left to launch fits. `LimitInv` adds `Complete`, that while a
  pass is on (and none has been launched) every running instance is in `awsSeen`, since only
  this controller launches, and `Room`, that `aws` and `toLaunch` together stay within the maximum.
  A pass reaches the launch loop only with `ActiveCount >= Cardinality(awsSeen)`, hence at least as
  many rows as instances, and `DesiredCount` bounds the sum. `Complete` alone
  gives `LiveRowsKept`: a ghost is not in `awsSeen`, so it is not running.
- *Minimum.* `MinInv` adds that only ids in `awsSeen` are counted and that `Removals`
  leaves the minimum; the victims are counted ids.
- *Window.* `StreakInv` (and `RunsInv`, for the counters alone) says that each counter is the
  length of the run of its zone at the end of what ScalingWindow remembers (`RunOf`). The lemmas
  about runs are in ScalingPolicyProofs and serve both: `RememberRun` moves a run along
  one evaluation, `WholeIsFullRun` turns a counter at the window's length into a whole window,
  and `StreaksAreRuns` puts them together for one evaluation. `WindowsAct` is
  needed because the code resets the streaks even when there is nothing to add.
- *Bookkeeping.* `PollTypeOK` speaks of stored rows only; `Bookkeeping` adds the same
  of the copies in the goroutines that will write them (`PollsConsistent`).
- *Dead.* `Tally` adds that the failures in a row, and in the copy a goroutine
  holds, are at most `missed`, except in a stored row whose poll is about to
  overwrite it.
- *Replacements.* `aws` alone says nothing of the launches to come. `FitInv` bounds
  everything involved: running instances, registered ids and the ids some goroutine is
  handling, together, never exceed `MaxInstances`, and an instance whose goroutine has
  terminated (deleted) it is out of EC2 (and of the registry). A goroutine that launches is
  handling an id that is in neither set, and gives its place in the union to the new one.
- *Loop and polls.* `SeenInv`: between its two reads every running instance is in `awsSeen` or a
  newcomer, and after the second every running instance whose row the pass holds. The polls may
  launch all the while, but what they launch after the second read is in none of these rows,
  since ids are not reused while the pass refers to them. `LoopKeeps` shows that the loop's
  writes leave the bookkeeping alone; every other step of Autoscaler is one of PollScheduler.
- *Contract.* `StepFitsLoop` takes the steps of Autoscaler one by one: a pass, the cooldown and
  a restart are the loop's own; a poll that writes back or an agent that registers is an
  `EnvWrite` of a row of the right type (`Bookkeeping` is needed for that), a delete an
  `EnvDelete` or nothing, a termination an `EnvLose`, a refused one a `HandlerAsks`, a
  replacement a `HandlerLaunches`; the rest the loop cannot see. What was proved of
  `SharedSpec` then holds in the process: `SameLoop` identifies the loop Autoscaler composes
  with the one the theorems of ASGControllerProofs are instantiated for (`P`), and
  `MinimumKeptTogether` cites `MinInstancesKept` along it.
- *Dead, together.* `TogetherSpec` is Autoscaler without restarts and with `missed`. `Tally` is
  inductive here too, since the loop writes no row (`LoopWrites`): it deletes some, and launches
  ids that have neither row nor poll.
- *Agent.* `ConnInv` ties the two goroutines, the connection and the requests on the wire
  together: a connection is open exactly while the reconnector registers, watches or
  closes, a client exactly while it watches, and a Register is under way only
  before its answer. `Abandoned` is what any of the five ways to give a request up leaves
  overdue; the refinement needs no more, since Membership asks of a member only that it
  was admitted, not that it still has its row.
- *Blame.* `RegistrationInv` adds to the types `PollInv`, what a poll's step says of the row
  it works on (shared only with the map, a copy otherwise), and `BlameInv`: while `origin` is
  the agent, the row and what the poll holds are `Sound` (the address is the agent's, the
  failures are at most `blamed`), a dial goes to the agent, and a poll that is about to
  terminate it has found `MaxFailures`.
- *Startup.* A configuration that passed `Validate` has good limits until the
  overrides are applied (`StartInv`); `ControllerFields` shows that the
  controller's defaults keep them and repair the other two.

The finite sets of the model are shown finite (`Finiteness`) because the limits
are stated with cardinalities. `FleetProofs` has the lemmas about `Put` and `Without`.

Every safety property, action property and refinement that a passing run checks has its theorem.
Model-checked only are the liveness properties (liveness under fairness and ENABLED
are beyond the prover): `RecoversMinimum`, `ScalesUpUnderLoad`, `ScalesDownWhenIdle`,
`LostInstancesForgotten`, `RestoresMinimum`, `EventuallyRegistered`, `LostInstanceForgotten` and
`StartsOnceConfigured`. `TogetherSpec` is proved about only; no run of its own checks it.
`WithinMaxInstances` and `NoLiveGhost` are about a loop without
handlers: in the composition the first is false (`autoscaler_both`), and the second becomes
`LiveRowsStay`, which excepts the newcomers.

## 5. Where the code and its documentation disagree

- `controller_untagged`. With no Project tag configured, which
  `deploy/README-CONFIG.md:36` allows, the controller asks EC2 for another tag than
  the one it launches with, sees nothing, and launches after every cooldown.
- `controller_withheld`. README.md:80 promises immediate replacement below the
  minimum. `asg.go:172` ends the pass first while any running instance
  is not registered or is excluded. In the run an agent may register under its host name, which
  is one way for its instance never to be counted.
- `autoscaler_both`. README.md:71 limits the group. HandleDeadInstance counts rows and the
  reconcile loop counts EC2's instances; without a lock between them both replace the same
  dead instance, although every call is obeyed.
- `registration_heartbeat`. `src/internal/service/monitor.go:33` says that a heartbeat
  "updates last-seen status". It upserts a row with nothing but the id, which in SQLite
  wipes address and meta (`sqlite.go:92-95`); the polls then call an empty address until the
  instance, whose agent answers, is terminated.

Smaller ones, noticed while modelling and not runs of their own:

- README.md:77 asks for three consecutive checks, but a check that waits, recovers or
  cannot list does not touch the streaks, so others may lie between the three.
- `monitor.go:229` speaks of consecutive failures. If the write that clears the count is
  refused (the error is dropped, `monitor.go:347`), older failures still count.
- HandleDeadInstance deletes and replaces an instance also when EC2 refused to terminate it
  (`asg.go:461`), so the group grows by one.
- `asg.go:461` also leaves the agent of such an instance running, without a row. Its connection
  is healthy, so it never registers again, and the reconcile loop waits for it (`Withheld`).
  The same happens if a late Deregister of an earlier process overtakes the Register of the
  next (`monitor.go:62`).
- A pass may delete the row of an instance that HandleDeadInstance launched between its two
  reads (`asg.go:133-157`), and the agent is in the same position.
- An agent takes an idle connection for a healthy one (`src/cmd/monitorc/main.go:219`). If
  MonitorS restarts with the registry in memory and the connection goes idle, it is never
  registered again, although the agent runs.
- An agent without INSTANCE_ID registers under its host name
  (`src/cmd/monitorc/main.go:373`; `deploy/monitor-c.service` sets none), which the reconcile
  loop takes for a ghost.
- With the registry in memory, polls write a row's meta without a lock (`monitor.go:361`)
  while others read it, which Go may end with a fatal error.
- `deploy/README-CONFIG.md:7` says that MonitorS aborts on a placeholder. `Validate` looks
  for `REPLACE_WITH` (`src/config/config.go:95`), but the default of `monitor_s_ip` is
  `<MONITOR_S_PRIVATE_IP_ADDRESS>` (line 58).
- `src/config/store.go:10-11` says that a default configuration is written and returned, but
  the default never passes `Validate`.
- The variables are applied after `Validate` (`src/cmd/monitors/main.go:30`), so they can
  neither fill in a placeholder nor are they held to the minimum of 2 that
  `deploy/README-CONFIG.md:13` insists on.

## 6. Not modelled

- The event log (append-only, nothing reads it back to decide), discovery (stateless
  lookups), the load simulator and tools, generated code, the ports and timeouts of the
  configuration, and the fields of a row that nothing above depends on.
- EC2's lag right after a launch. How far it reaches is not in the code; the cooldown
  covers it except after a restart.
- The wait for fresh credentials (`awsretry.go:32`), which keeps a poll round from ending. It is a
  call that has not returned.
- The crash that the unlocked map may cause. Registration lets MonitorS stop at any step.
- More than one agent with the registry in memory: Registration follows one instance,
  and Autoscaler uses the SQLite registry.

What could come next: Autoscaler with a second agent process that restarts on its own
(today `AgentComes` and `AgentGoes` stand for it), and the evaluation window in the composition,
along `LoopContract`. There is no bound to prove on how far both launchers together exceed the
maximum: while instances keep dying, the loop may add `MinInstances` in every pass and the
handlers one for each death.
