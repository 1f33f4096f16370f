---------------------------- MODULE ASGController ----------------------------
(***************************************************************************)
(* ControllerASG (internal/controller/asg.go): the reconcile pass that     *)
(* compares the registry with EC2, forgets ghosts, restores the minimum    *)
(* and scales on the average load.                                         *)
(*                                                                         *)
(* One pass is a sequence of steps, one per call that leaves the process   *)
(* (EC2 or the registry); the rest of MonitorS, the agents and EC2 itself  *)
(* may move between any two of them.  They appear here as an environment   *)
(* that writes and deletes rows and loses instances.  In Spec it launches  *)
(* none: the instances are the ones this controller launched.  SharedSpec  *)
(* adds the dead-instance handlers of the same process, which launch and   *)
(* shut down instances of their own accord.                                *)
(***************************************************************************)
EXTENDS ScalingPolicy, Fleet

CONSTANTS
    LaunchTag,   \* cfg.EC2Params.Tags["Project"], "" when not configured
    DefaultTag,  \* "Teleproy2-ASG", the fallback of projectTagValue
    None         \* no id

VARIABLES
    pc,          \* where the reconcile pass is
    awsSeen,     \* awsInstances
    local,       \* rows of localInstances not classified yet
    active,      \* activeInstances: id -> its load
    totalLoad,
    toLaunch,    \* instances the create loop still has to launch
    victims,     \* instances the terminate loop still has to start on
    current,     \* the one it is retiring, None outside the loop's body
    upStreak,
    downStreak,
    cooling      \* lastScaleAction is less than a cooldown ago

scratch == <<awsSeen, local, active, totalLoad, toLaunch, victims, current>>
memory  == <<upStreak, downStreak, cooling>>
vars    == <<fleet, pc, scratch, memory>>

ASSUME RowAssumption == \A row \in Rows : row.load \in Nat
ASSUME NoneAssumption == None \notin AllIds

-----------------------------------------------------------------------------
\* The calls that leave the process.

\* The Project tag is configured.
Tagged == LaunchTag # ""

\* Mutant: the filter is a constant, as it was before HU-08.
HardcodedTag == DefaultTag

\* projectTagValue: what DescribeInstances filters on.
QueryTag == IF Tagged THEN LaunchTag ELSE DefaultTag

\* EC2 returns the instances whose Project tag is the one asked for;
\* CreateInstance tags them with the configured value, set or not.
VisibleInstances == IF LaunchTag = QueryTag THEN aws ELSE {}

\* EC2 ids are never used twice.  An id that nothing refers to any more is as
\* good as a new one.
Fresh(i) ==
    /\ i \in Ids
    /\ i \notin aws \cup draining \cup awsSeen \cup victims \cup {current}
    /\ i \notin DOMAIN registry \cup DOMAIN local \cup DOMAIN active

\* The end of a pass: everything the pass computed is dropped.
EndPass ==
    /\ pc' = "idle"
    /\ awsSeen' = {}
    /\ local' = NoRows
    /\ active' = NoRows
    /\ totalLoad' = 0
    /\ toLaunch' = 0
    /\ victims' = {}
    /\ current' = None

-----------------------------------------------------------------------------
LoopInit ==
    /\ pc = "idle"
    /\ awsSeen = {}
    /\ local = NoRows
    /\ active = NoRows
    /\ totalLoad = 0
    /\ toLaunch = 0
    /\ victims = {}
    /\ current = None
    /\ upStreak = 0
    /\ downStreak = 0
    /\ cooling = FALSE

Init == FleetInit /\ LoopInit

\* A tick outside the cooldown reads EC2.  A tick inside it, and a read that
\* fails or waits for fresh credentials, change nothing.
DescribeInstances ==
    /\ pc = "idle"
    /\ ~cooling
    /\ awsSeen' = VisibleInstances
    /\ pc' = "list"
    /\ UNCHANGED <<fleet, local, active, totalLoad, toLaunch, victims, current,
                   memory>>

ListInstances ==
    /\ pc = "list"
    /\ local' = registry
    /\ pc' = "classify"
    /\ UNCHANGED <<fleet, awsSeen, active, totalLoad, toLaunch, victims, current,
                   memory>>

ListFails ==
    /\ pc = "list"
    /\ EndPass
    /\ UNCHANGED <<fleet, memory>>

\* Mutant: the test for a local id the wrong way round.
LocalGhost(i) == i \notin awsSeen /\ i \in LocalIds

\* HU-22: a row EC2 does not know is a ghost, unless its id is a local one.
Ghost(i) == i \notin awsSeen /\ i \notin LocalIds

RemoveGhost(i) ==
    /\ pc = "classify"
    /\ i \in DOMAIN local
    /\ Ghost(i)
    /\ DeleteOrNot(i)
    /\ local' = Without(local, i)
    /\ UNCHANGED <<aws, draining, pc, awsSeen, active, totalLoad, toLaunch,
                   victims, current, memory>>

CountInstance(i) ==
    /\ pc = "classify"
    /\ i \in DOMAIN local
    /\ ~Ghost(i)
    /\ local' = Without(local, i)
    /\ IF Counted(local[i])
       THEN /\ active' = Put(active, i, local[i].load)
            /\ totalLoad' = totalLoad + local[i].load
       ELSE UNCHANGED <<active, totalLoad>>
    /\ UNCHANGED <<fleet, pc, awsSeen, toLaunch, victims, current,
                   memory>>

-----------------------------------------------------------------------------
\* The decision, once every row is classified.

Classified == pc = "classify" /\ DOMAIN local = {}

ActiveCount == Cardinality(DOMAIN active)

\* Mutants of the comparison below: off by one in either direction.
WaitingUnlessOneShort == ActiveCount + 1 < Cardinality(awsSeen)
WaitingUnlessMore     == ActiveCount <= Cardinality(awsSeen)

\* Some instance EC2 knows is not counted yet: wait for it.
Waiting == ActiveCount < Cardinality(awsSeen)

AwaitRegistration ==
    /\ Classified
    /\ Waiting
    /\ EndPass
    /\ UNCHANGED <<fleet, memory>>

\* Mutant: the subtraction the wrong way round.
Surplus == ActiveCount - MinInstances

Deficit == MinInstances - ActiveCount

\* HU-12.
BeginRecovery ==
    /\ Classified
    /\ ~Waiting
    /\ ActiveCount < MinInstances
    /\ toLaunch' = Deficit
    /\ pc' = "launch"
    /\ UNCHANGED <<fleet, awsSeen, local, active, totalLoad, victims, current,
                   memory>>

\* sort.Slice by load, then the first k: any k instances none of which carries
\* more than an instance that stays (the sort is not stable).
LeastLoaded(V, k) ==
    /\ V \subseteq DOMAIN active
    /\ Cardinality(V) = k
    /\ \A v \in V, w \in DOMAIN active \ V : active[v] <= active[w]

\* HU-08 / HU-26.  The streaks move, and a full window starts a scaling action
\* when there is something to add or to remove.
EvaluateLoad ==
    LET n       == ActiveCount
        goUp    == UpWindowFull(upStreak, totalLoad, n)
        goDown  == DownWindowFull(upStreak, downStreak, totalLoad, n)
        add     == Additions(totalLoad, n)
        remove  == Removals(totalLoad, n)
        streaks == StreaksAfter(upStreak, downStreak, totalLoad, n)
    IN  /\ Classified
        /\ ~Waiting
        /\ n >= MinInstances
        /\ upStreak' = streaks.up
        /\ downStreak' = streaks.down
        /\ UNCHANGED <<fleet, cooling>>
        /\ \/ /\ goUp
              /\ add > 0
              /\ toLaunch' = add
              /\ pc' = "launch"
              /\ UNCHANGED <<awsSeen, local, active, totalLoad, victims,
                             current>>
           \/ /\ goDown
              /\ remove > 0
              /\ victims' \in SUBSET DOMAIN active
              /\ LeastLoaded(victims', remove)
              /\ pc' = "drain"
              /\ UNCHANGED <<awsSeen, local, active, totalLoad, toLaunch,
                             current>>
           \/ /\ ~(goUp /\ add > 0)
              /\ ~(goDown /\ remove > 0)
              /\ EndPass

-----------------------------------------------------------------------------
\* The create loop, shared by recovery and scaleUp.

LaunchOk(i) ==
    /\ pc = "launch"
    /\ toLaunch > 0
    /\ Fresh(i)
    /\ aws' = aws \cup {i}
    /\ toLaunch' = toLaunch - 1
    /\ UNCHANGED <<registry, draining, pc, awsSeen, local, active, totalLoad,
                   victims, current, memory>>

\* RunInstances reports an error: the loop breaks.  The answer may be what was
\* lost, and the instance is there all the same.
LaunchFails ==
    /\ pc = "launch"
    /\ toLaunch > 0
    /\ \/ UNCHANGED aws
       \/ \E i \in Ids : Fresh(i) /\ aws' = aws \cup {i}
    /\ toLaunch' = 0
    /\ UNCHANGED <<registry, draining, pc, awsSeen, local, active, totalLoad,
                   victims, current, memory>>

\* lastScaleAction is set whether or not anything was launched.
EndLaunch ==
    /\ pc = "launch"
    /\ toLaunch = 0
    /\ cooling' = TRUE
    /\ EndPass
    /\ UNCHANGED <<fleet, upStreak, downStreak>>

-----------------------------------------------------------------------------
\* The terminate loop of scaleDown, least loaded first: GracefulTerminate asks
\* the agent to shut down, then terminates the instance whatever the agent said;
\* only a terminated instance loses its row.

IsNextVictim(v) ==
    /\ v \in victims
    /\ \A w \in victims : active[v] <= active[w]

\* Best effort: the agent may be out of reach.
ShutdownVictim(v) ==
    /\ pc = "drain"
    /\ IsNextVictim(v)
    /\ AskToShutDown(v)
    /\ victims' = victims \ {v}
    /\ current' = v
    /\ pc' = "terminate"
    /\ UNCHANGED <<aws, registry, awsSeen, local, active, totalLoad, toLaunch,
                   memory>>

\* Also the answer for an instance that is already gone.
TerminateOk ==
    /\ pc = "terminate"
    /\ current \in Ids
    /\ Gone(current)
    /\ pc' = "deregister"
    /\ UNCHANGED <<registry, awsSeen, local, active, totalLoad, toLaunch,
                   victims, current, memory>>

\* EC2 refuses (it always refuses an id it never gave out), or its answer is
\* lost after it acted: the row stays and the loop continues.
TerminateFails ==
    /\ pc = "terminate"
    /\ \/ UNCHANGED <<aws, draining>>
       \/ Gone(current)
    /\ current' = None
    /\ pc' = "drain"
    /\ UNCHANGED <<registry, awsSeen, local, active, totalLoad, toLaunch,
                   victims, memory>>

DeregisterVictim ==
    /\ pc = "deregister"
    /\ DeleteOrNot(current)
    /\ current' = None
    /\ pc' = "drain"
    /\ UNCHANGED <<aws, draining, awsSeen, local, active, totalLoad, toLaunch,
                   victims, memory>>

EndScaleDown ==
    /\ pc = "drain"
    /\ victims = {}
    /\ cooling' = TRUE
    /\ EndPass
    /\ UNCHANGED <<fleet, upStreak, downStreak>>

CooldownElapses ==
    /\ cooling
    /\ cooling' = FALSE
    /\ UNCHANGED <<fleet, pc, scratch, upStreak, downStreak>>

\* MonitorS is killed and started again.  The registry is a file and the
\* instances are EC2's; the streaks and the cooldown were in memory.
Restart ==
    /\ EndPass
    /\ upStreak' = 0
    /\ downStreak' = 0
    /\ cooling' = FALSE
    /\ UNCHANGED fleet

-----------------------------------------------------------------------------
\* The environment: agents that register and answer polls, pollers and clients
\* that write or delete rows, instances that disappear from EC2.

EnvWrite(i, row) ==
    /\ Upsert(i, row)
    /\ UNCHANGED <<aws, draining, pc, scratch, memory>>

\* Also by an agent that stops; the one systemd starts next, if the instance
\* was told to shut down, knows nothing of it.
EnvDelete(i) ==
    /\ i \in DOMAIN registry \cup draining
    /\ DeleteOrNot(i)
    /\ draining' \in {draining, draining \ {i}}
    /\ UNCHANGED <<aws, pc, scratch, memory>>

EnvLose(i) ==
    /\ i \in aws
    /\ Gone(i)
    /\ UNCHANGED <<registry, pc, scratch, memory>>

\* The dead-instance handlers: GracefulTerminate may reach the agent and fail
\* afterwards, and RecoverIfNeeded launches.
HandlerAsks(i) ==
    /\ AskToShutDown(i)
    /\ UNCHANGED <<aws, registry, pc, scratch, memory>>

HandlerLaunches(i) ==
    /\ Fresh(i)
    /\ aws' = aws \cup {i}
    /\ UNCHANGED <<registry, draining, pc, scratch, memory>>

Handlers == \E i \in Ids : HandlerAsks(i) \/ HandlerLaunches(i)

Environment ==
    \/ \E i \in AllIds : (\E row \in Rows : EnvWrite(i, row)) \/ EnvDelete(i)
    \/ \E i \in Ids : EnvLose(i)

-----------------------------------------------------------------------------
Decide == AwaitRegistration \/ BeginRecovery \/ EvaluateLoad

Read == DescribeInstances \/ ListInstances

Classify == \E i \in AllIds : RemoveGhost(i) \/ CountInstance(i)

Create == (\E i \in Ids : LaunchOk(i)) \/ LaunchFails \/ EndLaunch

Retire ==
    \/ \E v \in AllIds : ShutdownVictim(v)
    \/ TerminateOk \/ TerminateFails \/ DeregisterVictim \/ EndScaleDown

Reconcile == Read \/ ListFails \/ Classify \/ Decide \/ Create \/ Retire

\* The steps that neither decide nor drop a pass.
Quiet == Read \/ Classify \/ Create \/ Retire \/ CooldownElapses \/ Environment

Running == Reconcile \/ CooldownElapses \/ Environment

Next == Running \/ Restart

Spec == Init /\ [][Next]_vars

\* Next to the handlers, and with the instances and the registry that an earlier
\* MonitorS left.
SharedInit ==
    /\ FleetTypeOK
    /\ IsFiniteSet(aws \cup DOMAIN registry)
    /\ LoopInit

SharedSpec == SharedInit /\ [][Next \/ Handlers]_vars

\* The ticker keeps ticking and every call returns: EC2 and the registry answer
\* sooner or later, with a result or with an error, and the cooldown runs out.
Fairness ==
    /\ WF_vars(DescribeInstances)
    /\ SF_vars(ListInstances)
    /\ WF_vars(ListFails)
    /\ WF_vars(Classify)
    /\ WF_vars(Decide)
    /\ WF_vars(Create)
    /\ WF_vars(Retire)
    /\ WF_vars(CooldownElapses)

\* MonitorS stays up.
FairSpec == Init /\ [][Running]_vars /\ Fairness

-----------------------------------------------------------------------------
TypeOK ==
    /\ FleetTypeOK
    /\ pc \in {"idle", "list", "classify", "launch", "drain", "terminate",
               "deregister"}
    /\ awsSeen \subseteq Ids
    /\ DOMAIN local \subseteq AllIds
    /\ local \in [DOMAIN local -> Rows]
    /\ DOMAIN active \subseteq AllIds
    /\ active \in [DOMAIN active -> Nat]
    /\ totalLoad \in Nat
    /\ toLaunch \in Nat
    /\ victims \subseteq DOMAIN active
    /\ current \in AllIds \cup {None}
    /\ upStreak \in Nat
    /\ downStreak \in Nat
    /\ cooling \in BOOLEAN

\* HU-08 (asg.go:275): whatever the registry says, and however the calls of a
\* pass interleave with the rest of the system, the instances this controller
\* launched never number more than MaxInstances.
WithinMaxInstances == Cardinality(aws) <= MaxInstances

\* HU-08 (asg.go:327): a scale-down leaves at least MinInstances of the running
\* instances it saw, also when registrations come and go during the pass.
ScaleDownLeavesMin ==
    pc \in {"drain", "terminate", "deregister"} =>
        Cardinality(awsSeen \ (victims \cup {current})) >= MinInstances

\* HU-22 (asg.go:156-161, 409-439): the row of an instance that runs is never
\* removed as a ghost.  In Spec only the loop launches; what a launch by somebody
\* else between the two reads does is LiveRowsStay of Autoscaler.
NoLiveGhost == [][\A i \in aws : ~RemoveGhost(i)]_vars

\* What the next pass would count, were nothing to change.
CountedIds == {i \in DOMAIN registry : Counted(registry[i]) /\ i \in aws \cup LocalIds}

CountedLoad == FoldFunctionOnSet(LAMBDA row, sum : row.load + sum, 0, registry,
                                 CountedIds)

AllCounted == aws \subseteq CountedIds

\* HU-12 (asg.go:180-205, README "Recuperacion Inmediata"): while every instance
\* answers but there are too few of them, the controller keeps launching, even
\* when launches fail or instances are lost again.
RecoversMinimum ==
    <>[](AllCounted /\ Cardinality(CountedIds) < MinInstances)
        => []<>(pc = "launch")

\* README.md:80, asg.go:180: below the minimum the controller launches
\* replacements at once, whatever the other instances do.
RecoversWheneverBelow ==
    <>[](Cardinality(CountedIds) < MinInstances) => []<>(pc = "launch")

\* HU-26 (asg.go:215-245): a cluster that stays overloaded is enlarged.
ScalesUpUnderLoad ==
    <>[](/\ AllCounted
         /\ Cardinality(CountedIds) >= MinInstances
         /\ ScaleUpCond(CountedLoad, Cardinality(CountedIds)))
        => []<>(pc = "launch")

\* HU-26 (asg.go:226-254): a cluster that stays underused is reduced.
ScalesDownWhenIdle ==
    <>[](AllCounted /\ ScaleDownCond(CountedLoad, Cardinality(CountedIds)))
        => []<>(pc = "drain")
=============================================================================
