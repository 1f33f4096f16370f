--------------------------- MODULE AutoscalerProofs ---------------------------
(***************************************************************************)
(* The reconcile loop and the polls on one fleet, for any instances, any   *)
(* limits and any number of concurrent polls: neither destroys what the    *)
(* other relies on, and to the loop the rest of the process is an          *)
(* environment it was proved correct in.                                   *)
(***************************************************************************)
EXTENDS Autoscaler, PollSchedulerProofs

\* A pass has seen every running instance, or it was launched behind its back:
\* before the read of the registry it is a newcomer, after it the row is not in
\* the copy the pass works on.
SeenInv ==
    /\ pc = "list" => aws \subseteq awsSeen \cup newcomers
    /\ pc = "classify" => aws \cap DOMAIN local \subseteq awsSeen \cup newcomers

LEMMA InitSeen == AutoscalerInit => SeenInv
BY DEF AutoscalerInit, Loop!LoopInit, SeenInv

LEMMA WithoutDomain ==
    ASSUME NEW f, NEW i
    PROVE  DOMAIN Without(f, i) = DOMAIN f \ {i}
BY DEF Without, Restrict

LEMMA LoopWithout ==
    ASSUME NEW f, NEW i
    PROVE  Loop!Without(f, i) = Without(f, i)
BY DEF Without, Restrict, Loop!Without, Loop!Restrict

\* A step of the polls.
LEMMA PollsSeen ==
    ASSUME SeenInv, PollStep(Scheduler)
    PROVE  SeenInv'
<1>1. UNCHANGED <<pc, awsSeen, local>>
  BY DEF PollStep, loopVars
<1>2. \A i \in aws' \ aws : i \notin DOMAIN local
  BY DEF PollStep, Loop!Fresh
<1>3. CASE pc = "list"
  <2>1. newcomers' = (newcomers \cup (aws' \ aws)) \cap aws'
    BY <1>1, <1>3 DEF PollStep, NotesNewcomers
  <2> QED
    BY <1>1, <1>3, <2>1 DEF SeenInv
<1>4. CASE pc = "classify"
  <2>1. newcomers' = newcomers \cap DOMAIN local' \cap aws'
    BY <1>1, <1>4 DEF PollStep, NotesNewcomers
  <2> QED
    BY <1>1, <1>2, <1>4, <2>1 DEF SeenInv
<1> QED
  BY <1>1, <1>3, <1>4 DEF SeenInv

\* A step of the loop.
LEMMA LoopSeen ==
    ASSUME SeenInv, Loop!Tagged, LoopStep(Loop!Reconcile)
    PROVE  SeenInv'
<1>1. UNCHANGED polls
  BY DEF LoopStep
<1>2. CASE Loop!DescribeInstances
  BY <1>2 DEF Loop!DescribeInstances, Loop!VisibleInstances, Loop!QueryTag,
     Loop!Tagged, Loop!fleet, SeenInv
<1>3. CASE Loop!ListInstances
  BY <1>3 DEF Loop!ListInstances, Loop!fleet, SeenInv, LoopStep, NotesNewcomers
<1>4. ASSUME NEW i \in AllIds, Loop!RemoveGhost(i) \/ Loop!CountInstance(i)
      PROVE  SeenInv'
  <2>1. /\ DOMAIN local' \subseteq DOMAIN local
        /\ pc' = "classify" /\ pc = "classify"
        /\ UNCHANGED <<aws, awsSeen>>
        /\ newcomers' = newcomers \cap DOMAIN local' \cap aws'
    <3>1. local' = Without(local, i)
      BY <1>4, LoopWithout DEF Loop!RemoveGhost, Loop!CountInstance
    <3>2. DOMAIN local' \subseteq DOMAIN local
      BY <3>1, WithoutDomain, Zenon
    <3> QED
      BY <1>4, <3>2 DEF Loop!RemoveGhost, Loop!CountInstance, Loop!fleet,
         LoopStep, NotesNewcomers
  <2> QED
    BY <2>1 DEF SeenInv
<1>5. ASSUME pc' \notin {"list", "classify"} PROVE SeenInv'
  BY <1>5 DEF SeenInv
<1>6. CASE Loop!ListFails \/ Loop!Decide
  BY <1>5, <1>6 DEF Loop!ListFails, Loop!Decide, Loop!AwaitRegistration,
     Loop!BeginRecovery, Loop!EvaluateLoad, Loop!EndPass
<1>7. CASE Loop!Create
  BY <1>5, <1>7 DEF Loop!Create, Loop!LaunchOk, Loop!LaunchFails,
     Loop!EndLaunch, Loop!EndPass
<1>8. CASE Loop!Retire
  BY <1>5, <1>8 DEF Loop!Retire, Loop!ShutdownVictim, Loop!TerminateOk,
     Loop!TerminateFails, Loop!DeregisterVictim, Loop!EndScaleDown, Loop!EndPass
<1>9. Loop!AllIds = AllIds
  BY DEF Loop!AllIds, AllIds
<1> QED
  BY <1>2, <1>3, <1>4, <1>6, <1>7, <1>8, <1>9
     DEF LoopStep, Loop!Reconcile, Loop!Read, Loop!Classify

LEMMA StepSeen ==
    ASSUME SeenInv, Loop!Tagged, [AutoscalerNext]_allVars
    PROVE  SeenInv'
<1>1. CASE UNCHANGED allVars
  BY <1>1 DEF allVars, vars, fleet, loopVars, SeenInv
<1>2. CASE LoopStep(Loop!CooldownElapses)
  BY <1>2 DEF LoopStep, Loop!CooldownElapses, Loop!fleet, Loop!scratch, SeenInv,
     NotesNewcomers
<1>3. ASSUME NEW i \in Ids, AgentComes(i) \/ AgentGoes(i) PROVE SeenInv'
  BY <1>3 DEF AgentComes, AgentRegisters, AgentGoes, AgentStops, loopVars, SeenInv
<1>5. ASSUME NEW i \in Ids, InstanceGoes(i) PROVE SeenInv'
  <2>1. UNCHANGED <<pc, awsSeen, local>> /\ aws' = aws \ {i}
    BY <1>5 DEF InstanceGoes, InstanceLost, Gone, loopVars
  <2>2. /\ pc' = "list" => newcomers' = (newcomers \cup (aws' \ aws)) \cap aws'
        /\ pc' = "classify" => newcomers' = newcomers \cap DOMAIN local' \cap aws'
    BY <1>5 DEF InstanceGoes, NotesNewcomers
  <2> QED
    BY <2>1, <2>2 DEF SeenInv
<1>6. CASE ProcessRestarts
  BY <1>6 DEF ProcessRestarts, Loop!Restart, Loop!EndPass, SeenInv
<1> QED
  BY <1>1, <1>2, <1>3, <1>5, <1>6, LoopSeen, PollsSeen DEF AutoscalerNext

\* HU-22 (asg.go:133-161): with a Project tag configured, the only running
\* instances whose rows a pass takes for ghosts are those a dead-instance handler
\* launched between its two reads, whatever the polls write meanwhile.
THEOREM LiveRowsStayThere ==
    ASSUME Loop!Tagged
    PROVE  AutoscalerSpec => LiveRowsStay
<1>1. SeenInv => \A i \in aws : Loop!RemoveGhost(i) => i \in newcomers
  BY DEF SeenInv, Loop!RemoveGhost, Loop!Ghost
<1>2. SeenInv /\ [AutoscalerNext]_allVars => SeenInv'
  BY StepSeen
<1> QED
  BY <1>1, <1>2, InitSeen, PTL DEF AutoscalerSpec, LiveRowsStay

-----------------------------------------------------------------------------
\* What a step of the loop does to the fleet.
LEMMA LoopKeeps ==
    ASSUME Bookkeeping, LoopStep(Loop!Reconcile) \/ LoopStep(Loop!CooldownElapses)
    PROVE  FleetPart' /\ RegistryPart' /\ PollsPart'
<1>0. FleetPart /\ RegistryPart /\ PollsPart
  BY Parts
<1>1. PollsPart'
  BY <1>0 DEF LoopStep, PollsPart, PollsConsistent
<1>3. ASSUME aws' \subseteq Ids, draining' \subseteq aws' PROVE FleetPart'
  BY <1>3 DEF FleetPart
<1>4. ASSUME UNCHANGED registry PROVE RegistryPart'
  BY <1>0, <1>4 DEF RegistryPart
<1>5. ASSUME NEW i, Loop!DeleteOrNot(i) PROVE RegistryPart'
  <2>1. DeleteOrNot(i)
    BY <1>5 DEF Loop!DeleteOrNot, Loop!Delete, Loop!Without, Loop!Restrict,
       DeleteOrNot, Delete, Without, Restrict
  <2> QED
    BY <1>0, <2>1, DeleteKeeps
<1>6. ASSUME UNCHANGED <<aws, draining>> PROVE FleetPart'
  BY <1>0, <1>6 DEF FleetPart
<1>7. ASSUME NEW i, Loop!Gone(i) PROVE FleetPart'
  BY <1>0, <1>3, <1>7 DEF FleetPart, Loop!Gone
<1>8. CASE Loop!CooldownElapses
  BY <1>1, <1>4, <1>6, <1>8 DEF Loop!CooldownElapses, Loop!fleet
<1>9. CASE Loop!Read \/ Loop!ListFails \/ Loop!Decide
  BY <1>1, <1>4, <1>6, <1>9
     DEF Loop!Read, Loop!DescribeInstances, Loop!ListInstances, Loop!ListFails,
         Loop!Decide, Loop!AwaitRegistration, Loop!BeginRecovery,
         Loop!EvaluateLoad, Loop!fleet
<1>10. CASE Loop!Classify
  BY <1>1, <1>4, <1>5, <1>6, <1>10
     DEF Loop!Classify, Loop!RemoveGhost, Loop!CountInstance, Loop!fleet
<1>11. CASE Loop!Create
  <2>1. aws \subseteq aws' /\ aws' \subseteq Ids /\ UNCHANGED <<registry, draining>>
    BY <1>0, <1>11 DEF Loop!Create, Loop!LaunchOk, Loop!LaunchFails,
       Loop!EndLaunch, Loop!Fresh, Loop!fleet, FleetPart
  <2> QED
    BY <1>0, <1>1, <1>3, <1>4, <2>1 DEF FleetPart
<1>12. ASSUME NEW v, Loop!ShutdownVictim(v)
       PROVE  FleetPart' /\ RegistryPart'
  BY <1>0, <1>3, <1>4, <1>12 DEF Loop!ShutdownVictim, Loop!AskToShutDown, FleetPart
<1>13. CASE Loop!TerminateOk \/ Loop!TerminateFails
  BY <1>1, <1>4, <1>6, <1>7, <1>13 DEF Loop!TerminateOk, Loop!TerminateFails
<1>14. CASE Loop!DeregisterVictim \/ Loop!EndScaleDown
  BY <1>1, <1>4, <1>5, <1>6, <1>14
     DEF Loop!DeregisterVictim, Loop!EndScaleDown, Loop!fleet
<1> QED
  BY <1>1, <1>8, <1>9, <1>10, <1>11, <1>12, <1>13, <1>14
     DEF LoopStep, Loop!Reconcile, Loop!Retire

LEMMA StepTogether ==
    ASSUME Bookkeeping, [AutoscalerNext]_allVars
    PROVE  Bookkeeping'
<1>1. CASE LoopStep(Loop!Reconcile) \/ LoopStep(Loop!CooldownElapses)
  <2>1. FleetPart' /\ RegistryPart' /\ PollsPart'
    BY <1>1, LoopKeeps
  <2>2. Bookkeeping' <=> FleetPart' /\ RegistryPart' /\ PollsPart'
    BY Parts, PTL
  <2> QED
    BY <2>1, <2>2
<1>2. ASSUME [PollNext]_vars PROVE Bookkeeping'
  BY <1>2, StepBookkeeping
<1>3. CASE UNCHANGED allVars
  BY <1>2, <1>3 DEF allVars
<1>4. CASE PollStep(Scheduler)
  BY <1>2, <1>4 DEF PollStep, PollNext
<1>5. ASSUME NEW i \in Ids, AgentComes(i) \/ AgentGoes(i) \/ InstanceGoes(i)
      PROVE  Bookkeeping'
  BY <1>2, <1>5 DEF AgentComes, AgentGoes, InstanceGoes, World, PollNext
<1>6. CASE ProcessRestarts
  BY <1>2, <1>6 DEF ProcessRestarts, PollNext
<1> QED
  BY <1>1, <1>3, <1>4, <1>5, <1>6 DEF AutoscalerNext

\* monitor.go:358-376: the failure bookkeeping of the rows stays consistent also
\* while the reconcile loop launches, retires and deletes rows among the polls.
THEOREM BookkeepingTogether == AutoscalerSpec => []PollTypeOK
<1>1. AutoscalerInit => Bookkeeping
  BY InitBookkeeping DEF AutoscalerInit
<1>2. Bookkeeping /\ [AutoscalerNext]_allVars => Bookkeeping'
  BY StepTogether
<1>3. Bookkeeping => PollTypeOK
  BY DEF Bookkeeping
<1> QED
  BY <1>1, <1>2, <1>3, PTL DEF AutoscalerSpec

-----------------------------------------------------------------------------
(***************************************************************************)
(* The contract between the loop and the rest of the process.  The loop    *)
(* was modelled and proved with an environment of its own; every step of   *)
(* the polls, the dead-instance handlers, the agents and EC2 is one that   *)
(* environment allows, or one the loop cannot see.                         *)
(***************************************************************************)
LoopMoves == [Loop!Next \/ Loop!Handlers]_(Loop!vars)

LEMMA LoopUnaware ==
    ASSUME UNCHANGED loopVars
    PROVE  UNCHANGED <<pc, Loop!scratch, Loop!memory>>
BY DEF loopVars, Loop!scratch, Loop!memory

LEMMA SameIds == Loop!AllIds = AllIds
BY DEF Loop!AllIds, AllIds

LEMMA LoopSeesNothing ==
    ASSUME UNCHANGED loopVars, UNCHANGED fleet
    PROVE  LoopMoves
BY LoopUnaware DEF LoopMoves, Loop!vars, Loop!fleet, fleet

LEMMA LoopSeesWrite ==
    ASSUME UNCHANGED <<aws, draining>>, UNCHANGED loopVars,
           NEW i \in AllIds, NEW row \in PollRow, Upsert(i, row)
    PROVE  LoopMoves
<1>1. Loop!Upsert(i, row)
  BY DEF Upsert, Put, Loop!Upsert, Loop!Put
<1>2. Loop!EnvWrite(i, row)
  BY <1>1, LoopUnaware DEF Loop!EnvWrite
<1> QED
  BY <1>2, SameIds DEF LoopMoves, Loop!Environment, Loop!Running, Loop!Next

LEMMA LoopSeesDelete ==
    ASSUME RegistryPart, UNCHANGED loopVars, UNCHANGED aws,
           NEW i \in AllIds, DeleteOrNot(i), draining' \in {draining, draining \ {i}}
    PROVE  LoopMoves
<1>1. CASE i \in DOMAIN registry \cup draining
  <2>1. Loop!DeleteOrNot(i)
    BY DEF DeleteOrNot, Delete, Loop!DeleteOrNot, Loop!Delete, Without, Restrict,
       Loop!Without, Loop!Restrict
  <2>2. Loop!EnvDelete(i)
    BY <1>1, <2>1, LoopUnaware DEF Loop!EnvDelete
  <2> QED
    BY <2>2, SameIds DEF LoopMoves, Loop!Environment, Loop!Running, Loop!Next
<1>2. CASE i \notin DOMAIN registry \cup draining
  <2>1. Without(registry, i) = registry
    BY <1>2 DEF RegistryPart, Without, Restrict
  <2>2. UNCHANGED fleet
    BY <1>2, <2>1 DEF DeleteOrNot, Delete, fleet
  <2> QED
    BY <2>2, LoopSeesNothing
<1> QED
  BY <1>1, <1>2

LEMMA LoopSeesLoss ==
    ASSUME FleetPart, UNCHANGED loopVars, UNCHANGED registry, NEW i, Gone(i)
    PROVE  LoopMoves
<1>1. CASE i \in aws
  <2>1. i \in Ids /\ Loop!EnvLose(i)
    BY <1>1, LoopUnaware DEF FleetPart, Gone, Loop!EnvLose, Loop!Gone
  <2> QED
    BY <2>1 DEF LoopMoves, Loop!Environment, Loop!Running, Loop!Next
<1>2. CASE i \notin aws
  BY <1>2, LoopSeesNothing DEF FleetPart, Gone, fleet
<1> QED
  BY <1>1, <1>2

LEMMA LoopSeesAsk ==
    ASSUME FleetPart, UNCHANGED loopVars, UNCHANGED <<aws, registry>>,
           NEW i, AskToShutDown(i)
    PROVE  LoopMoves
<1>1. CASE i \in aws
  <2>1. i \in Ids /\ Loop!HandlerAsks(i)
    BY <1>1, LoopUnaware DEF FleetPart, AskToShutDown, Loop!HandlerAsks,
       Loop!AskToShutDown
  <2> QED
    BY <2>1 DEF LoopMoves, Loop!Handlers
<1>2. CASE i \notin aws
  BY <1>2, LoopSeesNothing DEF AskToShutDown, fleet
<1> QED
  BY <1>1, <1>2

LEMMA LoopSeesLaunch ==
    ASSUME UNCHANGED loopVars, UNCHANGED <<registry, draining>>,
           NEW i \in Ids, Loop!Fresh(i), aws' = aws \cup {i}
    PROVE  LoopMoves
<1>1. Loop!HandlerLaunches(i)
  BY LoopUnaware DEF Loop!HandlerLaunches
<1> QED
  BY <1>1 DEF LoopMoves, Loop!Handlers

LEMMA PollsFitLoop ==
    ASSUME Bookkeeping, PollStep(Scheduler)
    PROVE  LoopMoves
<1>0. FleetPart /\ RegistryPart /\ PollsPart /\ UNCHANGED loopVars
  BY Parts DEF PollStep
<1> USE <1>0
<1>1. CASE StartRound
  BY <1>1, LoopSeesNothing DEF StartRound
<1>2. ASSUME NEW i \in AllIds, Poll(i) \/ CountActive(i) PROVE LoopMoves
  BY <1>2, LoopSeesNothing DEF Poll, PollOk, PollFails, CountActive
<1>3. ASSUME NEW i \in AllIds, WriteBack(i) PROVE LoopMoves
  <2>1. polls[i].row \in PollRow
    BY <1>3 DEF WriteBack, At, PollsPart, PollsConsistent, Consistent
  <2> QED
    BY <1>3, <2>1, LoopSeesWrite, LoopSeesNothing DEF WriteBack, fleet
<1>4. ASSUME NEW i \in AllIds, TerminateDead(i) PROVE LoopMoves
  BY <1>4, LoopSeesLoss, LoopSeesAsk DEF TerminateDead
<1>5. ASSUME NEW i \in AllIds, DeleteDead(i) PROVE LoopMoves
  BY <1>5, LoopSeesDelete DEF DeleteDead, DeleteOrNot
<1>6. ASSUME NEW i \in AllIds, CreateReplacement(i) PROVE LoopMoves
  <2>1. CASE UNCHANGED aws
    BY <1>6, <2>1, LoopSeesNothing DEF CreateReplacement, fleet
  <2>2. ASSUME NEW j \in Ids, Unused(j), aws' = aws \cup {j} PROVE LoopMoves
    <3>1. Loop!Fresh(j)
      BY <2>2 DEF PollStep, Unused
    <3> QED
      BY <1>6, <2>2, <3>1, LoopSeesLaunch DEF CreateReplacement
  <2> QED
    BY <1>6, <2>1, <2>2 DEF CreateReplacement
<1> QED
  BY <1>1, <1>2, <1>3, <1>4, <1>5, <1>6 DEF PollStep, Scheduler, HandleDead

LEMMA StepFitsLoop ==
    ASSUME Bookkeeping, [AutoscalerNext]_allVars
    PROVE  LoopMoves
<1>0. FleetPart /\ RegistryPart
  BY Parts
<1> USE <1>0
<1>1. CASE LoopStep(Loop!Reconcile) \/ LoopStep(Loop!CooldownElapses)
  BY <1>1 DEF LoopStep, LoopMoves, Loop!Next, Loop!Running
<1>2. CASE PollStep(Scheduler)
  BY <1>2, PollsFitLoop
<1>3. ASSUME NEW i \in Ids, AgentComes(i) PROVE LoopMoves
  <2>1. RegisteredRow \in PollRow
    BY RegisteredConsistent DEF Consistent
  <2> QED
    BY <1>3, <2>1, LoopSeesWrite DEF AgentComes, AgentRegisters, AllIds
<1>4. ASSUME NEW i \in Ids, AgentGoes(i) PROVE LoopMoves
  BY <1>4, LoopSeesDelete DEF AgentGoes, AgentStops, AllIds
<1>5. ASSUME NEW i \in Ids, InstanceGoes(i) PROVE LoopMoves
  BY <1>5, LoopSeesLoss DEF InstanceGoes, InstanceLost
<1>6. CASE ProcessRestarts
  BY <1>6 DEF ProcessRestarts, LoopMoves, Loop!Next
<1>7. CASE UNCHANGED allVars
  BY <1>7, LoopSeesNothing DEF allVars, vars
<1> QED
  BY <1>1, <1>2, <1>3, <1>4, <1>5, <1>6, <1>7 DEF AutoscalerNext

LEMMA InitFitsLoop ==
    ASSUME IsFiniteSet(InitialFleet), AutoscalerInit
    PROVE  Loop!SharedInit
<1>1. FleetPart /\ RegistryPart
  BY InitBookkeeping, Parts DEF AutoscalerInit
<1>2. registry \in [DOMAIN registry -> PollRow]
  BY <1>1 DEF RegistryPart, Consistent
<1>3. IsFiniteSet(aws \cup DOMAIN registry)
  <2>1. aws \cup DOMAIN registry = InitialFleet
    BY DEF AutoscalerInit, PollInit
  <2> QED
    BY <2>1
<1>4. Loop!FleetTypeOK
  BY <1>1, <1>2, SameIds DEF FleetPart, RegistryPart, Loop!FleetTypeOK
<1>5. Loop!IsFiniteSet(aws \cup DOMAIN registry)
  BY <1>3 DEF IsFiniteSet, Loop!IsFiniteSet
<1> QED
  BY <1>4, <1>5 DEF Loop!SharedInit, AutoscalerInit

\* asg.go:101-352 with monitor.go:240-384: the reconcile loop meets, next to the
\* polls, no state and no step that it was not proved correct for.
THEOREM LoopContract ==
    ASSUME IsFiniteSet(InitialFleet)
    PROVE  AutoscalerSpec => ImplementsLoop
<1>1. AutoscalerInit => Bookkeeping
  BY InitBookkeeping DEF AutoscalerInit
<1>2. Bookkeeping /\ [AutoscalerNext]_allVars => Bookkeeping'
  BY StepTogether
<1>3. AutoscalerInit => Loop!SharedInit
  BY InitFitsLoop
<1>4. Bookkeeping /\ [AutoscalerNext]_allVars
        => [Loop!Next \/ Loop!Handlers]_(Loop!vars)
  BY StepFitsLoop DEF LoopMoves
<1> QED
  BY <1>1, <1>2, <1>3, <1>4, PTL DEF AutoscalerSpec, ImplementsLoop, Loop!SharedSpec

-----------------------------------------------------------------------------
(***************************************************************************)
(* What was proved of the loop carries over.  P holds the theorems of      *)
(* ASGController, stated about the loop of this process (its rows are the  *)
(* polls' rows, its history variables play no part here); definition by    *)
(* definition it is the one Autoscaler composes.                           *)
(***************************************************************************)
P == INSTANCE ASGControllerProofs
         WITH Rows <- PollRow, action <- "hold", zones <- << >>

\* The assumptions of the loop's modules hold of this process.
LEMMA LoopAssumptions ==
    /\ \A row \in PollRow : row.load \in Nat
    /\ MinInstances \in Nat \ {0} /\ MaxInstances \in Nat
    /\ MinInstances <= MaxInstances
    /\ ScaleUpThreshold \in Nat \ {0}
    /\ ScaleDownThreshold \in Nat \ {0}
    /\ EvaluationWindow \in Nat \ {0}
    /\ Ids \cap LocalIds = {} /\ (Ids \cup LocalIds) \cap OtherIds = {}
    /\ None \notin P!AllIds
<1>1. ASSUME NEW row \in PollRow PROVE row.load \in Nat
  <2>1. row.load \in Loads \cup {0}
    BY DEF PollRow
  <2>2. Loads \subseteq Nat
    BY LoopAssumption
  <2>3. 0 \in Nat
    OBVIOUS
  <2> QED
    BY <2>1, <2>2, <2>3, Zenon
<1>2. None \notin P!AllIds
  BY LoopAssumption DEF P!AllIds, AllIds
<1> QED
  BY <1>1, <1>2, LoopAssumption, PollAssumption, IdAssumption

LEMMA SameInit == Loop!SharedInit <=> P!SharedInit
BY DEF Loop!SharedInit, P!SharedInit, Loop!FleetTypeOK, P!FleetTypeOK,
   Loop!LoopInit, P!LoopInit, Loop!NoRows, P!NoRows, Loop!IsFiniteSet,
   P!IsFiniteSet, Loop!AllIds, P!AllIds

LEMMA SameStutter == UNCHANGED Loop!vars <=> UNCHANGED P!vars
BY DEF Loop!vars, P!vars, Loop!fleet, P!fleet, Loop!scratch, P!scratch,
   Loop!memory, P!memory

LEMMA SameNext == (Loop!Next \/ Loop!Handlers) <=> (P!Next \/ P!Handlers)
<1>1. Loop!Read <=> P!Read
  BY DEF Loop!Read, P!Read, Loop!DescribeInstances, P!DescribeInstances,
     Loop!ListInstances, P!ListInstances, Loop!VisibleInstances,
     P!VisibleInstances, Loop!QueryTag, P!QueryTag, Loop!Tagged, P!Tagged,
     Loop!fleet, P!fleet, Loop!memory, P!memory
<1>2. Loop!ListFails <=> P!ListFails
  BY DEF Loop!ListFails, P!ListFails, Loop!EndPass, P!EndPass, Loop!NoRows,
     P!NoRows, Loop!fleet, P!fleet, Loop!memory, P!memory
<1>3. Loop!Classify <=> P!Classify
  BY DEF Loop!Classify, P!Classify, Loop!RemoveGhost, P!RemoveGhost,
     Loop!CountInstance, P!CountInstance, Loop!Ghost, P!Ghost,
     Loop!DeleteOrNot, P!DeleteOrNot, Loop!Delete, P!Delete, Loop!Without,
     P!Without, Loop!Restrict, P!Restrict, Loop!Counted, P!Counted,
     Loop!IsActive, P!IsActive, Loop!Put, P!Put, Loop!AllIds, P!AllIds,
     Loop!fleet, P!fleet, Loop!memory, P!memory
<1>4. Loop!Decide <=> P!Decide
  BY DEF Loop!Decide, P!Decide, Loop!AwaitRegistration, P!AwaitRegistration,
     Loop!BeginRecovery, P!BeginRecovery, Loop!EvaluateLoad, P!EvaluateLoad,
     Loop!Classified, P!Classified, Loop!Waiting, P!Waiting, Loop!ActiveCount,
     P!ActiveCount, Loop!Cardinality, P!Cardinality, Loop!Deficit, P!Deficit,
     Loop!LeastLoaded, P!LeastLoaded, Loop!EndPass, P!EndPass, Loop!NoRows,
     P!NoRows, Loop!fleet, P!fleet, Loop!memory, P!memory, Loop!UpWindowFull,
     P!UpWindowFull, Loop!DownWindowFull, P!DownWindowFull, Loop!Additions,
     P!Additions, Loop!Removals, P!Removals, Loop!StreaksAfter, P!StreaksAfter,
     Loop!WindowFull, P!WindowFull, Loop!NextUpStreak, P!NextUpStreak,
     Loop!NextDownStreak, P!NextDownStreak, Loop!ScaleUpCond, P!ScaleUpCond,
     Loop!ScaleDownCond, P!ScaleDownCond, Loop!CalculateDesiredCount,
     P!CalculateDesiredCount, Loop!Clamp, P!Clamp, Loop!CeilDiv, P!CeilDiv,
     Loop!TargetLoad, P!TargetLoad
<1>5. Loop!Create <=> P!Create
  BY DEF Loop!Create, P!Create, Loop!LaunchOk, P!LaunchOk, Loop!LaunchFails,
     P!LaunchFails, Loop!EndLaunch, P!EndLaunch, Loop!Fresh, P!Fresh,
     Loop!EndPass, P!EndPass, Loop!NoRows, P!NoRows, Loop!fleet, P!fleet,
     Loop!memory, P!memory
<1>6. Loop!Retire <=> P!Retire
  BY DEF Loop!Retire, P!Retire, Loop!ShutdownVictim, P!ShutdownVictim,
     Loop!IsNextVictim, P!IsNextVictim, Loop!AskToShutDown, P!AskToShutDown,
     Loop!TerminateOk, P!TerminateOk, Loop!Gone, P!Gone, Loop!TerminateFails,
     P!TerminateFails, Loop!DeregisterVictim, P!DeregisterVictim,
     Loop!DeleteOrNot, P!DeleteOrNot, Loop!Delete, P!Delete, Loop!Without,
     P!Without, Loop!Restrict, P!Restrict, Loop!EndScaleDown, P!EndScaleDown,
     Loop!EndPass, P!EndPass, Loop!NoRows, P!NoRows, Loop!AllIds, P!AllIds,
     Loop!fleet, P!fleet, Loop!memory, P!memory
<1>7. Loop!CooldownElapses <=> P!CooldownElapses
  BY DEF Loop!CooldownElapses, P!CooldownElapses, Loop!fleet, P!fleet,
     Loop!scratch, P!scratch
<1>8. Loop!Environment <=> P!Environment
  BY DEF Loop!Environment, P!Environment, Loop!EnvWrite, P!EnvWrite,
     Loop!EnvDelete, P!EnvDelete, Loop!EnvLose, P!EnvLose, Loop!Upsert,
     P!Upsert, Loop!Put, P!Put, Loop!DeleteOrNot, P!DeleteOrNot, Loop!Delete,
     P!Delete, Loop!Without, P!Without, Loop!Restrict, P!Restrict, Loop!Gone,
     P!Gone, Loop!AllIds, P!AllIds, Loop!scratch, P!scratch, Loop!memory,
     P!memory
<1>9. Loop!Handlers <=> P!Handlers
  BY DEF Loop!Handlers, P!Handlers, Loop!HandlerAsks, P!HandlerAsks,
     Loop!HandlerLaunches, P!HandlerLaunches, Loop!AskToShutDown,
     P!AskToShutDown, Loop!Fresh, P!Fresh, Loop!scratch, P!scratch,
     Loop!memory, P!memory
<1>10. Loop!Restart <=> P!Restart
  BY DEF Loop!Restart, P!Restart, Loop!EndPass, P!EndPass, Loop!NoRows,
     P!NoRows, Loop!fleet, P!fleet
<1> QED
  BY <1>1, <1>2, <1>3, <1>4, <1>5, <1>6, <1>7, <1>8, <1>9, <1>10
     DEF Loop!Next, P!Next, Loop!Running, P!Running, Loop!Reconcile, P!Reconcile

LEMMA SameLoop == Loop!SharedSpec <=> P!SharedSpec
<1>1. [Loop!Next \/ Loop!Handlers]_(Loop!vars) <=> [P!Next \/ P!Handlers]_(P!vars)
  BY SameNext, SameStutter
<1> QED
  BY SameInit, <1>1, PTL DEF Loop!SharedSpec, P!SharedSpec

\* HU-08 (asg.go:327): in the whole process, too, a scale-down leaves MinInstances
\* of the instances it saw, whatever the polls and the dead-instance handlers
\* launch, terminate and write meanwhile.
THEOREM MinimumKeptTogether ==
    ASSUME LocalIds = {}, IsFiniteSet(InitialFleet)
    PROVE  AutoscalerSpec => []ScaleDownKeepsMinimum
<1>1. P!SharedSpec => []P!ScaleDownLeavesMin
  BY P!MinInstancesKept, LoopAssumptions
<1>2. P!ScaleDownLeavesMin <=> ScaleDownKeepsMinimum
  BY DEF P!ScaleDownLeavesMin, Loop!ScaleDownLeavesMin, ScaleDownKeepsMinimum,
     P!Cardinality, Loop!Cardinality
<1>3. AutoscalerSpec => Loop!SharedSpec
  BY LoopContract DEF ImplementsLoop
<1> QED
  BY <1>1, <1>2, <1>3, SameLoop, PTL

-----------------------------------------------------------------------------
(***************************************************************************)
(* Who is declared dead.  The loop deletes rows and launches instances     *)
(* while polls are in flight; a poll that writes back what the loop        *)
(* deleted, or an instance the loop launched, could be blamed for failures *)
(* of another time.  The history of PollSchedulerHistory, kept for the     *)
(* whole process while it stays up, tells.                                 *)
(***************************************************************************)
LoopTurn == LoopStep(Loop!Reconcile) \/ LoopStep(Loop!CooldownElapses)

TogetherNext ==
    \/ \E i \in AllIds : PollStep(PollRecorded(i))
    \/ /\ \/ PollStep(StartRound)
          \/ \E i \in AllIds : PollStep(WriteBack(i)) \/ PollStep(HandleDead(i))
          \/ \E i \in Ids : AgentComes(i) \/ AgentGoes(i) \/ InstanceGoes(i)
          \/ LoopTurn
       /\ NoPoll

togetherVars == <<allVars, missed>>

TogetherSpec ==
    /\ AutoscalerInit
    /\ missed = [i \in AllIds |-> 0]
    /\ [][TogetherNext]_togetherVars

\* The history adds nothing to the process.
LEMMA TogetherStep == [TogetherNext]_togetherVars => [AutoscalerNext]_allVars
BY DEF TogetherNext, togetherVars, LoopTurn, AutoscalerNext, PollStep, Scheduler,
   Poll, PollRecorded

\* The loop writes no row, and what it launches is new to registry and polls.
LEMMA LoopWrites ==
    ASSUME RegistryPart, LoopTurn
    PROVE  /\ UNCHANGED polls
           /\ \A j \in DOMAIN registry' : j \in DOMAIN registry
                                         /\ registry'[j] = registry[j]
           /\ \A j \in aws' \ aws : j \notin DOMAIN registry \cup DOMAIN polls
<1> DEFINE RowsStay == \A j \in DOMAIN registry' :
                          j \in DOMAIN registry /\ registry'[j] = registry[j]
           AllNew   == \A j \in aws' \ aws : j \notin DOMAIN registry
<1>1. UNCHANGED polls /\ \A j \in aws' \ aws : j \notin DOMAIN polls
  BY DEF LoopTurn, LoopStep
<1> SUFFICES RowsStay /\ AllNew
  BY <1>1
<1>2. ASSUME UNCHANGED registry PROVE RowsStay
  BY <1>2
<1>3. ASSUME aws' \subseteq aws PROVE AllNew
  BY <1>3
<1>4. ASSUME NEW i, Loop!DeleteOrNot(i) PROVE RowsStay
  <2>1. DeleteOrNot(i)
    BY <1>4 DEF Loop!DeleteOrNot, Loop!Delete, Loop!Without, Loop!Restrict,
       DeleteOrNot, Delete, Without, Restrict
  <2> QED
    BY <2>1, DeleteKeeps
<1> HIDE DEF RowsStay, AllNew
<1>5. CASE \/ Loop!CooldownElapses \/ Loop!Read \/ Loop!ListFails \/ Loop!Decide
           \/ Loop!EndLaunch \/ Loop!EndScaleDown
  <2>1. UNCHANGED <<aws, registry>>
    BY <1>5 DEF Loop!CooldownElapses, Loop!Read, Loop!DescribeInstances,
       Loop!ListInstances, Loop!ListFails, Loop!Decide, Loop!AwaitRegistration,
       Loop!BeginRecovery, Loop!EvaluateLoad, Loop!EndLaunch, Loop!EndScaleDown,
       Loop!fleet
  <2> QED
    BY <1>2, <1>3, <2>1
<1>6. CASE Loop!Classify \/ Loop!DeregisterVictim
  <2>1. UNCHANGED aws /\ \E i : UNCHANGED registry \/ Loop!DeleteOrNot(i)
    BY <1>6 DEF Loop!Classify, Loop!RemoveGhost, Loop!CountInstance,
       Loop!DeregisterVictim, Loop!fleet
  <2> QED
    BY <1>2, <1>3, <1>4, <2>1
<1>7. CASE (\E i \in Ids : Loop!LaunchOk(i)) \/ Loop!LaunchFails
  <2>1. UNCHANGED registry /\ \A j \in aws' \ aws : Loop!Fresh(j)
    BY <1>7 DEF Loop!LaunchOk, Loop!LaunchFails
  <2> QED
    BY <1>2, <2>1 DEF Loop!Fresh, AllNew
<1>8. CASE \/ \E v \in AllIds : Loop!ShutdownVictim(v)
           \/ Loop!TerminateOk \/ Loop!TerminateFails
  <2>1. UNCHANGED registry /\ aws' \subseteq aws
    BY <1>8 DEF Loop!ShutdownVictim, Loop!TerminateOk, Loop!TerminateFails, Loop!Gone
  <2> QED
    BY <1>2, <1>3, <2>1
<1> QED
  BY <1>5, <1>6, <1>7, <1>8, SameIds
     DEF LoopTurn, LoopStep, Loop!Reconcile, Loop!Create, Loop!Retire

LEMMA TogetherTally ==
    ASSUME ~RegistryMayFail, TallyInv, [TogetherNext]_togetherVars
    PROVE  TallyInv'
<1>1. Bookkeeping'
  BY TogetherStep, StepTogether DEF TallyInv
<1>2. ASSUME [HistoryNext]_historyVars PROVE TallyInv'
  BY <1>2, StepTally
<1>3. CASE LoopTurn /\ NoPoll
  <2>0. FleetPart /\ RegistryPart /\ PollsPart /\ MissedType /\ Tally
    BY Parts DEF TallyInv
  <2>1. /\ UNCHANGED polls
        /\ \A j \in DOMAIN registry' : j \in DOMAIN registry
                                      /\ registry'[j] = registry[j]
        /\ \A j \in aws' \ aws : j \notin DOMAIN registry \cup DOMAIN polls
    BY <1>3, <2>0, LoopWrites
  <2>2. DOMAIN registry \subseteq AllIds /\ DOMAIN polls \subseteq AllIds
    BY <2>0 DEF RegistryPart, PollsPart, PollsConsistent
  <2>3. /\ MissedType'
        /\ \A j \in DOMAIN registry \cup DOMAIN polls : missed'[j] = missed[j]
    BY <1>3, <2>0, <2>1, <2>2, NoPollKeeps
  <2>4. Tally'
    BY <2>0, <2>1, <2>3 DEF Tally, At
  <2> QED
    BY <1>1, <2>3, <2>4 DEF TallyInv
<1>4. ASSUME NEW i \in AllIds, PollStep(PollRecorded(i)) PROVE TallyInv'
  BY <1>2, <1>4 DEF PollStep, HistoryNext
<1>5. ASSUME NoPoll,
             \/ PollStep(StartRound)
             \/ \E i \in AllIds : PollStep(WriteBack(i)) \/ PollStep(HandleDead(i))
      PROVE  TallyInv'
  BY <1>2, <1>5 DEF PollStep, HistoryNext
<1>6. ASSUME NoPoll, NEW i \in Ids, AgentComes(i) \/ AgentGoes(i) \/ InstanceGoes(i)
      PROVE  TallyInv'
  BY <1>2, <1>6 DEF AgentComes, AgentGoes, InstanceGoes, World, HistoryNext
<1>7. CASE UNCHANGED togetherVars
  BY <1>2, <1>7 DEF togetherVars, allVars, historyVars
<1> QED
  BY <1>3, <1>4, <1>5, <1>6, <1>7 DEF TogetherNext

\* monitor.go:229 for the whole process: as long as the registry takes every
\* write and MonitorS is not restarted, an instance is declared dead only after
\* MaxFailures failed polls in a row, also when the reconcile loop deletes its
\* row, or retires and launches others, while it is polled.
THEOREM DeadAfterFailuresTogether ==
    ASSUME ~RegistryMayFail
    PROVE  TogetherSpec => []DeadAfterConsecutiveFailures
<1>1. AutoscalerInit /\ missed = [i \in AllIds |-> 0] => TallyInv
  BY InitTally DEF AutoscalerInit, HistoryInit
<1>2. TallyInv /\ [TogetherNext]_togetherVars => TallyInv'
  BY TogetherTally
<1>3. TallyInv => DeadAfterConsecutiveFailures
  BY DEF TallyInv, Tally, DeadAfterConsecutiveFailures, At
<1> QED
  BY <1>1, <1>2, <1>3, PTL DEF TogetherSpec
=============================================================================
