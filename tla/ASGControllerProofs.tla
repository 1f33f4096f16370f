------------------------- MODULE ASGControllerProofs -------------------------
(***************************************************************************)
(* Safety of ControllerASG for any instances, any rows and any limits, and *)
(* its refinement of the evaluation window.                                *)
(***************************************************************************)
EXTENDS ASGControllerHistory, ScalingPolicyProofs, FleetProofs, FiniteSetTheorems

RegistryType(f) ==
    /\ DOMAIN f \subseteq AllIds
    /\ f \in [DOMAIN f -> Rows]

\* Only finitely many rows and instances exist at any time.
Finiteness ==
    /\ IsFiniteSet(aws)
    /\ IsFiniteSet(DOMAIN registry)
    /\ IsFiniteSet(awsSeen)
    /\ IsFiniteSet(DOMAIN local)
    /\ IsFiniteSet(DOMAIN active)

Typing == TypeOK /\ Finiteness

LEMMA InitTyping == SharedInit => Typing
<1> SUFFICES ASSUME SharedInit PROVE Typing
  OBVIOUS
<1>1. IsFiniteSet({})
  BY FS_EmptySet
<1>2. aws \subseteq aws \cup DOMAIN registry /\ DOMAIN registry \subseteq aws \cup DOMAIN registry
  OBVIOUS
<1>3. IsFiniteSet(aws) /\ IsFiniteSet(DOMAIN registry)
  BY <1>2, FS_Subset DEF SharedInit
<1> QED
  BY <1>1, <1>3, NoRowsType DEF SharedInit, LoopInit, Typing, TypeOK, Finiteness

\* An empty fleet is one to start with.
LEMMA InitShared == Init => SharedInit
BY FS_EmptySet, NoRowsType DEF Init, FleetInit, SharedInit, FleetTypeOK

LEMMA EndPassTyping ==
    ASSUME EndPass
    PROVE  /\ pc' = "idle"
           /\ awsSeen' \subseteq Ids /\ IsFiniteSet(awsSeen')
           /\ RegistryType(local)' /\ IsFiniteSet((DOMAIN local)')
           /\ (DOMAIN active)' \subseteq AllIds
           /\ (active \in [DOMAIN active -> Nat])'
           /\ IsFiniteSet((DOMAIN active)')
           /\ totalLoad' \in Nat
           /\ toLaunch' \in Nat
           /\ (victims \subseteq DOMAIN active)'
           /\ (current \in AllIds \cup {None})'
<1>1. IsFiniteSet({})
  BY FS_EmptySet
<1> QED
  BY <1>1, NoRowsType DEF EndPass, RegistryType

LEMMA DeleteTyping ==
    ASSUME Typing, NEW i, DeleteOrNot(i)
    PROVE  RegistryType(registry)' /\ IsFiniteSet((DOMAIN registry)')
<1>1. CASE registry' = registry
  BY <1>1 DEF Typing, TypeOK, FleetTypeOK, Finiteness, RegistryType
<1>2. CASE registry' = Without(registry, i)
  <2>1. DOMAIN registry \subseteq AllIds /\ registry \in [DOMAIN registry -> Rows]
    BY DEF Typing, TypeOK, FleetTypeOK
  <2>2. /\ DOMAIN Without(registry, i) = DOMAIN registry \ {i}
        /\ DOMAIN Without(registry, i) \subseteq AllIds
        /\ Without(registry, i) \in [DOMAIN Without(registry, i) -> Rows]
    BY <2>1, WithoutType, Zenon
  <2>3. IsFiniteSet(DOMAIN registry \ {i})
    BY FS_Subset DEF Typing, Finiteness
  <2> QED
    BY <1>2, <2>2, <2>3 DEF RegistryType
<1> QED
  BY <1>1, <1>2 DEF DeleteOrNot, Delete

LEMMA ActiveCountType == Typing => ActiveCount \in Nat
BY FS_CardinalityType DEF Typing, Finiteness, ActiveCount

LEMMA PolicyType ==
    ASSUME Typing
    PROVE  /\ Additions(totalLoad, ActiveCount) \in Int
           /\ Removals(totalLoad, ActiveCount) \in Int
           /\ MinInstances - ActiveCount \in Int
           /\ StreaksAfter(upStreak, downStreak, totalLoad, ActiveCount).up \in Nat
           /\ StreaksAfter(upStreak, downStreak, totalLoad, ActiveCount).down \in Nat
<1>1. ActiveCount \in Nat /\ totalLoad \in Nat /\ upStreak \in Nat /\ downStreak \in Nat
  BY ActiveCountType DEF Typing, TypeOK
<1>2. CalculateDesiredCount(totalLoad) \in Int
  BY <1>1, DesiredWithinLimits, LimitsAssumption
<1>3. MinInstances \in Int
  BY LimitsAssumption
<1> QED
  BY <1>1, <1>2, <1>3, StreaksType DEF Additions, Removals

\* Every step keeps the types, and keeps everything finite.
LEMMA StepTyping == Typing /\ [Next \/ Handlers]_vars => Typing'
<1> SUFFICES ASSUME Typing, [Next \/ Handlers]_vars PROVE Typing'
  OBVIOUS
<1> USE DEF Typing, TypeOK, FleetTypeOK, Finiteness
<1>1. CASE DescribeInstances
  <2>1. VisibleInstances \subseteq Ids /\ IsFiniteSet(VisibleInstances)
    BY FS_EmptySet DEF VisibleInstances
  <2> QED
    BY <1>1, <2>1 DEF DescribeInstances, fleet, memory, RegistryType
<1>2. CASE ListInstances
  BY <1>2 DEF ListInstances, fleet, memory, RegistryType
<1>3. CASE ListFails
  BY <1>3, EndPassTyping DEF ListFails, fleet, memory, RegistryType
<1>4. ASSUME NEW i \in AllIds, RemoveGhost(i)
      PROVE  Typing'
  <2>1. RegistryType(registry)' /\ IsFiniteSet((DOMAIN registry)')
    BY <1>4, DeleteTyping DEF RemoveGhost
  <2>2. RegistryType(local)' /\ IsFiniteSet((DOMAIN local)')
    <3>1. /\ DOMAIN Without(local, i) = DOMAIN local \ {i}
          /\ DOMAIN Without(local, i) \subseteq AllIds
          /\ Without(local, i) \in [DOMAIN Without(local, i) -> Rows]
      BY WithoutType DEF RegistryType
    <3>2. IsFiniteSet(DOMAIN local \ {i})
      BY FS_Subset
    <3> QED
      BY <1>4, <3>1, <3>2 DEF RemoveGhost, RegistryType
  <2> QED
    BY <1>4, <2>1, <2>2 DEF RemoveGhost, memory, RegistryType
<1>5. ASSUME NEW i \in AllIds, CountInstance(i)
      PROVE  Typing'
  <2>1. RegistryType(local)' /\ IsFiniteSet((DOMAIN local)')
    <3>1. /\ DOMAIN Without(local, i) = DOMAIN local \ {i}
          /\ DOMAIN Without(local, i) \subseteq AllIds
          /\ Without(local, i) \in [DOMAIN Without(local, i) -> Rows]
      BY WithoutType DEF RegistryType
    <3>2. IsFiniteSet(DOMAIN local \ {i})
      BY FS_Subset
    <3> QED
      BY <1>5, <3>1, <3>2 DEF CountInstance, RegistryType
  <2>2. /\ (DOMAIN active)' \subseteq AllIds
        /\ (active \in [DOMAIN active -> Nat])'
        /\ IsFiniteSet((DOMAIN active)')
        /\ DOMAIN active \subseteq (DOMAIN active)'
        /\ totalLoad' \in Nat
    <3>1. CASE ~Counted(local[i])
      BY <1>5, <3>1 DEF CountInstance
    <3>2. CASE Counted(local[i])
      <4>1. local[i].load \in Nat
        BY <1>5, RowAssumption DEF CountInstance, RegistryType
      <4>2. /\ DOMAIN Put(active, i, local[i].load) = DOMAIN active \cup {i}
            /\ Put(active, i, local[i].load)
                 \in [DOMAIN Put(active, i, local[i].load) -> Nat]
        BY <4>1 DEF Put
      <4>3. IsFiniteSet(DOMAIN active \cup {i})
        BY FS_AddElement
      <4> QED
        BY <1>5, <3>2, <4>1, <4>2, <4>3 DEF CountInstance
    <3> QED
      BY <3>1, <3>2
  <2> QED
    BY <1>5, <2>1, <2>2 DEF CountInstance, fleet, memory, RegistryType
<1>6. CASE AwaitRegistration
  BY <1>6, EndPassTyping DEF AwaitRegistration, fleet, memory, RegistryType
<1>7. CASE BeginRecovery
  <2>1. MinInstances - ActiveCount \in Nat
    BY <1>7, ActiveCountType, LimitsAssumption DEF BeginRecovery
  <2> QED
    BY <1>7, <2>1 DEF BeginRecovery, Deficit, fleet, memory, RegistryType
<1>8. CASE EvaluateLoad
  <2>1. upStreak' \in Nat /\ downStreak' \in Nat
    BY <1>8, PolicyType DEF EvaluateLoad
  <2>2. CASE /\ Additions(totalLoad, ActiveCount) > 0
             /\ toLaunch' = Additions(totalLoad, ActiveCount)
             /\ pc' = "launch"
             /\ UNCHANGED <<awsSeen, local, active, totalLoad, victims, current>>
    <3>1. toLaunch' \in Nat
      BY <2>2, PolicyType
    <3> QED
      BY <1>8, <2>1, <2>2, <3>1 DEF EvaluateLoad, fleet, RegistryType
  <2>3. CASE /\ victims' \in SUBSET DOMAIN active
             /\ pc' = "drain"
             /\ UNCHANGED <<awsSeen, local, active, totalLoad, toLaunch, current>>
    BY <1>8, <2>1, <2>3 DEF EvaluateLoad, fleet, RegistryType
  <2>4. CASE EndPass
    BY <1>8, <2>1, <2>4, EndPassTyping DEF EvaluateLoad, fleet, RegistryType
  <2> QED
    BY <1>8, <2>2, <2>3, <2>4 DEF EvaluateLoad
<1>9. ASSUME NEW i \in Ids, LaunchOk(i)
      PROVE  Typing'
  <2>1. IsFiniteSet(aws \cup {i})
    BY FS_AddElement
  <2>2. toLaunch' \in Nat
    BY <1>9 DEF LaunchOk
  <2> QED
    BY <1>9, <2>1, <2>2 DEF LaunchOk, memory, RegistryType
<1>10. CASE LaunchFails
  <2>1. aws' \subseteq Ids /\ IsFiniteSet(aws') /\ aws \subseteq aws'
    BY <1>10, FS_AddElement DEF LaunchFails
  <2> QED
    BY <1>10, <2>1 DEF LaunchFails, memory, RegistryType
<1>11. CASE EndLaunch
  BY <1>11, EndPassTyping DEF EndLaunch, fleet, RegistryType
<1>12. ASSUME NEW v \in AllIds, ShutdownVictim(v)
       PROVE  Typing'
  BY <1>12 DEF ShutdownVictim, AskToShutDown, memory, RegistryType
<1>13. ASSUME NEW i, Gone(i)
       PROVE  /\ aws' \subseteq Ids /\ IsFiniteSet(aws')
              /\ draining' \subseteq aws'
  <2>1. IsFiniteSet(aws \ {i})
    BY FS_Subset
  <2> QED
    BY <1>13, <2>1 DEF Gone
<1>14. CASE TerminateOk
  BY <1>14, <1>13 DEF TerminateOk, memory, RegistryType
<1>15. CASE TerminateFails
  <2>1. aws' \subseteq Ids /\ IsFiniteSet(aws') /\ draining' \subseteq aws'
    BY <1>15, <1>13 DEF TerminateFails
  <2> QED
    BY <1>15, <2>1 DEF TerminateFails, memory, RegistryType
<1>16. CASE DeregisterVictim
  <2>1. RegistryType(registry)' /\ IsFiniteSet((DOMAIN registry)')
    BY <1>16, DeleteTyping DEF DeregisterVictim
  <2> QED
    BY <1>16, <2>1 DEF DeregisterVictim, memory, RegistryType
<1>17. CASE EndScaleDown
  BY <1>17, EndPassTyping DEF EndScaleDown, fleet, RegistryType
<1>18. CASE CooldownElapses
  BY <1>18 DEF CooldownElapses, fleet, scratch, RegistryType
<1>19. CASE Restart
  BY <1>19, EndPassTyping DEF Restart, fleet, RegistryType
<1>20. ASSUME NEW i \in AllIds, NEW row \in Rows, EnvWrite(i, row)
       PROVE  Typing'
  <2>2. /\ DOMAIN Put(registry, i, row) = DOMAIN registry \cup {i}
        /\ DOMAIN Put(registry, i, row) \subseteq AllIds
        /\ Put(registry, i, row) \in [DOMAIN Put(registry, i, row) -> Rows]
    BY PutType DEF RegistryType
  <2>3. IsFiniteSet(DOMAIN registry \cup {i})
    BY FS_AddElement
  <2> QED
    BY <1>20, <2>2, <2>3 DEF EnvWrite, Upsert, scratch, memory, RegistryType
<1>21. ASSUME NEW i \in AllIds, EnvDelete(i)
       PROVE  Typing'
  <2>1. RegistryType(registry)' /\ IsFiniteSet((DOMAIN registry)')
    BY <1>21, DeleteTyping DEF EnvDelete
  <2> QED
    BY <1>21, <2>1 DEF EnvDelete, scratch, memory, RegistryType
<1>22. ASSUME NEW i \in Ids, EnvLose(i)
       PROVE  Typing'
  BY <1>22, <1>13 DEF EnvLose, scratch, memory, RegistryType
<1>23. ASSUME NEW i \in Ids, HandlerAsks(i)
       PROVE  Typing'
  BY <1>23 DEF HandlerAsks, AskToShutDown, scratch, memory, RegistryType
<1>24. ASSUME NEW i \in Ids, HandlerLaunches(i)
       PROVE  Typing'
  <2>1. IsFiniteSet(aws \cup {i})
    BY FS_AddElement
  <2> QED
    BY <1>24, <2>1 DEF HandlerLaunches, scratch, memory, RegistryType
<1>25. CASE UNCHANGED vars
  BY <1>25 DEF vars, fleet, scratch, memory, RegistryType
<1> QED
  BY <1>1, <1>2, <1>3, <1>4, <1>5, <1>6, <1>7, <1>8, <1>9, <1>10, <1>11, <1>12,
     <1>14, <1>15, <1>16, <1>17, <1>18, <1>19, <1>20, <1>21, <1>22, <1>23,
     <1>24, <1>25
     DEF Next, Running, Reconcile, Read, Classify, Decide, Create, Retire, Environment,
         Handlers

\* What holds next to the handlers holds without them.
LEMMA SpecIsShared == Spec => SharedSpec
<1>1. [Next]_vars => [Next \/ Handlers]_vars
  OBVIOUS
<1> QED
  BY <1>1, InitShared, PTL DEF Spec, SharedSpec

\* The types of ASGController's state, for any set of instances and rows, with
\* and without handlers that launch and terminate beside it.
THEOREM TypeCorrect == (Spec => []TypeOK) /\ (SharedSpec => []TypeOK)
<1>1. SharedSpec => []Typing
  BY InitTyping, StepTyping, PTL DEF SharedSpec
<1>2. Typing => TypeOK
  BY DEF Typing
<1> QED
  BY <1>1, <1>2, SpecIsShared, PTL
-----------------------------------------------------------------------------
(***************************************************************************)
(* HU-08, the upper limit.  A pass launches only on the strength of a read *)
(* of EC2 that shows every instance there is (Complete): recovery and      *)
(* scale-up both count at least as many active rows as that read returned, *)
(* so what they add fits under MaxInstances (Room).                        *)
(***************************************************************************)
Complete == pc \in {"list", "classify"} => aws \subseteq awsSeen

Room == pc = "launch" => Cardinality(aws) + toLaunch <= MaxInstances

LimitInv == Typing /\ Complete /\ Room /\ WithinMaxInstances

LEMMA FewerInstances ==
    ASSUME Typing, NEW S, S \subseteq aws
    PROVE  Cardinality(S) \in Nat /\ Cardinality(S) <= Cardinality(aws)
BY FS_Subset, FS_CardinalityType DEF Typing, Finiteness

LEMMA OneMoreInstance ==
    ASSUME Typing, NEW i, i \notin aws
    PROVE  Cardinality(aws \cup {i}) = Cardinality(aws) + 1
BY FS_AddElement DEF Typing, Finiteness

LEMMA StepLimit ==
    ASSUME Tagged, LimitInv, [Next]_vars
    PROVE  LimitInv'
<1>1. Typing'
  BY StepTyping DEF LimitInv
<1>2. Cardinality(aws) \in Nat /\ Cardinality(aws) <= MaxInstances
  BY FewerInstances DEF LimitInv, WithinMaxInstances
<1>3. MinInstances \in Nat /\ MaxInstances \in Nat /\ MinInstances <= MaxInstances
  BY LimitsAssumption
<1>4. toLaunch \in Nat
  BY DEF LimitInv, Typing, TypeOK
<1> SUFFICES (Complete /\ Room /\ WithinMaxInstances)'
  BY <1>1 DEF LimitInv
<1> USE DEF Complete, Room, WithinMaxInstances
<1>5. CASE /\ aws' = aws
           /\ pc' \notin {"list", "classify", "launch"}
  BY <1>2, <1>5
<1>6. CASE DescribeInstances
  BY <1>2, <1>6 DEF DescribeInstances, VisibleInstances, QueryTag, Tagged,
     fleet
<1>7. CASE ListInstances
  BY <1>2, <1>7 DEF ListInstances, fleet, LimitInv
<1>8. ASSUME NEW i \in AllIds, RemoveGhost(i) \/ CountInstance(i)
      PROVE  (Complete /\ Room /\ WithinMaxInstances)'
  BY <1>2, <1>8 DEF RemoveGhost, CountInstance, fleet, LimitInv
<1>9. ASSUME Classified, ~Waiting
      PROVE  Cardinality(aws) <= ActiveCount /\ ActiveCount \in Nat
  <2>1. aws \subseteq awsSeen /\ IsFiniteSet(awsSeen)
    BY <1>9 DEF Classified, LimitInv, Typing, Finiteness
  <2>2. Cardinality(aws) <= Cardinality(awsSeen) /\ Cardinality(awsSeen) \in Nat
    BY <2>1, FS_Subset, FS_CardinalityType
  <2>3. ActiveCount \in Nat
    BY ActiveCountType DEF LimitInv
  <2> QED
    BY <1>2, <1>9, <2>2, <2>3 DEF Waiting
<1>10. CASE BeginRecovery
  <2>1. Cardinality(aws) + (MinInstances - ActiveCount) <= MaxInstances
    BY <1>2, <1>3, <1>9, <1>10 DEF BeginRecovery
  <2> QED
    BY <1>2, <1>10, <2>1 DEF BeginRecovery, Deficit, fleet
<1>11. CASE EvaluateLoad
  <2>1. Cardinality(aws) <= ActiveCount /\ ActiveCount \in Nat
    BY <1>9, <1>11 DEF EvaluateLoad
  <2>2. totalLoad \in Int
    BY DEF LimitInv, Typing, TypeOK
  <2>3. CalculateDesiredCount(totalLoad) \in MinInstances..MaxInstances
    BY <2>2, DesiredWithinLimits
  <2>4. Cardinality(aws) + Additions(totalLoad, ActiveCount) <= MaxInstances
    BY <1>2, <1>3, <2>1, <2>3 DEF Additions
  <2>5. \/ pc' = "launch" /\ toLaunch' = Additions(totalLoad, ActiveCount)
        \/ pc' \in {"drain", "idle"}
    BY <1>11 DEF EvaluateLoad, EndPass
  <2> QED
    BY <1>2, <1>11, <2>4, <2>5 DEF EvaluateLoad, fleet
<1>12. ASSUME NEW i \in Ids, LaunchOk(i)
       PROVE  (Complete /\ Room /\ WithinMaxInstances)'
  <2>1. Cardinality(aws') = Cardinality(aws) + 1
    BY <1>12, OneMoreInstance DEF LaunchOk, Fresh, LimitInv
  <2> QED
    BY <1>2, <1>3, <1>4, <1>12, <2>1 DEF LaunchOk, LimitInv
<1>13. CASE LaunchFails
  <2>1. \/ Cardinality(aws') = Cardinality(aws)
        \/ Cardinality(aws') = Cardinality(aws) + 1
    BY <1>13, OneMoreInstance DEF LaunchFails, Fresh, LimitInv
  <2> QED
    BY <1>2, <1>3, <1>4, <1>13, <2>1 DEF LaunchFails, LimitInv
<1>14. ASSUME aws' \subseteq aws, pc' = pc => UNCHANGED <<awsSeen, toLaunch>>,
              pc' # pc => pc' \notin {"list", "classify", "launch"}
       PROVE  (Complete /\ Room /\ WithinMaxInstances)'
  <2>1. Cardinality(aws') \in Nat /\ Cardinality(aws') <= Cardinality(aws)
    BY <1>14, FewerInstances DEF LimitInv
  <2> QED
    BY <1>2, <1>3, <1>4, <1>14, <2>1 DEF LimitInv
<1>15. CASE \/ AwaitRegistration \/ ListFails \/ EndLaunch \/ EndScaleDown
            \/ Restart \/ \E v \in AllIds : ShutdownVictim(v)
            \/ DeregisterVictim
  BY <1>5, <1>15 DEF AwaitRegistration, ListFails, EndLaunch, EndScaleDown,
     Restart, ShutdownVictim, DeregisterVictim, EndPass, fleet
<1>16. CASE TerminateOk \/ TerminateFails
  BY <1>14, <1>16 DEF TerminateOk, TerminateFails, Gone
<1>17. CASE \/ CooldownElapses \/ Environment \/ UNCHANGED vars
  BY <1>14, <1>17 DEF CooldownElapses, Environment, EnvWrite, EnvDelete,
     EnvLose, Gone, fleet, scratch, fleet, vars
<1> QED
  BY <1>6, <1>7, <1>8, <1>10, <1>11, <1>12, <1>13, <1>15, <1>16, <1>17
     DEF Next, Running, Reconcile, Read, Classify, Decide, Create, Retire

LEMMA InitLimit == Init => LimitInv
<1> SUFFICES ASSUME Init PROVE LimitInv
  OBVIOUS
<1>1. Typing
  BY InitShared, InitTyping
<1>2. Cardinality({}) = 0
  BY FS_EmptySet
<1> QED
  BY <1>1, <1>2, LimitsAssumption
     DEF Init, FleetInit, LoopInit, LimitInv, Complete, Room, WithinMaxInstances

\* HU-08 (asg.go:275): the controller never has more than MaxInstances
\* instances, provided its instances carry the tag it asks EC2 for.
THEOREM MaxInstancesRespected ==
    ASSUME Tagged
    PROVE  Spec => []WithinMaxInstances
<1>1. LimitInv /\ [Next]_vars => LimitInv'
  BY StepLimit
<1>2. LimitInv => WithinMaxInstances
  BY DEF LimitInv
<1> QED
  BY InitLimit, <1>1, <1>2, PTL DEF Spec

\* HU-22 (asg.go:156-161): reading EC2 first and the registry second, the pass
\* never takes the row of a running instance for a ghost.
THEOREM LiveRowsKept ==
    ASSUME Tagged
    PROVE  Spec => NoLiveGhost
<1>1. LimitInv /\ [Next]_vars => LimitInv'
  BY StepLimit
<1>2. LimitInv => [\A i \in aws : ~RemoveGhost(i)]_vars
  BY DEF LimitInv, Complete, RemoveGhost, Ghost
<1> QED
  BY InitLimit, <1>1, <1>2, PTL DEF Spec, NoLiveGhost

-----------------------------------------------------------------------------
(***************************************************************************)
(* HU-08, the lower limit.  Only rows EC2 confirmed are counted (Counted-  *)
(* Seen), so a pass that does not wait counts every instance it saw; the   *)
(* victims are then chosen among those, and the loop only ever shortens    *)
(* the list (Survivors).                                                   *)
(***************************************************************************)
ScalingDown == pc \in {"drain", "terminate", "deregister"}

Doomed == victims \cup {current}

CountedSeen == pc = "classify" => DOMAIN active \subseteq awsSeen \cup LocalIds

NoneChosen == pc \notin {"terminate", "deregister"} => current = None

EmptyScratch == pc \in {"idle", "list"} => DOMAIN active = {}

MinInv == Typing /\ CountedSeen /\ NoneChosen /\ EmptyScratch /\ ScaleDownLeavesMin

\* asg.go:336: what is left after taking `remove` of the active instances.
LEMMA SurvivorCount ==
    ASSUME NEW S, IsFiniteSet(S), NEW V \in SUBSET S, NEW total \in Int,
           Cardinality(V) = Removals(total, Cardinality(S))
    PROVE  Cardinality(S \ V) >= MinInstances
<1>1. S \cap V = V /\ IsFiniteSet(V)
  BY FS_Subset
<1>2. Cardinality(S) \in Nat /\ Cardinality(V) \in Nat
  BY <1>1, FS_CardinalityType
<1>3. Cardinality(S \ V) = Cardinality(S) - Cardinality(V)
  <2>1. Cardinality(S \ V) = Cardinality(S) - Cardinality(S \cap V)
    BY FS_Difference, Zenon
  <2> QED
    BY <1>1, <2>1
<1>4. Removals(total, Cardinality(S)) <= Cardinality(S) - MinInstances
  BY <1>2, DesiredWithinLimits, LimitsAssumption DEF Removals
<1> QED
  BY <1>2, <1>3, <1>4, LimitsAssumption

LEMMA StepMin ==
    ASSUME LocalIds = {}, MinInv, [Next \/ Handlers]_vars
    PROVE  MinInv'
<1>1. Typing'
  BY StepTyping DEF MinInv
<1> SUFFICES (CountedSeen /\ NoneChosen /\ EmptyScratch /\ ScaleDownLeavesMin)'
  BY <1>1 DEF MinInv
<1> USE DEF MinInv, CountedSeen, NoneChosen, EmptyScratch, ScaleDownLeavesMin
<1>2. CASE EndPass
  BY <1>2 DEF EndPass, NoRows
<1>3. CASE /\ pc' = pc
           /\ UNCHANGED <<awsSeen, active, victims, current>>
  BY <1>3
<1>4. CASE DescribeInstances
  BY <1>4 DEF DescribeInstances
<1>5. CASE ListInstances
  BY <1>5 DEF ListInstances
<1>6. ASSUME NEW i \in AllIds, RemoveGhost(i)
      PROVE  (CountedSeen /\ NoneChosen /\ EmptyScratch /\ ScaleDownLeavesMin)'
  BY <1>3, <1>6 DEF RemoveGhost
<1>7. ASSUME NEW i \in AllIds, CountInstance(i)
      PROVE  (CountedSeen /\ NoneChosen /\ EmptyScratch /\ ScaleDownLeavesMin)'
  <2>1. DOMAIN active' \subseteq DOMAIN active \cup {i} /\ i \in awsSeen \cup LocalIds
    BY <1>7 DEF CountInstance, Ghost, Put
  <2> QED
    BY <1>7, <2>1 DEF CountInstance
<1>8. CASE BeginRecovery
  BY <1>8 DEF BeginRecovery, Classified
<1>9. CASE EvaluateLoad
  <2>1. CASE pc' = "launch" /\ current' = current
    BY <1>9, <2>1 DEF EvaluateLoad, Classified
  <2>2. CASE /\ victims' \in SUBSET DOMAIN active
             /\ LeastLoaded(victims', Removals(totalLoad, ActiveCount))
             /\ pc' = "drain"
             /\ UNCHANGED <<awsSeen, current>>
    <3>1. DOMAIN active \subseteq awsSeen /\ IsFiniteSet(awsSeen)
      BY <1>9 DEF EvaluateLoad, Classified, Typing, Finiteness
    <3>2. Cardinality(DOMAIN active) >= Cardinality(awsSeen)
      <4>1. Cardinality(awsSeen) \in Nat /\ ActiveCount \in Nat
        BY <3>1, FS_CardinalityType, ActiveCountType
      <4> QED
        BY <1>9, <4>1 DEF EvaluateLoad, Waiting, ActiveCount
    <3>3. DOMAIN active = awsSeen
      BY <3>1, <3>2, FS_Subset, FS_CardinalityType
    <3>4. totalLoad \in Int
      BY DEF Typing, TypeOK
    <3>5. Cardinality(awsSeen \ victims') >= MinInstances
      BY <2>2, <3>1, <3>3, <3>4, SurvivorCount DEF LeastLoaded, ActiveCount
    <3>6. current = None /\ None \notin awsSeen
      BY <1>9, NoneAssumption
         DEF EvaluateLoad, Classified, Typing, TypeOK, AllIds
    <3>7. awsSeen' \ (victims' \cup {current'}) = awsSeen \ victims'
      BY <2>2, <3>6
    <3> QED
      BY <2>2, <3>5, <3>6, <3>7
  <2> QED
    BY <1>2, <1>9, <2>1, <2>2 DEF EvaluateLoad
<1>10. CASE (\E i \in Ids : LaunchOk(i)) \/ LaunchFails
  BY <1>3, <1>10 DEF LaunchOk, LaunchFails
<1>11. ASSUME pc \in {"drain", "terminate", "deregister"},
              pc' \in {"drain", "terminate", "deregister"},
              awsSeen' = awsSeen, pc' = "drain" => current' = None,
              awsSeen \ Doomed \subseteq awsSeen' \ Doomed'
       PROVE  (CountedSeen /\ NoneChosen /\ EmptyScratch /\ ScaleDownLeavesMin)'
  <2>1. IsFiniteSet(awsSeen' \ Doomed')
    BY <1>1, FS_Subset DEF Typing, Finiteness
  <2>2. Cardinality(awsSeen \ Doomed) <= Cardinality(awsSeen' \ Doomed')
    BY <1>11, <2>1, FS_Subset
  <2>3. /\ Cardinality(awsSeen \ Doomed) \in Nat
        /\ Cardinality(awsSeen' \ Doomed') \in Nat
    BY <1>11, <2>1, FS_Subset, FS_CardinalityType
  <2>4. Cardinality(awsSeen' \ Doomed') >= MinInstances
    BY <1>11, <2>2, <2>3, LimitsAssumption DEF Doomed
  <2> QED
    BY <1>11, <2>4 DEF Doomed
<1>12. ASSUME NEW v \in AllIds, ShutdownVictim(v)
       PROVE  (CountedSeen /\ NoneChosen /\ EmptyScratch /\ ScaleDownLeavesMin)'
  BY <1>11, <1>12, NoneAssumption DEF ShutdownVictim, IsNextVictim, Doomed
<1>13. CASE TerminateOk
  BY <1>11, <1>13 DEF TerminateOk, Doomed
<1>14. ASSUME TerminateFails \/ DeregisterVictim
       PROVE  (CountedSeen /\ NoneChosen /\ EmptyScratch /\ ScaleDownLeavesMin)'
  <2>1. None \notin awsSeen
    BY NoneAssumption DEF Typing, TypeOK, AllIds
  <2> QED
    BY <1>11, <1>14, <2>1 DEF TerminateFails, DeregisterVictim, Doomed
<1>15. CASE AwaitRegistration \/ ListFails \/ EndLaunch \/ EndScaleDown \/ Restart
  BY <1>2, <1>15 DEF AwaitRegistration, ListFails, EndLaunch, EndScaleDown, Restart
<1>16. CASE CooldownElapses \/ Environment \/ Handlers \/ UNCHANGED vars
  BY <1>3, <1>16 DEF CooldownElapses, Environment, EnvWrite, EnvDelete, EnvLose,
     Handlers, HandlerAsks, HandlerLaunches, scratch, fleet, vars
<1> QED
  BY <1>4, <1>5, <1>6, <1>7, <1>8, <1>9, <1>10, <1>12, <1>13, <1>14, <1>15, <1>16
     DEF Next, Running, Reconcile, Read, Classify, Decide, Create, Retire

\* HU-08 (asg.go:327): a scale-down leaves MinInstances of the instances EC2
\* reported, provided every registered id is an EC2 id, and whatever the
\* dead-instance handlers launch and terminate meanwhile.
THEOREM MinInstancesKept ==
    ASSUME LocalIds = {}
    PROVE  (Spec => []ScaleDownLeavesMin) /\ (SharedSpec => []ScaleDownLeavesMin)
<1>1. SharedInit => MinInv
  BY InitTyping DEF SharedInit, LoopInit, MinInv, CountedSeen, NoneChosen,
     EmptyScratch, ScaleDownLeavesMin, NoRows
<1>2. MinInv /\ [Next \/ Handlers]_vars => MinInv'
  BY StepMin
<1>3. MinInv => ScaleDownLeavesMin
  BY DEF MinInv
<1>4. SharedSpec => []ScaleDownLeavesMin
  BY <1>1, <1>2, <1>3, PTL DEF SharedSpec
<1> QED
  BY <1>4, SpecIsShared, PTL

-----------------------------------------------------------------------------
(***************************************************************************)
(* The streak counters implement the evaluation window: through every pass *)
(* of the controller, however it ends, each counter is the length of the   *)
(* run of equal zones at the end of what ScalingWindow remembers.          *)
(***************************************************************************)

\* The zones no action has used yet: an action clears the counters and the
\* window starts over.
Unused == IF action = "hold" THEN zones ELSE << >>

StreakInv ==
    /\ upStreak \in Nat /\ upStreak < EvaluationWindow
    /\ downStreak \in Nat /\ downStreak < EvaluationWindow
    /\ ZoneHistory(Unused)
    /\ RunOf(Unused, "over", upStreak)
    /\ RunOf(Unused, "under", downStreak)

HistoryInv == Typing /\ StreakInv

\* One evaluation moves the counters and the window alike.
LEMMA EvaluationStep ==
    ASSUME DefaultThresholds, MinInstances >= 2, HistoryInv,
           EvaluateLoad, NoteEvaluation
    PROVE  StreakInv' /\ Window!Evaluate(CurrentZone)
<1> DEFINE n    == ActiveCount
           up   == NextUpStreak(upStreak, totalLoad, n)
           down == NextDownStreak(downStreak, totalLoad, n)
<1>1. n \in Nat \ {0} /\ totalLoad \in Nat
  BY ActiveCountType, LimitsAssumption DEF HistoryInv, Typing, TypeOK, EvaluateLoad
<1>2. /\ upStreak \in Nat /\ upStreak < EvaluationWindow
      /\ downStreak \in Nat /\ downStreak < EvaluationWindow
      /\ EvaluationWindow \in Nat \ {0}
  BY ThresholdAssumption DEF HistoryInv, StreakInv
<1>3. zones' = Window!Remember(Unused, CurrentZone)
  BY DEF NoteEvaluation, Unused
<1>4. zones' = Plain!Remember(Unused, Zone(totalLoad, n))
  BY <1>3 DEF CurrentZone, Window!Remember, Plain!Remember
<1>5. /\ ZoneHistory(Unused)
      /\ RunOf(Unused, "over", upStreak)
      /\ RunOf(Unused, "under", downStreak)
  BY DEF HistoryInv, StreakInv
<1> HIDE DEF n, up, down
<1>6. /\ ZoneHistory(zones')
      /\ RunOf(zones', "over", up)
      /\ RunOf(zones', "under", down)
      /\ UpWindowFull(upStreak, totalLoad, n) <=> Plain!Whole(zones', "over")
      /\ DownWindowFull(upStreak, downStreak, totalLoad, n)
           <=> Plain!Whole(zones', "under")
  BY <1>1, <1>2, <1>4, <1>5, StreaksAreRuns DEF up, down
<1>7. \A z : Window!Whole(zones', z) <=> Plain!Whole(zones', z)
  BY DEF Window!Whole, Plain!Whole
<1>8. ConditionsCallForChange(totalLoad, n)
  BY <1>1, WindowsAct
<1>9. /\ UpWindowFull(upStreak, totalLoad, n) => pc' = "launch"
      /\ DownWindowFull(upStreak, downStreak, totalLoad, n) => pc' = "drain"
      /\ ~WindowFull(upStreak, downStreak, totalLoad, n) => pc' = "idle"
  BY <1>8 DEF EvaluateLoad, ConditionsCallForChange, UpWindowFull,
     DownWindowFull, WindowFull, EndPass, n
<1>10. action' = CASE Window!Whole(zones', "over")  -> "up"
                   [] Window!Whole(zones', "under") -> "down"
                   [] OTHER                         -> "hold"
  BY <1>6, <1>7, <1>9 DEF NoteEvaluation, WindowFull, DownWindowFull
<1>11. /\ action' = "hold" => Unused' = zones' /\ upStreak' = up /\ downStreak' = down
       /\ action' # "hold" => Unused' = << >> /\ upStreak' = 0 /\ downStreak' = 0
  BY <1>6, <1>7, <1>10 DEF EvaluateLoad, StreaksAfter, WindowFull, Unused, n, up, down
<1>12. StreakInv'
  <2>1. up \in Nat /\ down \in Nat
    BY <1>2 DEF up, down, NextUpStreak, NextDownStreak
  <2>2. /\ Plain!Whole(zones', "over") <=> up >= EvaluationWindow
        /\ Plain!Whole(zones', "under") <=> down >= EvaluationWindow
    BY <1>6, WholeIsFullRun
  <2>3. action' = "hold" => /\ ~Plain!Whole(zones', "over")
                            /\ ~Plain!Whole(zones', "under")
    BY <1>7, <1>10
  <2>4. action' = "hold" => up < EvaluationWindow /\ down < EvaluationWindow
    BY <1>2, <2>1, <2>2, <2>3
  <2> QED
    BY <1>2, <1>6, <1>11, <2>1, <2>4, EmptyRuns DEF StreakInv
<1>13. Window!Evaluate(CurrentZone)
  BY <1>3, <1>10 DEF Window!Evaluate, Unused
<1> QED
  BY <1>12, <1>13

LEMMA HistoryStep ==
    ASSUME DefaultThresholds, MinInstances >= 2, HistoryInv,
           [HistoryNext]_<<vars, history>>
    PROVE  /\ HistoryInv'
           /\ [(\E zone \in Window!Zones : Window!Evaluate(zone)) \/ Window!Forget]_<<action, zones>>
<1>1. Typing'
  <2>1. [Next]_vars
    BY DEF HistoryNext, Quiet, Next, Running, Reconcile, Decide
  <2> QED
    BY <2>1, StepTyping DEF HistoryInv
<1>2. CASE EvaluateLoad /\ NoteEvaluation
  <2>1. CurrentZone \in Window!Zones
    BY DEF CurrentZone, Zone, Window!Zones
  <2> QED
    BY <1>1, <1>2, <2>1, EvaluationStep DEF HistoryInv
<1>3. CASE UNCHANGED <<upStreak, downStreak, action, zones>>
  BY <1>1, <1>3 DEF HistoryInv, StreakInv, Unused
<1>4. CASE Restart /\ action' = "hold" /\ zones' = << >>
  BY <1>1, <1>4, EmptyRuns, ThresholdAssumption DEF HistoryInv, StreakInv, Restart,
     Unused, Window!Forget
<1>5. CASE (AwaitRegistration \/ BeginRecovery \/ ListFails) /\ UNCHANGED history
  BY <1>3, <1>5 DEF AwaitRegistration, BeginRecovery, ListFails, memory, history
<1>6. CASE Quiet /\ UNCHANGED history
  BY <1>3, <1>6 DEF Quiet, Read, DescribeInstances, ListInstances, Classify,
     RemoveGhost, CountInstance, Create, LaunchOk, LaunchFails, EndLaunch,
     Retire, ShutdownVictim, TerminateOk, TerminateFails, DeregisterVictim,
     EndScaleDown, CooldownElapses, Environment, EnvWrite, EnvDelete, EnvLose,
     memory, history
<1>7. CASE UNCHANGED <<vars, history>>
  BY <1>3, <1>7 DEF vars, memory, history
<1> QED
  BY <1>2, <1>4, <1>5, <1>6, <1>7 DEF HistoryNext

\* HU-26: with the default thresholds and the minimum Validate insists on, the
\* controller implements the evaluation window, whatever its length.
THEOREM WindowImplemented ==
    ASSUME DefaultThresholds, MinInstances >= 2
    PROVE  HistorySpec => ImplementsWindow
<1>1. HistoryInit => HistoryInv
  BY InitShared, InitTyping, EmptyRuns, ThresholdAssumption
     DEF HistoryInit, Init, LoopInit, HistoryInv, StreakInv, Unused
<1>2. HistoryInit => Window!WindowInit
  BY DEF HistoryInit, Window!WindowInit
<1>3. HistoryInv /\ [HistoryNext]_<<vars, history>> => HistoryInv'
  BY HistoryStep
<1>4. HistoryInv /\ [HistoryNext]_<<vars, history>>
        => [(\E zone \in Window!Zones : Window!Evaluate(zone)) \/ Window!Forget]_<<action, zones>>
  BY HistoryStep
<1> QED
  BY <1>1, <1>2, <1>3, <1>4, PTL DEF HistorySpec, ImplementsWindow, Window!WindowSpec
=============================================================================
