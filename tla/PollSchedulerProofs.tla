------------------------- MODULE PollSchedulerProofs -------------------------
(***************************************************************************)
(* The bookkeeping of failed polls for any instances and any number of     *)
(* concurrent polls.                                                       *)
(***************************************************************************)
EXTENDS PollSchedulerHistory, FleetProofs, FiniteSetTheorems

\* What a poll holds in its hands between its steps.
PollsConsistent ==
    /\ DOMAIN polls \subseteq AllIds
    /\ \A i \in DOMAIN polls :
          polls[i].step \in {"dial", "write"} => Consistent(polls[i].row)

Bookkeeping == PollTypeOK /\ PollsConsistent

LEMMA RegisteredConsistent == Consistent(RegisteredRow)
BY PollAssumption DEF Consistent, RegisteredRow, PollRow

\* A row field by field.
LEMMA RowFields ==
    ASSUME NEW row \in PollRow, NEW x \in BOOLEAN, NEW f \in 0..MaxFailures
    PROVE  /\ [row EXCEPT !.failures = f, !.excluded = x] \in PollRow
           /\ [row EXCEPT !.failures = f, !.excluded = x].failures = f
           /\ [row EXCEPT !.failures = f, !.excluded = x].excluded = x
BY DEF PollRow

LEMMA LoadedRowFields ==
    ASSUME NEW row \in PollRow, NEW x \in BOOLEAN, NEW f \in 0..MaxFailures,
           NEW l \in Loads
    PROVE  /\ [row EXCEPT !.load = l, !.failures = f, !.excluded = x] \in PollRow
           /\ [row EXCEPT !.load = l, !.failures = f, !.excluded = x].failures = f
           /\ [row EXCEPT !.load = l, !.failures = f, !.excluded = x].excluded = x
BY DEF PollRow

LEMMA OkFields ==
    ASSUME NEW row \in PollRow, NEW load \in Loads
    PROVE  /\ PolledOk(row, load) \in PollRow
           /\ PolledOk(row, load).failures = 0
           /\ PolledOk(row, load).excluded = FALSE
<1>1. 0 \in 0..MaxFailures /\ FALSE \in BOOLEAN
  BY PollAssumption
<1> QED
  BY <1>1, LoadedRowFields, Zenon DEF PolledOk

LEMMA OkConsistent ==
    ASSUME NEW row, Consistent(row), NEW load \in Loads
    PROVE  Consistent(PolledOk(row, load)) /\ PolledOk(row, load).failures = 0
<1>1. row \in PollRow
  BY DEF Consistent
<1>2. ~(0 > 0) /\ 0 < MaxFailures
  BY PollAssumption
<1> QED
  BY <1>1, <1>2, OkFields, Zenon DEF Consistent

LEMMA BadFields ==
    ASSUME NEW row, Consistent(row)
    PROVE  /\ PolledBad(row) \in PollRow
           /\ PolledBad(row).failures = row.failures + 1
           /\ PolledBad(row).excluded = TRUE
<1>1. row.failures + 1 \in 0..MaxFailures /\ row \in PollRow
  BY PollAssumption DEF Consistent, PollRow
<1>2. TRUE \in BOOLEAN
  OBVIOUS
<1> QED
  BY <1>1, <1>2, RowFields, Zenon DEF PolledBad

LEMMA BadConsistent ==
    ASSUME NEW row, Consistent(row)
    PROVE  /\ DeclaredDead(PolledBad(row)) <=> row.failures + 1 = MaxFailures
           /\ ~DeclaredDead(PolledBad(row)) => Consistent(PolledBad(row))
<1>1. row.failures \in Nat /\ row.failures < MaxFailures /\ MaxFailures \in Nat
  BY PollAssumption DEF Consistent, PollRow
<1>2. PolledBad(row) \in PollRow /\ PolledBad(row).excluded = TRUE
  BY BadFields, Zenon
<1>3. PolledBad(row).failures = row.failures + 1
  BY BadFields, Zenon
<1>4. PolledBad(row).failures > 0
  BY <1>1, <1>3
<1>5. /\ DeclaredDead(PolledBad(row)) <=> row.failures + 1 = MaxFailures
      /\ ~DeclaredDead(PolledBad(row)) => PolledBad(row).failures < MaxFailures
  BY <1>1, <1>3 DEF DeclaredDead
<1> QED
  BY <1>2, <1>4, <1>5, Zenon DEF Consistent

-----------------------------------------------------------------------------
\* The polls after a step of one goroutine.
LEMMA ReplacedPoll ==
    ASSUME NEW i \in DOMAIN polls,
           polls \in [DOMAIN polls -> [step : Steps, row : PollRow]],
           NEW step \in Steps, NEW row \in PollRow,
           NEW p, p = [polls EXCEPT ![i] = [step |-> step, row |-> row]]
    PROVE  /\ DOMAIN p = DOMAIN polls
           /\ p \in [DOMAIN polls -> [step : Steps, row : PollRow]]
           /\ p[i].step = step /\ p[i].row = row
           /\ \A j \in DOMAIN polls \ {i} : p[j] = polls[j]
OBVIOUS

LEMMA GotoStep ==
    ASSUME NEW i \in DOMAIN polls,
           polls \in [DOMAIN polls -> [step : Steps, row : PollRow]],
           NEW step \in Steps, Goto(i, step)
    PROVE  /\ DOMAIN polls' = DOMAIN polls
           /\ polls' \in [DOMAIN polls -> [step : Steps, row : PollRow]]
           /\ polls'[i].step = step
           /\ \A j \in DOMAIN polls \ {i} : polls'[j] = polls[j]
BY DEF Goto

LEMMA DoneStep ==
    ASSUME NEW i \in DOMAIN polls,
           polls \in [DOMAIN polls -> [step : Steps, row : PollRow]], Done(i)
    PROVE  /\ DOMAIN polls' = DOMAIN polls \ {i}
           /\ polls' \in [DOMAIN polls' -> [step : Steps, row : PollRow]]
           /\ \A j \in DOMAIN polls \ {i} : polls'[j] = polls[j]
BY DEF Done, Without, Restrict

-----------------------------------------------------------------------------
\* The invariant in three parts, each with the ways a step changes it.
FleetPart ==
    /\ aws \subseteq Ids
    /\ draining \subseteq aws

RegistryPart ==
    /\ DOMAIN registry \subseteq AllIds
    /\ registry \in [DOMAIN registry -> Rows]
    /\ \A i \in DOMAIN registry : Consistent(registry[i])

PollsPart ==
    /\ polls \in [DOMAIN polls -> [step : Steps, row : PollRow]]
    /\ PollsConsistent

LEMMA Parts == Bookkeeping <=> FleetPart /\ RegistryPart /\ PollsPart
BY DEF Bookkeeping, PollTypeOK, FleetTypeOK, FleetPart, RegistryPart, PollsPart

LEMMA UpsertKeeps ==
    ASSUME RegistryPart, NEW i \in AllIds, NEW row, Consistent(row), Upsert(i, row)
    PROVE  RegistryPart'
<1>1. row \in Rows
  BY PollRowAssumption DEF Consistent
<1>2. /\ DOMAIN Put(registry, i, row) = DOMAIN registry \cup {i}
      /\ DOMAIN Put(registry, i, row) \subseteq AllIds
      /\ Put(registry, i, row) \in [DOMAIN Put(registry, i, row) -> Rows]
  BY <1>1, PutType DEF RegistryPart
<1>3. \A j \in DOMAIN registry \cup {i} :
          Put(registry, i, row)[j] = IF j = i THEN row ELSE registry[j]
  BY DEF Put
<1> QED
  BY <1>2, <1>3 DEF RegistryPart, Upsert

LEMMA DeleteKeeps ==
    ASSUME RegistryPart, NEW i, DeleteOrNot(i)
    PROVE  RegistryPart' /\ \A j \in DOMAIN registry' : j \in DOMAIN registry
                                                    /\ registry'[j] = registry[j]
<1>1. CASE registry' = registry
  BY <1>1 DEF RegistryPart
<1>2. CASE registry' = Without(registry, i)
  <2>1. /\ DOMAIN Without(registry, i) = DOMAIN registry \ {i}
        /\ DOMAIN Without(registry, i) \subseteq AllIds
        /\ Without(registry, i) \in [DOMAIN Without(registry, i) -> Rows]
    BY WithoutType, Zenon DEF RegistryPart
  <2>2. \A j \in DOMAIN registry \ {i} : Without(registry, i)[j] = registry[j]
    BY DEF Without, Restrict
  <2> QED
    BY <1>2, <2>1, <2>2 DEF RegistryPart
<1> QED
  BY <1>1, <1>2 DEF DeleteOrNot, Delete

LEMMA PollKeeps ==
    ASSUME PollsPart, NEW i \in DOMAIN polls, NEW step \in Steps,
           NEW row \in PollRow, step \in {"dial", "write"} => Consistent(row),
           polls' = [polls EXCEPT ![i] = [step |-> step, row |-> row]]
    PROVE  PollsPart'
BY ReplacedPoll DEF PollsPart, PollsConsistent

LEMMA GotoKeeps ==
    ASSUME PollsPart, NEW i \in DOMAIN polls, NEW step \in Steps \ {"dial", "write"},
           Goto(i, step)
    PROVE  PollsPart'
BY GotoStep DEF PollsPart, PollsConsistent

LEMMA DoneKeeps ==
    ASSUME PollsPart, NEW i \in DOMAIN polls, Done(i)
    PROVE  PollsPart'
BY DoneStep DEF PollsPart, PollsConsistent

LEMMA GoneKeeps ==
    ASSUME aws \subseteq Ids, draining \subseteq aws, NEW i, Gone(i)
    PROVE  aws' \subseteq Ids /\ draining' \subseteq aws' /\ aws' = aws \ {i}
BY DEF Gone

LEMMA StepBookkeeping == Bookkeeping /\ [PollNext]_vars => Bookkeeping'
<1> SUFFICES ASSUME Bookkeeping, [PollNext]_vars
             PROVE  FleetPart' /\ RegistryPart' /\ PollsPart'
  BY Parts, PTL
<1>0. FleetPart /\ RegistryPart /\ PollsPart
  BY Parts
<1> USE <1>0
<1>1. ASSUME UNCHANGED <<aws, draining>> PROVE FleetPart'
  BY <1>1 DEF FleetPart
<1>2. ASSUME UNCHANGED registry PROVE RegistryPart'
  BY <1>2 DEF RegistryPart
<1>3. ASSUME UNCHANGED polls PROVE PollsPart'
  BY <1>3 DEF PollsPart, PollsConsistent
<1>4. CASE StartRound
  <2>1. PollsPart'
    <3>1. /\ DOMAIN polls' = ActiveRows /\ ActiveRows \subseteq DOMAIN registry
          /\ \A i \in ActiveRows : polls'[i] = [step |-> "dial", row |-> registry[i]]
      BY <1>4 DEF StartRound, ActiveRows
    <3>2. \A i \in ActiveRows : Consistent(registry[i]) /\ registry[i] \in PollRow
      BY <3>1 DEF RegistryPart, Consistent
    <3>3. polls' \in [DOMAIN polls' -> [step : Steps, row : PollRow]]
      BY <1>4, <3>1, <3>2 DEF StartRound, Steps
    <3> QED
      BY <3>1, <3>2, <3>3 DEF PollsPart, PollsConsistent, RegistryPart
  <2> QED
    BY <1>1, <1>2, <1>4, <2>1 DEF StartRound, fleet
<1>5. ASSUME NEW i \in AllIds, NEW load \in Loads, PollOk(i, load)
      PROVE  FleetPart' /\ RegistryPart' /\ PollsPart'
  <2>1. i \in DOMAIN polls /\ Consistent(polls[i].row)
    BY <1>5 DEF PollOk, At, PollsPart, PollsConsistent
  <2>2. Consistent(PolledOk(polls[i].row, load))
    BY <2>1, OkConsistent
  <2>3. PolledOk(polls[i].row, load) \in PollRow /\ "write" \in Steps
    BY <2>2 DEF Consistent, Steps
  <2>4. PollsPart'
    BY <1>5, <2>1, <2>2, <2>3, PollKeeps DEF PollOk
  <2> QED
    BY <1>1, <1>2, <1>5, <2>4 DEF PollOk, fleet
<1>6. ASSUME NEW i \in AllIds, PollFails(i)
      PROVE  FleetPart' /\ RegistryPart' /\ PollsPart'
  <2> DEFINE row == PolledBad(polls[i].row)
             step == IF DeclaredDead(row) THEN "terminate" ELSE "write"
  <2>1. i \in DOMAIN polls /\ Consistent(polls[i].row)
    BY <1>6 DEF PollFails, At, PollsPart, PollsConsistent
  <2>2. row \in PollRow /\ (~DeclaredDead(row) => Consistent(row))
    BY <2>1, BadFields, BadConsistent
  <2>3. polls' = [polls EXCEPT ![i] = [step |-> step, row |-> row]]
    BY <1>6 DEF PollFails
  <2> HIDE DEF row
  <2>4. step \in Steps /\ (step \in {"dial", "write"} => Consistent(row))
    BY <2>2 DEF Steps
  <2>5. PollsPart'
    BY <2>1, <2>2, <2>3, <2>4, PollKeeps
  <2> QED
    BY <1>1, <1>2, <1>6, <2>5 DEF PollFails, fleet
<1>7. ASSUME NEW i \in AllIds, WriteBack(i)
      PROVE  FleetPart' /\ RegistryPart' /\ PollsPart'
  <2>1. i \in DOMAIN polls /\ Consistent(polls[i].row)
    BY <1>7 DEF WriteBack, At, PollsPart, PollsConsistent
  <2>2. RegistryPart'
    BY <1>2, <1>7, <2>1, UpsertKeeps DEF WriteBack
  <2> QED
    BY <1>1, <1>7, <2>1, <2>2, DoneKeeps DEF WriteBack
<1>8. ASSUME NEW i \in AllIds, TerminateDead(i)
      PROVE  FleetPart' /\ RegistryPart' /\ PollsPart'
  <2>1. aws' \subseteq Ids /\ draining' \subseteq aws'
    BY <1>8, GoneKeeps DEF TerminateDead, AskToShutDown, FleetPart
  <2>2. FleetPart'
    BY <1>8, <2>1 DEF TerminateDead, FleetPart
  <2>3. i \in DOMAIN polls /\ "delete" \in Steps \ {"dial", "write"}
    BY <1>8 DEF TerminateDead, At, Steps
  <2> QED
    BY <1>2, <1>8, <2>2, <2>3, GotoKeeps DEF TerminateDead
<1>9. ASSUME NEW i \in AllIds, DeleteDead(i)
      PROVE  FleetPart' /\ RegistryPart' /\ PollsPart'
  <2>1. RegistryPart'
    BY <1>9, DeleteKeeps DEF DeleteDead, DeleteOrNot
  <2>2. i \in DOMAIN polls /\ "count" \in Steps \ {"dial", "write"}
    BY <1>9 DEF DeleteDead, At, Steps
  <2> QED
    BY <1>1, <1>9, <2>1, <2>2, GotoKeeps DEF DeleteDead
<1>10. ASSUME NEW i \in AllIds, CountActive(i)
       PROVE  FleetPart' /\ RegistryPart' /\ PollsPart'
  <2>1. i \in DOMAIN polls /\ "create" \in Steps \ {"dial", "write"}
    BY <1>10 DEF CountActive, At, Steps
  <2>2. PollsPart'
    BY <1>10, <2>1, GotoKeeps, DoneKeeps DEF CountActive
  <2> QED
    BY <1>1, <1>2, <1>10, <2>2 DEF CountActive, fleet
<1>11. ASSUME NEW i \in AllIds, CreateReplacement(i)
       PROVE  FleetPart' /\ RegistryPart' /\ PollsPart'
  <2>1. i \in DOMAIN polls
    BY <1>11 DEF CreateReplacement, At
  <2>2. aws' \subseteq Ids /\ aws \subseteq aws'
    BY <1>11 DEF CreateReplacement, Unused, FleetPart
  <2>3. FleetPart'
    BY <1>11, <2>2 DEF CreateReplacement, FleetPart
  <2> QED
    BY <1>2, <1>11, <2>1, <2>3, DoneKeeps DEF CreateReplacement
<1>12. ASSUME NEW i \in Ids, AgentRegisters(i)
       PROVE  FleetPart' /\ RegistryPart' /\ PollsPart'
  <2>1. RegistryPart'
    BY <1>12, UpsertKeeps, RegisteredConsistent DEF AgentRegisters, AllIds
  <2> QED
    BY <1>3, <1>12, <2>1 DEF AgentRegisters, FleetPart
<1>13. ASSUME NEW i \in Ids, AgentStops(i)
       PROVE  FleetPart' /\ RegistryPart' /\ PollsPart'
  BY <1>3, <1>13, DeleteKeeps DEF AgentStops, FleetPart
<1>14. ASSUME NEW i \in Ids, InstanceLost(i)
       PROVE  FleetPart' /\ RegistryPart' /\ PollsPart'
  <2>1. aws' \subseteq Ids /\ draining' \subseteq aws' /\ aws' = aws \ {i}
    BY <1>14, GoneKeeps DEF InstanceLost, FleetPart
  <2> QED
    BY <1>2, <1>3, <1>14, <2>1 DEF InstanceLost, FleetPart
<1>15. CASE SchedulerRestarts
  <2>1. PollsPart'
    BY <1>15, NoRowsType DEF SchedulerRestarts, PollsPart, PollsConsistent
  <2> QED
    BY <1>1, <1>2, <1>15, <2>1 DEF SchedulerRestarts, fleet
<1>16. CASE UNCHANGED vars
  BY <1>1, <1>2, <1>3, <1>16 DEF vars, fleet
<1> QED
  BY <1>4, <1>5, <1>6, <1>7, <1>8, <1>9, <1>10, <1>11, <1>12, <1>13, <1>14,
     <1>15, <1>16
     DEF PollNext, Scheduler, World, Poll, HandleDead

LEMMA InitBookkeeping == PollInit => Bookkeeping
<1> SUFFICES ASSUME PollInit PROVE FleetPart /\ RegistryPart /\ PollsPart
  BY Parts
<1>1. FleetPart
  BY PollAssumption DEF PollInit, FleetPart
<1>2. RegistryPart
  <2>1. RegisteredRow \in Rows
    BY RegisteredConsistent, PollRowAssumption DEF Consistent
  <2> QED
    BY <2>1, RegisteredConsistent, PollAssumption DEF PollInit, RegistryPart, AllIds
<1>3. PollsPart
  BY NoRowsType DEF PollInit, PollsPart, PollsConsistent
<1> QED
  BY <1>1, <1>2, <1>3

\* monitor.go:358-376: whatever fails and whenever MonitorS restarts, a stored
\* row is marked exactly when its last poll failed and holds fewer failures
\* than make an instance dead.
THEOREM BookkeepingCorrect == PollSpec => []PollTypeOK
<1>1. Bookkeeping => PollTypeOK
  BY DEF Bookkeeping
<1> QED
  BY InitBookkeeping, StepBookkeeping, <1>1, PTL DEF PollSpec

-----------------------------------------------------------------------------
(***************************************************************************)
(* A failure counted anywhere was a failure since the last success.  Only  *)
(* while a poll has yet to write its result may the stored row say more.   *)
(***************************************************************************)
MissedType == missed \in [AllIds -> 0..MaxFailures]

Tally ==
    /\ \A i \in DOMAIN polls :
          /\ polls[i].step \in {"dial", "write"} => polls[i].row.failures <= missed[i]
          /\ polls[i].step = "terminate" => missed[i] >= MaxFailures
    /\ \A i \in DOMAIN registry :
          ~At("write", i) => registry[i].failures <= missed[i]

TallyInv == Bookkeeping /\ MissedType /\ Tally

LEMMA FailuresType ==
    ASSUME NEW row, Consistent(row)
    PROVE  row.failures \in Nat /\ row.failures < MaxFailures
BY PollAssumption DEF Consistent, PollRow

\* The history follows the scheduler and adds nothing to it.
LEMMA HistoryStep == [HistoryNext]_historyVars => [Scheduler \/ World]_vars
BY DEF HistoryNext, historyVars, PollRecorded, Scheduler, Poll

LEMMA NoPollKeeps ==
    ASSUME MissedType, NoPoll
    PROVE  /\ MissedType'
           /\ \A j \in AllIds : j \notin aws' \ aws => missed'[j] = missed[j]
BY PollAssumption DEF NoPoll, MissedType

LEMMA StepTally ==
    ASSUME ~RegistryMayFail, TallyInv, [HistoryNext]_historyVars
    PROVE  TallyInv'
<1>1. Bookkeeping'
  BY HistoryStep, StepBookkeeping DEF TallyInv, PollNext
<1>0. FleetPart /\ RegistryPart /\ PollsPart /\ MissedType /\ Tally
  BY Parts DEF TallyInv
<1> SUFFICES MissedType' /\ Tally'
  BY <1>1 DEF TallyInv
<1> USE <1>0
<1>2. MaxFailures \in Nat \ {0} /\ \A j \in AllIds : missed[j] \in 0..MaxFailures
  BY PollAssumption DEF MissedType
<1>3. /\ \A j \in DOMAIN registry : j \in AllIds /\ registry[j].failures \in Nat
      /\ \A j \in DOMAIN polls : j \in AllIds
      /\ \A j \in DOMAIN polls :
            polls[j].step \in {"dial", "write"} => polls[j].row.failures \in Nat
  BY FailuresType DEF RegistryPart, PollsPart, PollsConsistent
<1>4. ASSUME NoPoll, \A j \in aws' \ aws : j \notin DOMAIN registry \cup DOMAIN polls
      PROVE  /\ MissedType'
             /\ \A j \in DOMAIN registry \cup DOMAIN polls : missed'[j] = missed[j]
  BY <1>3, <1>4, NoPollKeeps
<1>14. ASSUME StartRound, NoPoll PROVE MissedType' /\ Tally'
  <2>1. /\ DOMAIN polls' = ActiveRows /\ ActiveRows \subseteq DOMAIN registry
        /\ \A j \in ActiveRows : polls'[j] = [step |-> "dial", row |-> registry[j]]
    BY <1>14 DEF StartRound, ActiveRows
  <2>2. \A j \in DOMAIN registry : registry[j].failures <= missed[j]
    BY <1>14, NoRowsType DEF StartRound, Tally, At
  <2>3. MissedType' /\ \A j \in DOMAIN registry : missed'[j] = missed[j]
    BY <1>4, <1>14 DEF StartRound, fleet
  <2> QED
    BY <1>14, <2>1, <2>2, <2>3 DEF StartRound, Tally, fleet
\* One goroutine moves on, the registry and the counts of failures stay.
<1>5. ASSUME NEW i \in DOMAIN polls, NEW p, polls' = p,
             i \in DOMAIN p => p[i].step \notin {"dial", "write", "terminate"},
             ~At("write", i),
             \A j \in DOMAIN p : j \in DOMAIN polls /\ (j # i => p[j] = polls[j]),
             \A j \in DOMAIN polls \ {i} : j \in DOMAIN p,
             \A j \in DOMAIN registry' : j \in DOMAIN registry
                                         /\ registry'[j] = registry[j],
             \A j \in DOMAIN registry \cup DOMAIN polls : missed'[j] = missed[j]
      PROVE  Tally'
  BY <1>5 DEF Tally, At
<1>6. ASSUME NEW i \in AllIds, NEW load \in Loads, PollOk(i, load),
             missed' = [missed EXCEPT ![i] = 0]
      PROVE  MissedType' /\ Tally'
  <2>1. i \in DOMAIN polls /\ Consistent(polls[i].row)
    BY <1>6 DEF PollOk, At, PollsPart, PollsConsistent
  <2>2. PolledOk(polls[i].row, load) \in PollRow /\ PolledOk(polls[i].row, load).failures = 0
    BY <2>1, OkFields DEF Consistent
  <2>3. /\ DOMAIN polls' = DOMAIN polls
        /\ polls'[i].step = "write" /\ polls'[i].row = PolledOk(polls[i].row, load)
        /\ \A j \in DOMAIN polls \ {i} : polls'[j] = polls[j]
    BY <1>6, <2>1, <2>2, ReplacedPoll DEF PollOk, PollsPart, Steps
  <2>4. /\ missed'[i] = 0 /\ \A j \in AllIds \ {i} : missed'[j] = missed[j]
        /\ MissedType'
    BY <1>2, <1>6 DEF MissedType
  <2> QED
    BY <1>3, <1>6, <2>2, <2>3, <2>4 DEF PollOk, Tally, At, fleet
<1>7. ASSUME NEW i \in AllIds, PollFails(i),
             missed' = [missed EXCEPT ![i] = IF @ < MaxFailures THEN @ + 1 ELSE @]
      PROVE  MissedType' /\ Tally'
  <2> DEFINE row == PolledBad(polls[i].row)
             step == IF DeclaredDead(row) THEN "terminate" ELSE "write"
  <2>1. i \in DOMAIN polls /\ Consistent(polls[i].row) /\ polls[i].step = "dial"
    BY <1>7 DEF PollFails, At, PollsPart, PollsConsistent
  <2>2. /\ row \in PollRow
        /\ row.failures = polls[i].row.failures + 1
        /\ DeclaredDead(row) => polls[i].row.failures + 1 = MaxFailures
    BY <2>1, BadFields, BadConsistent
  <2>3. /\ polls[i].row.failures \in Nat
        /\ polls[i].row.failures < MaxFailures
        /\ polls[i].row.failures <= missed[i]
    BY <2>1, FailuresType DEF Tally
  <2>4. /\ missed'[i] = IF missed[i] < MaxFailures THEN missed[i] + 1 ELSE missed[i]
        /\ \A j \in AllIds \ {i} : missed'[j] = missed[j]
        /\ MissedType'
    BY <1>2, <1>7 DEF MissedType
  <2>5. polls' = [polls EXCEPT ![i] = [step |-> step, row |-> row]]
    BY <1>7 DEF PollFails
  <2> HIDE DEF row
  <2>6. /\ DOMAIN polls' = DOMAIN polls
        /\ polls'[i].step = step /\ polls'[i].row = row
        /\ \A j \in DOMAIN polls \ {i} : polls'[j] = polls[j]
    BY <2>1, <2>2, <2>5, ReplacedPoll DEF PollsPart, Steps
  <2>7. /\ row.failures <= missed'[i] /\ missed[i] <= missed'[i]
        /\ DeclaredDead(row) => missed'[i] >= MaxFailures
    BY <1>2, <2>2, <2>3, <2>4
  <2> QED
    BY <1>2, <1>3, <1>7, <2>1, <2>4, <2>6, <2>7 DEF PollFails, Tally, At, fleet
<1>8. ASSUME NEW i \in AllIds, WriteBack(i), NoPoll
      PROVE  MissedType' /\ Tally'
  <2>1. i \in DOMAIN polls /\ polls[i].step = "write"
    BY <1>8 DEF WriteBack, At
  <2>2. /\ DOMAIN polls' = DOMAIN polls \ {i}
        /\ \A j \in DOMAIN polls \ {i} : polls'[j] = polls[j]
    BY <1>8, <2>1, DoneStep DEF WriteBack, PollsPart
  <2>3. /\ DOMAIN registry' = DOMAIN registry \cup {i}
        /\ registry'[i] = polls[i].row
        /\ \A j \in DOMAIN registry \ {i} : registry'[j] = registry[j]
    BY <1>8 DEF WriteBack, Upsert, Put
  <2>4. /\ MissedType'
        /\ \A j \in DOMAIN registry \cup DOMAIN polls : missed'[j] = missed[j]
    BY <1>4, <1>8 DEF WriteBack
  <2> QED
    BY <1>8, <2>1, <2>2, <2>3, <2>4 DEF WriteBack, Tally, At
<1>9. ASSUME NEW i \in AllIds, TerminateDead(i) \/ DeleteDead(i) \/ CountActive(i),
             NoPoll
      PROVE  MissedType' /\ Tally'
  <2>1. i \in DOMAIN polls /\ ~At("write", i)
    BY <1>9 DEF TerminateDead, DeleteDead, CountActive, At
  <2>2. \A j \in DOMAIN registry' : j \in DOMAIN registry
                                    /\ registry'[j] = registry[j]
    BY <1>9, DeleteKeeps
       DEF TerminateDead, DeleteDead, CountActive, DeleteOrNot, fleet
  <2>3. \/ \E step \in {"delete", "count", "create"} : Goto(i, step)
        \/ Done(i)
    BY <1>9 DEF TerminateDead, DeleteDead, CountActive
  <2>4. /\ i \in DOMAIN polls' => polls'[i].step \in {"delete", "count", "create"}
        /\ \A j \in DOMAIN polls' : j \in DOMAIN polls /\ (j # i => polls'[j] = polls[j])
        /\ \A j \in DOMAIN polls \ {i} : j \in DOMAIN polls'
    BY <2>1, <2>3, GotoStep, DoneStep DEF PollsPart, Steps
  <2>5. /\ MissedType'
        /\ \A j \in DOMAIN registry \cup DOMAIN polls : missed'[j] = missed[j]
    BY <1>4, <1>9 DEF TerminateDead, DeleteDead, CountActive, Gone, fleet
  <2> QED
    BY <1>5, <2>1, <2>2, <2>4, <2>5
<1>10. ASSUME NEW i \in AllIds, CreateReplacement(i), NoPoll
       PROVE  MissedType' /\ Tally'
  <2>1. i \in DOMAIN polls /\ ~At("write", i)
    BY <1>10 DEF CreateReplacement, At
  <2>2. /\ DOMAIN polls' = DOMAIN polls \ {i}
        /\ \A j \in DOMAIN polls \ {i} : polls'[j] = polls[j]
    BY <1>10, <2>1, DoneStep DEF CreateReplacement, PollsPart
  <2>3. /\ MissedType'
        /\ \A j \in DOMAIN registry \cup DOMAIN polls : missed'[j] = missed[j]
    BY <1>4, <1>10 DEF CreateReplacement, Unused
  <2> QED
    BY <1>5, <1>10, <2>1, <2>2, <2>3 DEF CreateReplacement
<1>11. ASSUME NEW i \in Ids, AgentRegisters(i), NoPoll
       PROVE  MissedType' /\ Tally'
  <2>1. /\ DOMAIN registry' = DOMAIN registry \cup {i}
        /\ registry'[i].failures = 0
        /\ \A j \in DOMAIN registry \ {i} : registry'[j] = registry[j]
    BY <1>11 DEF AgentRegisters, Upsert, Put, RegisteredRow
  <2>2. MissedType' /\ \A j \in AllIds : missed'[j] = missed[j]
    BY <1>11, NoPollKeeps DEF AgentRegisters
  <2> QED
    BY <1>2, <1>3, <1>11, <2>1, <2>2 DEF AgentRegisters, Tally, At, AllIds
<1>12. ASSUME NEW i \in Ids, AgentStops(i) \/ InstanceLost(i), NoPoll
       PROVE  MissedType' /\ Tally'
  <2>1. \A j \in DOMAIN registry' : j \in DOMAIN registry
                                    /\ registry'[j] = registry[j]
    BY <1>12, DeleteKeeps DEF AgentStops, InstanceLost
  <2>2. /\ MissedType'
        /\ \A j \in DOMAIN registry \cup DOMAIN polls : missed'[j] = missed[j]
    BY <1>4, <1>12 DEF AgentStops, InstanceLost, Gone
  <2> QED
    BY <1>12, <2>1, <2>2 DEF AgentStops, InstanceLost, Tally, At
<1>13. CASE UNCHANGED historyVars
  BY <1>13 DEF historyVars, vars, fleet, MissedType, Tally, At
<1> QED
  BY <1>6, <1>7, <1>8, <1>9, <1>10, <1>11, <1>12, <1>13, <1>14
     DEF HistoryNext, PollRecorded, World, HandleDead

LEMMA InitTally == HistoryInit => TallyInv
<1> SUFFICES ASSUME HistoryInit PROVE MissedType /\ Tally
  BY InitBookkeeping DEF TallyInv, HistoryInit
<1> QED
  BY NoRowsType, PollAssumption
     DEF HistoryInit, PollInit, MissedType, Tally, RegisteredRow, AllIds

\* monitor.go:229: as long as the registry takes every write and MonitorS is not
\* restarted, an instance is declared dead only after MaxFailures polls that
\* failed with none between them that succeeded.
THEOREM DeadAfterFailuresOnly ==
    ASSUME ~RegistryMayFail
    PROVE  HistorySpec => []DeadAfterConsecutiveFailures
<1>1. TallyInv /\ [HistoryNext]_historyVars => TallyInv'
  BY StepTally
<1>2. TallyInv => DeadAfterConsecutiveFailures
  BY DEF TallyInv, Tally, DeadAfterConsecutiveFailures, At
<1> QED
  BY InitTally, <1>1, <1>2, PTL DEF HistorySpec
-----------------------------------------------------------------------------
(***************************************************************************)
(* Replacing dead instances.  Count every id that runs, has a row or is    *)
(* being polled: a replacement adds one, and only when the id it replaces  *)
(* is none of these any more.  Nothing else adds any.                      *)
(***************************************************************************)
Involved == aws \cup DOMAIN registry \cup DOMAIN polls

\* What HandleDeadInstance has achieved by its later steps.
Handled ==
    \A i \in DOMAIN polls :
        /\ polls[i].step \in {"delete", "count", "create"} => i \notin aws
        /\ polls[i].step \in {"count", "create"} => i \notin DOMAIN registry

FitInv ==
    /\ Bookkeeping
    /\ Handled
    /\ IsFiniteSet(Involved)
    /\ Cardinality(Involved) <= MaxInstances

LEMMA FewerFit ==
    ASSUME NEW S, IsFiniteSet(S), Cardinality(S) <= MaxInstances, NEW T \in SUBSET S
    PROVE  IsFiniteSet(T) /\ Cardinality(T) <= MaxInstances
<1>1. IsFiniteSet(T) /\ Cardinality(T) <= Cardinality(S)
  BY FS_Subset
<1>2. Cardinality(S) \in Nat /\ Cardinality(T) \in Nat
  BY <1>1, FS_CardinalityType
<1> QED
  BY <1>1, <1>2, PollAssumption

\* One id in exchange for another.
LEMMA ExchangeFits ==
    ASSUME NEW S, IsFiniteSet(S), Cardinality(S) <= MaxInstances,
           NEW i \in S, NEW j, j \notin S
    PROVE  LET T == (S \ {i}) \cup {j}
           IN  IsFiniteSet(T) /\ Cardinality(T) <= MaxInstances
<1>1. IsFiniteSet(S \ {i}) /\ Cardinality(S \ {i}) = Cardinality(S) - 1
  BY FS_RemoveElement
<1>2. /\ IsFiniteSet((S \ {i}) \cup {j})
      /\ Cardinality((S \ {i}) \cup {j}) = Cardinality(S \ {i}) + 1
  BY <1>1, FS_AddElement
<1>3. Cardinality(S) \in Nat
  BY FS_CardinalityType
<1> QED
  BY <1>1, <1>2, <1>3

LEMMA StepHandled ==
    ASSUME Bookkeeping, Handled, [PollNext]_vars, ~RegistryMayFail, ~TerminateMayFail
    PROVE  /\ Handled'
           /\ \/ Involved' \subseteq Involved
              \/ \E i \in Involved, j \in Ids \ Involved :
                    Involved' \subseteq (Involved \ {i}) \cup {j}
<1>0. PollsPart
  BY Parts
<1> USE DEF Handled, Involved
<1>1. CASE StartRound
  <2>1. /\ DOMAIN polls' \subseteq DOMAIN registry
        /\ \A i \in DOMAIN polls' : polls'[i].step = "dial"
    BY <1>1 DEF StartRound, ActiveRows
  <2> QED
    BY <1>1, <2>1 DEF StartRound, fleet
<1>2. ASSUME NEW i \in AllIds, NEW load \in Loads, PollOk(i, load)
      PROVE  Handled' /\ Involved' \subseteq Involved
  <2>1. /\ DOMAIN polls' = DOMAIN polls
        /\ \A j \in DOMAIN polls :
              polls'[j].step = IF j = i THEN "write" ELSE polls[j].step
    BY <1>2 DEF PollOk, At
  <2> QED
    BY <1>2, <2>1 DEF PollOk, fleet
<1>3. ASSUME NEW i \in AllIds, PollFails(i)
      PROVE  Handled' /\ Involved' \subseteq Involved
  <2>1. /\ DOMAIN polls' = DOMAIN polls
        /\ \A j \in DOMAIN polls :
              IF j = i THEN polls'[j].step \in {"terminate", "write"}
                       ELSE polls'[j].step = polls[j].step
    BY <1>3 DEF PollFails, At
  <2> QED
    BY <1>3, <2>1 DEF PollFails, fleet
<1>4. ASSUME NEW i \in AllIds, WriteBack(i)
      PROVE  Handled' /\ Involved' \subseteq Involved
  <2>1. i \in DOMAIN polls
    BY <1>4 DEF WriteBack, At
  <2>2. DOMAIN registry' = DOMAIN registry \cup {i}
    BY <1>4 DEF WriteBack, Upsert, Put
  <2>3. /\ DOMAIN polls' = DOMAIN polls \ {i}
        /\ \A j \in DOMAIN polls \ {i} : polls'[j] = polls[j]
    BY <1>0, <1>4, <2>1, DoneStep DEF WriteBack, PollsPart
  <2> QED
    BY <1>4, <2>1, <2>2, <2>3 DEF WriteBack
<1>5. ASSUME NEW i \in AllIds, TerminateDead(i)
      PROVE  Handled' /\ Involved' \subseteq Involved
  <2>1. i \in DOMAIN polls /\ "delete" \in Steps
    BY <1>5 DEF TerminateDead, At, Steps
  <2>2. aws' = aws \ {i}
    BY <1>5 DEF TerminateDead, Gone
  <2>3. /\ DOMAIN polls' = DOMAIN polls
        /\ polls'[i].step = "delete"
        /\ \A j \in DOMAIN polls \ {i} : polls'[j] = polls[j]
    BY <1>0, <1>5, <2>1, GotoStep DEF TerminateDead, PollsPart
  <2> QED
    BY <1>5, <2>1, <2>2, <2>3 DEF TerminateDead
<1>6. ASSUME NEW i \in AllIds, DeleteDead(i)
      PROVE  Handled' /\ Involved' \subseteq Involved
  <2>1. i \in DOMAIN polls /\ polls[i].step = "delete" /\ "count" \in Steps
    BY <1>6 DEF DeleteDead, At, Steps
  <2>2. DOMAIN registry' = DOMAIN registry \ {i}
    BY <1>6 DEF DeleteDead, Delete, Without, Restrict
  <2>3. /\ DOMAIN polls' = DOMAIN polls
        /\ polls'[i].step = "count"
        /\ \A j \in DOMAIN polls \ {i} : polls'[j] = polls[j]
    BY <1>0, <1>6, <2>1, GotoStep DEF DeleteDead, PollsPart
  <2> QED
    BY <1>6, <2>1, <2>2, <2>3 DEF DeleteDead
<1>7. ASSUME NEW i \in AllIds, CountActive(i)
      PROVE  Handled' /\ Involved' \subseteq Involved
  <2>1. i \in DOMAIN polls /\ polls[i].step = "count" /\ "create" \in Steps
    BY <1>7 DEF CountActive, At, Steps
  <2>2. CASE Goto(i, "create")
    <3>1. /\ DOMAIN polls' = DOMAIN polls
          /\ polls'[i].step = "create"
          /\ \A j \in DOMAIN polls \ {i} : polls'[j] = polls[j]
      BY <1>0, <2>1, <2>2, GotoStep DEF PollsPart
    <3> QED
      BY <1>7, <2>1, <3>1 DEF CountActive, fleet
  <2>3. CASE Done(i)
    <3>1. /\ DOMAIN polls' = DOMAIN polls \ {i}
          /\ \A j \in DOMAIN polls \ {i} : polls'[j] = polls[j]
      BY <1>0, <2>1, <2>3, DoneStep DEF PollsPart
    <3> QED
      BY <1>7, <3>1 DEF CountActive, fleet
  <2> QED
    BY <1>7, <2>2, <2>3 DEF CountActive
<1>8. ASSUME NEW i \in AllIds, CreateReplacement(i)
      PROVE  /\ Handled'
             /\ \/ Involved' \subseteq Involved
                \/ \E k \in Involved, j \in Ids \ Involved :
                      Involved' \subseteq (Involved \ {k}) \cup {j}
  <2>1. i \in DOMAIN polls /\ i \notin aws /\ i \notin DOMAIN registry
    BY <1>8 DEF CreateReplacement, At
  <2>2. /\ DOMAIN polls' = DOMAIN polls \ {i}
        /\ \A j \in DOMAIN polls \ {i} : polls'[j] = polls[j]
    BY <1>0, <1>8, <2>1, DoneStep DEF CreateReplacement, PollsPart
  <2>3. CASE UNCHANGED aws
    BY <1>8, <2>2, <2>3 DEF CreateReplacement
  <2>4. ASSUME NEW j \in Ids, Unused(j), aws' = aws \cup {j}
        PROVE  Handled' /\ j \in Ids \ Involved /\ i \in Involved
               /\ Involved' \subseteq (Involved \ {i}) \cup {j}
    BY <1>8, <2>1, <2>2, <2>4 DEF CreateReplacement, Unused
  <2> QED
    BY <1>8, <2>3, <2>4 DEF CreateReplacement
<1>9. ASSUME NEW i \in Ids, AgentRegisters(i)
      PROVE  Handled' /\ Involved' \subseteq Involved
  <2>1. DOMAIN registry' = DOMAIN registry \cup {i} /\ i \in aws
    BY <1>9 DEF AgentRegisters, Upsert, Put
  <2> QED
    BY <1>9, <2>1 DEF AgentRegisters
<1>10. ASSUME NEW i \in Ids, AgentStops(i)
       PROVE  Handled' /\ Involved' \subseteq Involved
  <2>1. DOMAIN registry' \subseteq DOMAIN registry
    BY <1>10 DEF AgentStops, DeleteOrNot, Delete, Without, Restrict
  <2> QED
    BY <1>10, <2>1 DEF AgentStops
<1>11. ASSUME NEW i \in Ids, InstanceLost(i)
       PROVE  Handled' /\ Involved' \subseteq Involved
  BY <1>11 DEF InstanceLost, Gone
<1>12. CASE SchedulerRestarts
  <2>1. DOMAIN polls' = {}
    BY <1>12 DEF SchedulerRestarts, NoRows
  <2> QED
    BY <1>12, <2>1 DEF SchedulerRestarts, fleet
<1>13. CASE UNCHANGED vars
  BY <1>13 DEF vars, fleet
<1> QED
  BY <1>1, <1>2, <1>3, <1>4, <1>5, <1>6, <1>7, <1>8, <1>9, <1>10, <1>11, <1>12,
     <1>13
     DEF PollNext, Scheduler, World, Poll, HandleDead

\* HU-08 with HandleDeadInstance: as long as EC2 terminates what it is asked to
\* and the registry takes every statement, no number of dead instances, handled
\* at once and across restarts, takes the fleet over its maximum.
THEOREM ReplacementsFitMaximum ==
    ASSUME ~RegistryMayFail, ~TerminateMayFail,
           IsFiniteSet(InitialFleet), Cardinality(InitialFleet) <= MaxInstances
    PROVE  PollSpec => []ReplacementsFit
<1>1. PollInit => FitInv
  <2> SUFFICES ASSUME PollInit PROVE FitInv
    OBVIOUS
  <2>1. Involved = InitialFleet /\ Handled
    BY DEF PollInit, Involved, Handled, NoRows
  <2> QED
    BY <2>1, InitBookkeeping DEF FitInv
<1>2. FitInv /\ [PollNext]_vars => FitInv'
  <2> SUFFICES ASSUME FitInv, [PollNext]_vars PROVE FitInv'
    OBVIOUS
  <2>1. Bookkeeping'
    BY StepBookkeeping DEF FitInv
  <2>2. /\ Handled'
        /\ \/ Involved' \subseteq Involved
           \/ \E i \in Involved, j \in Ids \ Involved :
                 Involved' \subseteq (Involved \ {i}) \cup {j}
    BY StepHandled DEF FitInv
  <2>3. IsFiniteSet(Involved') /\ Cardinality(Involved') <= MaxInstances
    <3>1. CASE Involved' \subseteq Involved
      BY <3>1, FewerFit DEF FitInv
    <3>2. ASSUME NEW i \in Involved, NEW j \in Ids \ Involved,
                 Involved' \subseteq (Involved \ {i}) \cup {j}
          PROVE  IsFiniteSet(Involved') /\ Cardinality(Involved') <= MaxInstances
      <4>1. LET T == (Involved \ {i}) \cup {j}
            IN  IsFiniteSet(T) /\ Cardinality(T) <= MaxInstances
        BY ExchangeFits DEF FitInv
      <4> QED
        BY <3>2, <4>1, FewerFit
    <3> QED
      BY <2>2, <3>1, <3>2
  <2> QED
    BY <2>1, <2>2, <2>3 DEF FitInv
<1>3. FitInv => ReplacementsFit
  <2> SUFFICES ASSUME FitInv PROVE ReplacementsFit
    OBVIOUS
  <2>1. aws \in SUBSET Involved
    BY DEF Involved
  <2> QED
    BY <2>1, FewerFit DEF FitInv, ReplacementsFit
<1> QED
  BY <1>1, <1>2, <1>3, PTL DEF PollSpec
=============================================================================
