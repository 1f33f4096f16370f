----------------------------- MODULE Autoscaler -----------------------------
(***************************************************************************)
(* MonitorS as a whole (cmd/monitors/main.go): the reconcile loop          *)
(* (ASGController) and the polls with their dead-instance handlers         *)
(* (PollScheduler) run in different goroutines of one process and share    *)
(* the registry and EC2.  Nothing orders their calls, and each launches    *)
(* and terminates instances without asking the other.                      *)
(***************************************************************************)
EXTENDS PollScheduler

CONSTANTS
    LaunchTag, DefaultTag, None,
    ScaleUpThreshold, ScaleDownThreshold, EvaluationWindow

VARIABLES
    pc, awsSeen, local, active, totalLoad, toLaunch, victims, current,
    upStreak, downStreak, cooling,
    newcomers      \* history: running instances launched between a pass' two reads

loopVars ==
    <<pc, awsSeen, local, active, totalLoad, toLaunch, victims, current,
      upStreak, downStreak, cooling>>

allVars == <<vars, loopVars, newcomers>>

Loop == INSTANCE ASGController WITH Rows <- PollRow

\* What the loop asks of its constants (see ScalingPolicy and ASGController).
ASSUME LoopAssumption ==
    /\ MinInstances <= MaxInstances
    /\ ScaleUpThreshold \in Nat \ {0}
    /\ ScaleDownThreshold \in Nat \ {0}
    /\ EvaluationWindow \in Nat \ {0}
    /\ Loads \subseteq Nat
    /\ None \notin AllIds

-----------------------------------------------------------------------------
\* A fleet that runs and is registered when MonitorS starts.
AutoscalerInit == PollInit /\ Loop!LoopInit /\ newcomers = {}

\* The reads are the one of EC2 and the one of the registry (asg.go:133-140).
NotesNewcomers ==
    newcomers' = CASE pc' = "list"     -> (newcomers \cup (aws' \ aws)) \cap aws'
                   [] pc' = "classify" -> newcomers \cap DOMAIN local' \cap aws'
                   [] OTHER            -> {}

\* A step of the reconcile loop.  An instance it launches is new to the polls.
LoopStep(A) ==
    /\ UNCHANGED polls
    /\ A
    /\ (aws' \ aws) \cap DOMAIN polls = {}
    /\ NotesNewcomers

\* A step of the polls.  An instance they launch is new to the loop.
PollStep(A) ==
    /\ UNCHANGED loopVars
    /\ A
    /\ \A i \in aws' \ aws : Loop!Fresh(i)
    /\ NotesNewcomers

AgentComes(i) == AgentRegisters(i) /\ UNCHANGED <<loopVars, newcomers>>

AgentGoes(i) == AgentStops(i) /\ UNCHANGED <<loopVars, newcomers>>

InstanceGoes(i) == InstanceLost(i) /\ UNCHANGED loopVars /\ NotesNewcomers

\* Mutant: the registry is the one in memory and goes down with the process.
RestartLosesRows ==
    /\ Loop!EndPass
    /\ upStreak' = 0 /\ downStreak' = 0 /\ cooling' = FALSE
    /\ polls' = NoRows
    /\ registry' = NoRows
    /\ newcomers' = {}
    /\ UNCHANGED <<aws, draining>>

\* One process: the goroutines go down and come up together.
ProcessRestarts == Loop!Restart /\ SchedulerRestarts /\ NotesNewcomers

AutoscalerNext ==
    \/ LoopStep(Loop!Reconcile)
    \/ LoopStep(Loop!CooldownElapses)
    \/ PollStep(Scheduler)
    \/ \E i \in Ids : AgentComes(i) \/ AgentGoes(i) \/ InstanceGoes(i)
    \/ ProcessRestarts

AutoscalerSpec == AutoscalerInit /\ [][AutoscalerNext]_allVars

\* The tickers tick, every call returns, and the goroutines of a round take
\* finitely many steps.  The loop never cools down and works at the same time.
AutoscalerFairness ==
    /\ WF_allVars(LoopStep(Loop!Reconcile \/ Loop!CooldownElapses))
    /\ WF_allVars(PollStep(Scheduler))

FairAutoscalerSpec == AutoscalerSpec /\ AutoscalerFairness

-----------------------------------------------------------------------------
\* HU-22 (asg.go:133-161): the loop takes the row of a running instance for a
\* ghost in one case only: a dead-instance handler launched the instance after
\* the pass had read EC2, and it registered before the pass read the registry.
LiveRowsStay == [][\A i \in aws : Loop!RemoveGhost(i) => i \in newcomers]_allVars

\* The whole contract between the two: to the loop, the polls, their handlers
\* and the agents are the environment it was written for, and a pass or a
\* restart is one of its own (asg.go:101-352 with monitor.go:240-384).
ImplementsLoop == Loop!SharedSpec

\* HU-08 (asg.go:327): a scale-down leaves MinInstances of the instances it saw,
\* also when dead-instance handlers launch and terminate meanwhile.
ScaleDownKeepsMinimum == Loop!ScaleDownLeavesMin

\* What may go wrong: somebody stops or restarts a process, an instance is lost,
\* an agent that answers is not reached, EC2 or the registry refuses a call.
CallFails ==
    \/ Loop!ListFails
    \/ Loop!LaunchFails /\ UNCHANGED aws
    \/ Loop!TerminateFails
    \/ \E i \in AllIds :
          \/ i \in DOMAIN registry' /\ (Loop!RemoveGhost(i) \/ DeleteDead(i))
          \/ i \in aws' /\ TerminateDead(i)
          \/ UNCHANGED aws /\ CreateReplacement(i)
          \/ WriteBack(i) /\ ~Upsert(i, polls[i].row)
          \/ Answers(i) /\ PollFails(i)

\* A restart, unless it looks like the end of a pass.
Interrupted == ProcessRestarts /\ ~Loop!Decide

Disturbance ==
    \/ Interrupted
    \/ CallFails
    \/ \E i \in Ids : AgentGoes(i) \/ InstanceGoes(i)

\* The instances that serve as far as MonitorS knows.
Serving == (aws \ draining) \cap ActiveRows

\* A running instance without a row, or one that was told to shut down, keeps
\* the loop waiting.
Withheld == \E i \in aws : i \notin DOMAIN registry \/ i \in draining

\* HU-12 (asg.go:180-205, 455-482): whatever went wrong before, and whatever the
\* loop's scale-down and the dead-instance handlers did to each other, once
\* nothing goes wrong any more MinInstances serve again for good, unless a
\* running instance stays unregistered.
RestoresMinimum ==
    <>[][~Disturbance]_allVars
        => <>[](Cardinality(Serving) >= MinInstances) \/ <>[]Withheld
=============================================================================
