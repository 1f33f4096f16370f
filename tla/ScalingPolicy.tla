---------------------------- MODULE ScalingPolicy ----------------------------
(***************************************************************************)
(* The arithmetic of ControllerASG (internal/controller/asg.go): how many  *)
(* instances a cluster load calls for, when a scaling condition holds, how *)
(* the two streaks advance, and how many instances a scale-down may take.  *)
(*                                                                         *)
(* Loads are whole percents: the cpu_load of one instance is in 0..100 and *)
(* the load of the cluster is the sum over the counted instances.  The     *)
(* code's float32 average is compared with a threshold; here both sides    *)
(* are multiplied by the number of instances.                              *)
(***************************************************************************)
EXTENDS Integers

CONSTANTS
    MinInstances,        \* cfg.MinInstances
    MaxInstances,        \* cfg.MaxInstances
    ScaleUpThreshold,    \* percent
    ScaleDownThreshold,  \* percent
    EvaluationWindow     \* evaluations in a row before the controller acts

\* config.Validate wants MinInstances >= 2 and MaxInstances >= MinInstances;
\* nothing below needs more than one instance.  (AUTOSCALER_* variables are
\* applied after Validate and may break this; that is not modelled here.)
ASSUME LimitsAssumption ==
    /\ MinInstances \in Nat \ {0}
    /\ MaxInstances \in Nat
    /\ MinInstances <= MaxInstances

\* Validate and NewASGController replace values that are not positive.  No
\* order of the two thresholds is enforced, so none is assumed.
ASSUME ThresholdAssumption ==
    /\ ScaleUpThreshold \in Nat \ {0}
    /\ ScaleDownThreshold \in Nat \ {0}
    /\ EvaluationWindow \in Nat \ {0}

\* The load every instance should carry after a scaling action (HU-26).
TargetLoad == 50

\* Mutant: the division truncates.
TruncatingDiv(a, b) == a \div b

CeilDiv(a, b) == (a + b - 1) \div b

Clamp(low, high, x) == IF x < low THEN low ELSE IF x > high THEN high ELSE x

\* The number of instances that brings `total` down to TargetLoad each.
CalculateDesiredCount(total) ==
    IF total <= 0 THEN MinInstances
    ELSE Clamp(MinInstances, MaxInstances, CeilDiv(total, TargetLoad))

\* Mutant: a cluster at its maximum still counts as one to enlarge.
ScaleUpAtMax(total, n) ==
    /\ total >= ScaleUpThreshold * n
    /\ n <= MaxInstances

ScaleUpCond(total, n) ==
    /\ total >= ScaleUpThreshold * n
    /\ n < MaxInstances

ScaleDownCond(total, n) ==
    /\ total <= ScaleDownThreshold * n
    /\ n > MinInstances

\* Where a reading is: past either threshold or inside the band.
Zone(total, n) ==
    CASE ScaleUpCond(total, n)   -> "over"
      [] ScaleDownCond(total, n) -> "under"
      [] OTHER                   -> "inside"

\* Mutants: a reading inside the band does not interrupt the streak; a streak
\* starts over at every evaluation.
UpStreakSurvives(up, total, n) == IF ScaleUpCond(total, n) THEN up + 1 ELSE up
UpStreakRestarts(up, total, n) == IF ScaleUpCond(total, n) THEN 1 ELSE 0
DownStreakRestarts(down, total, n) == IF ScaleDownCond(total, n) THEN 1 ELSE 0

\* Both streaks after one evaluation.  Where both conditions hold (thresholds
\* in the wrong order) the second block of the code has the last word.
NextUpStreak(up, total, n) ==
    IF ScaleUpCond(total, n) /\ ~ScaleDownCond(total, n) THEN up + 1 ELSE 0

NextDownStreak(down, total, n) ==
    IF ~ScaleDownCond(total, n) THEN 0
    ELSE IF ScaleUpCond(total, n) THEN 1 ELSE down + 1

\* toAdd of a scale-up; a scale-up that adds nothing launches nothing.
Additions(total, n) == CalculateDesiredCount(total) - n

\* toRemove of a scale-down, after the clamp in scaleDown.
Removals(total, n) ==
    LET toRemove     == n - CalculateDesiredCount(total)
        maxRemovable == n - MinInstances
    IN  IF toRemove > maxRemovable THEN maxRemovable ELSE toRemove

\* A full window of the condition that holds now.  `up` and `down` are the
\* streaks before the evaluation; a full up window is looked at first.
UpWindowFull(up, total, n) ==
    /\ NextUpStreak(up, total, n) >= EvaluationWindow
    /\ ScaleUpCond(total, n)

DownWindowFull(up, down, total, n) ==
    /\ ~UpWindowFull(up, total, n)
    /\ NextDownStreak(down, total, n) >= EvaluationWindow
    /\ ScaleDownCond(total, n)

WindowFull(up, down, total, n) ==
    UpWindowFull(up, total, n) \/ DownWindowFull(up, down, total, n)

\* Mutant: acting leaves the streaks as they are.
StreaksKept(up, down, total, n) ==
    [up |-> NextUpStreak(up, total, n), down |-> NextDownStreak(down, total, n)]

\* Either full window clears both streaks, also when nothing changes.
StreaksAfter(up, down, total, n) ==
    IF WindowFull(up, down, total, n) THEN [up |-> 0, down |-> 0]
    ELSE [up   |-> NextUpStreak(up, total, n),
          down |-> NextDownStreak(down, total, n)]

-----------------------------------------------------------------------------
\* What the policy promises, as predicates of a total load and a count.

\* CalculateDesiredCount (asg.go:257-259) picks the smallest cluster within the
\* limits that carries the load at TargetLoad each, and the largest allowed
\* cluster when none does.
DesiredIsLeastSufficient(total) ==
    LET d == CalculateDesiredCount(total)
        Sufficient(k) == k * TargetLoad >= total
    IN  /\ d \in MinInstances..MaxInstances
        /\ Sufficient(d) \/ d = MaxInstances
        /\ \A k \in MinInstances..MaxInstances : Sufficient(k) => d <= k

\* HU-26, README "Ventana de Evaluacion y Cooldown": an action may not set up
\* its own opposite.  The load spread over the new count meets neither the
\* condition that would undo a scale-up nor the one that would undo a
\* scale-down.
NoThrashing(total, n) ==
    /\ ScaleUpCond(total, n) =>
           ~ScaleDownCond(total, CalculateDesiredCount(total))
    /\ ScaleDownCond(total, n) =>
           ~ScaleUpCond(total, CalculateDesiredCount(total))

\* HU-26, asg.go:234-254: whenever the conditions hold, there is something to
\* add or to remove, so a full window never ends in a streak reset alone.
ConditionsCallForChange(total, n) ==
    /\ ScaleUpCond(total, n) => Additions(total, n) > 0
    /\ ScaleDownCond(total, n) => Removals(total, n) > 0
=============================================================================
