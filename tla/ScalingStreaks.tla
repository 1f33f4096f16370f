--------------------------- MODULE ScalingStreaks ---------------------------
(***************************************************************************)
(* The two streak counters of reconcile (asg.go:212-254) on their own: one *)
(* step is one evaluation, with any cluster load and any number of counted *)
(* instances.  `zones` is a history variable; through it the counters are  *)
(* shown to implement ScalingWindow.                                       *)
(***************************************************************************)
EXTENDS ScalingPolicy, Sequences

CONSTANTS
    MaxCount,   \* bound: most instances one evaluation counts
    LoadStep    \* bound: granularity of the total loads tried

VARIABLES
    upStreak,    \* c.scaleUpStreak
    downStreak,  \* c.scaleDownStreak
    load, count, \* the last evaluation: totalLoad and activeCount
    action,      \* what that evaluation did
    zones        \* history: zones seen since the last action

ASSUME BoundsAssumption == {MaxCount, LoadStep} \subseteq Nat \ {0}

streakVars == <<upStreak, downStreak, load, count, action, zones>>

Totals(n) == {t \in 0..(100 * n) : t % LoadStep = 0}

Window == INSTANCE ScalingWindow

StreaksInit ==
    /\ upStreak = 0
    /\ downStreak = 0
    /\ load = 0
    /\ count = 1
    /\ action = "hold"
    /\ zones = << >>

Evaluate(total, n) ==
    LET streaks == StreaksAfter(upStreak, downStreak, total, n)
        goUp    == UpWindowFull(upStreak, total, n)
        goDown  == DownWindowFull(upStreak, downStreak, total, n)
    IN  /\ upStreak' = streaks.up
        /\ downStreak' = streaks.down
        /\ load' = total
        /\ count' = n
        /\ action' = CASE goUp /\ Additions(total, n) > 0  -> "up"
                       [] goDown /\ Removals(total, n) > 0 -> "down"
                       [] OTHER                            -> "hold"
        /\ zones' = Window!Remember(IF action = "hold" THEN zones ELSE << >>,
                                    Zone(total, n))

\* MonitorS restarts: NewASGController starts both streaks at zero.
Restart ==
    /\ upStreak' = 0
    /\ downStreak' = 0
    /\ action' = "hold"
    /\ zones' = << >>
    /\ UNCHANGED <<load, count>>

StreaksNext ==
    \/ \E n \in 1..MaxCount : \E total \in Totals(n) : Evaluate(total, n)
    \/ Restart

StreaksSpec == StreaksInit /\ [][StreaksNext]_streakVars

-----------------------------------------------------------------------------
\* Types; a full window never survives the evaluation that filled it, and the
\* two streaks never run at the same time (asg.go:215-254).
StreaksTypeOK ==
    /\ upStreak \in 0..(EvaluationWindow - 1)
    /\ downStreak \in 0..(EvaluationWindow - 1)
    /\ upStreak = 0 \/ downStreak = 0
    /\ load \in Nat
    /\ count \in 1..MaxCount
    /\ action \in {"hold", "up", "down"}

\* HU-26 (asg.go:215-254): the counters implement the evaluation window; the
\* size of the cluster changes exactly when a whole window of consecutive
\* evaluations asked for it in the same direction.
ImplementsWindow == Window!WindowSpec

\* CalculateDesiredCount against its reference definition (asg.go:257-272).
DesiredMeetsReference == DesiredIsLeastSufficient(load)

\* HU-26: the new size is never in the zone of the opposite action.
ActionDoesNotThrash == NoThrashing(load, count)

\* A full window always finds something to add or to remove (asg.go:236,246).
FullWindowChangesSize == ConditionsCallForChange(load, count)
=============================================================================
