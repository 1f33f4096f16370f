------------------------ MODULE ScalingStreaksProofs ------------------------
(***************************************************************************)
(* What the streak counters of reconcile keep up, for every window, limits *)
(* and loads, and for any number of instances.                             *)
(***************************************************************************)
EXTENDS ScalingStreaks, ScalingPolicyProofs

\* asg.go:218-254: the evaluation that fills a window clears both streaks, and
\* a streak that advances stops the other one, whatever the thresholds are.
LEMMA StreaksBelowWindow ==
    ASSUME NEW up \in 0..(EvaluationWindow - 1),
           NEW down \in 0..(EvaluationWindow - 1),
           NEW total, NEW n
    PROVE  LET after == StreaksAfter(up, down, total, n)
           IN  /\ after.up \in 0..(EvaluationWindow - 1)
               /\ after.down \in 0..(EvaluationWindow - 1)
               /\ after.up = 0 \/ after.down = 0
<1> DEFINE u == NextUpStreak(up, total, n)
           d == NextDownStreak(down, total, n)
<1>1. EvaluationWindow \in Nat \ {0}
  BY ThresholdAssumption
<1>2. /\ u \in Nat
      /\ d \in Nat
      /\ u = 0 \/ d = 0
      /\ u # 0 => ScaleUpCond(total, n)
      /\ d # 0 => ScaleDownCond(total, n)
  BY <1>1 DEF NextUpStreak, NextDownStreak
<1>3. CASE WindowFull(up, down, total, n)
  BY <1>1, <1>3 DEF StreaksAfter
<1>4. CASE ~WindowFull(up, down, total, n)
  <2>1. u < EvaluationWindow /\ d < EvaluationWindow
    <3>1. ~UpWindowFull(up, total, n) /\ ~DownWindowFull(up, down, total, n)
      BY <1>4 DEF WindowFull
    <3>2. u < EvaluationWindow
      BY <1>1, <1>2, <3>1 DEF UpWindowFull
    <3>3. d < EvaluationWindow
      BY <1>1, <1>2, <3>1 DEF DownWindowFull
    <3> QED
      BY <3>2, <3>3
  <2>2. StreaksAfter(up, down, total, n) = [up |-> u, down |-> d]
    BY <1>4 DEF StreaksAfter
  <2> QED
    BY <1>1, <1>2, <2>1, <2>2
<1> QED
  BY <1>3, <1>4

LEMMA InitStreaks == StreaksInit => StreaksTypeOK
BY ThresholdAssumption, BoundsAssumption DEF StreaksInit, StreaksTypeOK

LEMMA EvaluateStreaks ==
    ASSUME StreaksTypeOK, NEW n \in 1..MaxCount, NEW total \in Totals(n),
           Evaluate(total, n)
    PROVE  StreaksTypeOK'
<1> DEFINE after == StreaksAfter(upStreak, downStreak, total, n)
<1>1. upStreak' = after.up /\ downStreak' = after.down
  BY DEF Evaluate
<1>2. /\ after.up \in 0..(EvaluationWindow - 1)
      /\ after.down \in 0..(EvaluationWindow - 1)
      /\ after.up = 0 \/ after.down = 0
  BY StreaksBelowWindow DEF StreaksTypeOK
<1>3. load' \in Nat /\ count' \in 1..MaxCount
  BY DEF Evaluate, Totals
<1>4. action' \in {"hold", "up", "down"}
  BY DEF Evaluate
<1> QED
  BY <1>1, <1>2, <1>3, <1>4 DEF StreaksTypeOK

LEMMA StreaksStep ==
    ASSUME StreaksTypeOK, [StreaksNext]_streakVars
    PROVE  StreaksTypeOK'
<1>1. ASSUME NEW n \in 1..MaxCount, NEW total \in Totals(n), Evaluate(total, n)
      PROVE  StreaksTypeOK'
  BY <1>1, EvaluateStreaks
<1>2. CASE Restart
  BY <1>2, ThresholdAssumption DEF Restart, StreaksTypeOK
<1>3. CASE UNCHANGED streakVars
  BY <1>3 DEF streakVars, StreaksTypeOK
<1> QED
  BY <1>1, <1>2, <1>3 DEF StreaksNext

\* A full window never survives its evaluation and the two streaks never run at
\* the same time, for every window, threshold and limit.
THEOREM StreaksCorrect == StreaksSpec => []StreaksTypeOK
<1> QED
  BY InitStreaks, StreaksStep, PTL DEF StreaksSpec

-----------------------------------------------------------------------------
LEMMA EvaluatedTypes ==
    ASSUME StreaksTypeOK
    PROVE  load \in Nat /\ load \in Int /\ count \in Nat \ {0}
BY BoundsAssumption DEF StreaksTypeOK

\* asg.go:257-272: the desired count of every evaluation is the least that
\* carries the load.
THEOREM DesiredCorrect == StreaksSpec => []DesiredMeetsReference
<1>1. StreaksTypeOK => DesiredMeetsReference
  BY EvaluatedTypes, DesiredCount DEF DesiredMeetsReference
<1> QED
  BY <1>1, StreaksCorrect, PTL

\* HU-26: with the default thresholds no evaluation sets up its own opposite.
THEOREM NeverThrashes ==
    ASSUME DefaultThresholds, MinInstances >= 2
    PROVE  StreaksSpec => []ActionDoesNotThrash
<1>1. StreaksTypeOK => ActionDoesNotThrash
  BY EvaluatedTypes, NoThrash DEF ActionDoesNotThrash
<1> QED
  BY <1>1, StreaksCorrect, PTL

\* HU-26: with the default thresholds a window that fills always changes the size.
THEOREM FullWindowsAct ==
    ASSUME DefaultThresholds, MinInstances >= 2
    PROVE  StreaksSpec => []FullWindowChangesSize
<1>1. StreaksTypeOK => FullWindowChangesSize
  BY EvaluatedTypes, WindowsAct DEF FullWindowChangesSize
<1> QED
  BY <1>1, StreaksCorrect, PTL

-----------------------------------------------------------------------------
(***************************************************************************)
(* The refinement of ScalingWindow: each counter is the length of the run  *)
(* at the end of the remembered zones, and an action starts both over.     *)
(***************************************************************************)
Unspent == IF action = "hold" THEN zones ELSE << >>

RunsInv ==
    /\ StreaksTypeOK
    /\ ZoneHistory(Unspent)
    /\ RunOf(Unspent, "over", upStreak)
    /\ RunOf(Unspent, "under", downStreak)

LEMMA EvaluateRuns ==
    ASSUME DefaultThresholds, MinInstances >= 2, RunsInv,
           NEW n \in 1..MaxCount, NEW total \in Totals(n), Evaluate(total, n)
    PROVE  RunsInv' /\ Window!Evaluate(Zone(total, n))
<1> DEFINE up   == NextUpStreak(upStreak, total, n)
           down == NextDownStreak(downStreak, total, n)
<1>1. total \in Nat /\ n \in Nat \ {0}
  BY BoundsAssumption DEF Totals
<1>2. StreaksTypeOK'
  BY EvaluateStreaks DEF RunsInv
<1>3. /\ upStreak \in Nat /\ upStreak < EvaluationWindow
      /\ downStreak \in Nat /\ downStreak < EvaluationWindow
  BY ThresholdAssumption DEF RunsInv, StreaksTypeOK
<1>4. zones' = Window!Remember(Unspent, Zone(total, n))
  BY DEF Evaluate, Unspent
<1>5. zones' = Plain!Remember(Unspent, Zone(total, n))
  BY <1>4 DEF Window!Remember, Plain!Remember
<1>6. /\ ZoneHistory(zones')
      /\ RunOf(zones', "over", up)
      /\ RunOf(zones', "under", down)
      /\ UpWindowFull(upStreak, total, n) <=> Plain!Whole(zones', "over")
      /\ DownWindowFull(upStreak, downStreak, total, n)
           <=> Plain!Whole(zones', "under")
  BY <1>1, <1>3, <1>5, StreaksAreRuns DEF RunsInv
<1>7. \A z : Window!Whole(zones', z) <=> Plain!Whole(zones', z)
  BY DEF Window!Whole, Plain!Whole
<1>8. /\ UpWindowFull(upStreak, total, n) => Additions(total, n) > 0
      /\ DownWindowFull(upStreak, downStreak, total, n) => Removals(total, n) > 0
  BY <1>1, WindowsAct DEF ConditionsCallForChange, UpWindowFull, DownWindowFull
<1>9. action' = CASE Window!Whole(zones', "over")  -> "up"
                  [] Window!Whole(zones', "under") -> "down"
                  [] OTHER                         -> "hold"
  BY <1>6, <1>7, <1>8 DEF Evaluate
<1>10. /\ action' = "hold" => /\ Unspent' = zones'
                              /\ upStreak' = up
                              /\ downStreak' = down
       /\ action' # "hold" => /\ Unspent' = << >>
                              /\ upStreak' = 0
                              /\ downStreak' = 0
  BY <1>6, <1>7, <1>9 DEF Evaluate, StreaksAfter, WindowFull, Unspent, up, down
<1>11. RunsInv'
  BY <1>2, <1>6, <1>10, EmptyRuns DEF RunsInv
<1>12. Window!Evaluate(Zone(total, n))
  BY <1>4, <1>9 DEF Window!Evaluate, Unspent
<1> QED
  BY <1>11, <1>12

LEMMA WindowStep ==
    ASSUME DefaultThresholds, MinInstances >= 2, RunsInv, [StreaksNext]_streakVars
    PROVE  /\ RunsInv'
           /\ [(\E zone \in Window!Zones : Window!Evaluate(zone)) \/ Window!Forget]_<<action, zones>>
<1>1. StreaksTypeOK'
  BY StreaksStep DEF RunsInv
<1>2. ASSUME NEW n \in 1..MaxCount, NEW total \in Totals(n), Evaluate(total, n)
      PROVE  RunsInv' /\ \E zone \in Window!Zones : Window!Evaluate(zone)
  <2>1. Zone(total, n) \in Window!Zones
    BY DEF Zone, Window!Zones
  <2> QED
    BY <1>2, <2>1, EvaluateRuns
<1>3. CASE Restart
  BY <1>1, <1>3, EmptyRuns DEF Restart, RunsInv, Unspent, Window!Forget
<1>4. CASE UNCHANGED streakVars
  BY <1>1, <1>4 DEF streakVars, RunsInv, Unspent
<1> QED
  BY <1>2, <1>3, <1>4 DEF StreaksNext

\* HU-26 (asg.go:215-254): with the default thresholds and the minimum Validate
\* insists on, the two counters implement the evaluation window, for every
\* length of it, all limits and all loads.
THEOREM StreaksImplementWindow ==
    ASSUME DefaultThresholds, MinInstances >= 2
    PROVE  StreaksSpec => ImplementsWindow
<1>1. StreaksInit => RunsInv
  BY InitStreaks, EmptyRuns DEF StreaksInit, RunsInv, Unspent
<1>2. StreaksInit => Window!WindowInit
  BY DEF StreaksInit, Window!WindowInit
<1>3. RunsInv /\ [StreaksNext]_streakVars => RunsInv'
  BY WindowStep
<1>4. RunsInv /\ [StreaksNext]_streakVars
        => [(\E zone \in Window!Zones : Window!Evaluate(zone)) \/ Window!Forget]_<<action, zones>>
  BY WindowStep
<1> QED
  BY <1>1, <1>2, <1>3, <1>4, PTL DEF StreaksSpec, ImplementsWindow, Window!WindowSpec
=============================================================================
