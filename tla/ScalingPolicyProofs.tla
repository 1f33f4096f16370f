------------------------- MODULE ScalingPolicyProofs -------------------------
(***************************************************************************)
(* What ScalingPolicy computes, for every load and every number of         *)
(* instances.                                                              *)
(***************************************************************************)
EXTENDS ScalingPolicy, Sequences, TLAPS

\* asg.go:264: the ceiling of total / 50 is the least number of instances that
\* carries the load at the target.
LEMMA CeilDivProperty ==
    ASSUME NEW total \in Int
    PROVE  /\ CeilDiv(total, TargetLoad) \in Int
           /\ CeilDiv(total, TargetLoad) * TargetLoad >= total
           /\ (CeilDiv(total, TargetLoad) - 1) * TargetLoad < total
BY DEF CeilDiv, TargetLoad

\* HU-08 (asg.go:259): the desired count is always within the limits.
LEMMA DesiredWithinLimits ==
    ASSUME NEW total \in Int
    PROVE  CalculateDesiredCount(total) \in MinInstances..MaxInstances
BY LimitsAssumption, CeilDivProperty DEF CalculateDesiredCount, Clamp

\* The reference definition of calculateDesiredCount holds for every load.
THEOREM DesiredCount ==
    ASSUME NEW total \in Int
    PROVE  DesiredIsLeastSufficient(total)
<1> DEFINE c == CeilDiv(total, TargetLoad)
<1>1. c \in Int /\ c * 50 >= total /\ (c - 1) * 50 < total
  BY CeilDivProperty DEF TargetLoad
<1> HIDE DEF c
<1>2. CASE total <= 0
  BY <1>2, LimitsAssumption DEF DesiredIsLeastSufficient,
     CalculateDesiredCount, TargetLoad
<1>3. CASE total > 0
  <2>1. CalculateDesiredCount(total) = Clamp(MinInstances, MaxInstances, c)
    BY <1>3 DEF CalculateDesiredCount, c
  <2> QED
    BY <1>1, <2>1, LimitsAssumption DEF DesiredIsLeastSufficient, Clamp,
       TargetLoad
<1> QED
  BY <1>2, <1>3

\* The thresholds of DefaultConfig (config.go:76-77).
DefaultThresholds == ScaleUpThreshold = 70 /\ ScaleDownThreshold = 30

\* HU-26: with the default thresholds and the minimum Validate insists on, no
\* scaling action creates the condition that undoes it, at any load.
THEOREM NoThrash ==
    ASSUME DefaultThresholds, MinInstances >= 2,
           NEW total \in Nat, NEW n \in Nat \ {0}
    PROVE  NoThrashing(total, n)
<1> DEFINE d == CalculateDesiredCount(total)
           c == CeilDiv(total, TargetLoad)
<1>1. d \in MinInstances..MaxInstances
  BY total \in Int, DesiredWithinLimits
<1>2. c \in Int /\ c * 50 >= total /\ (c - 1) * 50 < total
  BY total \in Int, CeilDivProperty DEF TargetLoad
<1>3. total > 0 => d = Clamp(MinInstances, MaxInstances, c)
  BY DEF CalculateDesiredCount
<1>4. total <= 0 => d = MinInstances
  BY DEF CalculateDesiredCount
<1> HIDE DEF d, c
<1>5. ASSUME ScaleUpCond(total, n)
      PROVE  ~ScaleDownCond(total, d)
  BY <1>1, <1>2, <1>3, <1>5, LimitsAssumption DEF DefaultThresholds,
     ScaleUpCond, ScaleDownCond, Clamp
<1>6. ASSUME ScaleDownCond(total, n)
      PROVE  ~ScaleUpCond(total, d)
  BY <1>1, <1>2, <1>3, <1>4, <1>6, LimitsAssumption DEF DefaultThresholds,
     ScaleUpCond, ScaleDownCond, Clamp
<1> QED
  BY <1>5, <1>6 DEF NoThrashing, d

\* HU-26 (asg.go:234-254): a full window always leads to a change of size.
THEOREM WindowsAct ==
    ASSUME DefaultThresholds, MinInstances >= 2,
           NEW total \in Nat, NEW n \in Nat \ {0}
    PROVE  ConditionsCallForChange(total, n)
<1> DEFINE d == CalculateDesiredCount(total)
           c == CeilDiv(total, TargetLoad)
<1>1. d \in MinInstances..MaxInstances
  BY total \in Int, DesiredWithinLimits
<1>2. c \in Int /\ c * 50 >= total /\ (c - 1) * 50 < total
  BY total \in Int, CeilDivProperty DEF TargetLoad
<1>3. total > 0 => d = Clamp(MinInstances, MaxInstances, c)
  BY DEF CalculateDesiredCount
<1>4. total <= 0 => d = MinInstances
  BY DEF CalculateDesiredCount
<1> HIDE DEF d, c
<1>5. ASSUME ScaleUpCond(total, n) PROVE d - n > 0
  BY <1>1, <1>2, <1>3, <1>5, LimitsAssumption DEF DefaultThresholds,
     ScaleUpCond, Clamp
<1>6. ASSUME ScaleDownCond(total, n) PROVE n - d > 0 /\ n - MinInstances > 0
  BY <1>1, <1>2, <1>3, <1>4, <1>6, LimitsAssumption DEF DefaultThresholds,
     ScaleDownCond, Clamp
<1> QED
  BY <1>1, <1>5, <1>6, LimitsAssumption
     DEF ConditionsCallForChange, Additions, Removals, d

\* The streaks stay natural numbers.
LEMMA StreaksType ==
    ASSUME NEW up \in Nat, NEW down \in Nat, NEW total \in Nat, NEW n \in Nat
    PROVE  /\ StreaksAfter(up, down, total, n).up \in Nat
           /\ StreaksAfter(up, down, total, n).down \in Nat
<1>1. /\ NextUpStreak(up, total, n) \in Nat
      /\ NextDownStreak(down, total, n) \in Nat
  BY DEF NextUpStreak, NextDownStreak
<1> QED
  BY <1>1 DEF StreaksAfter

-----------------------------------------------------------------------------
(***************************************************************************)
(* Streaks and evaluation windows.  A streak is the length of the run of   *)
(* equal zones at the end of what ScalingWindow remembers; its operators   *)
(* on sequences do not depend on its variables.                            *)
(***************************************************************************)
Plain == INSTANCE ScalingWindow WITH action <- "hold", zones <- << >>

\* The last k elements of seq, and no more than those, are zone.
RunOf(seq, zone, k) ==
    /\ k \in 0..Len(seq)
    /\ \A j \in 1..Len(seq) : j > Len(seq) - k => seq[j] = zone
    /\ k < Len(seq) => seq[Len(seq) - k] # zone

ZoneHistory(seq) == seq \in Seq(Plain!Zones) /\ Len(seq) <= EvaluationWindow

LEMMA RememberType ==
    ASSUME NEW seq, ZoneHistory(seq), NEW zone \in Plain!Zones
    PROVE  ZoneHistory(Plain!Remember(seq, zone))
BY ThresholdAssumption DEF ZoneHistory, Plain!Remember

\* Forgetting the oldest element leaves a run that it is not part of.
LEMMA TailRun ==
    ASSUME NEW S, NEW seq \in Seq(S), NEW z, NEW k, RunOf(seq, z, k), k < Len(seq)
    PROVE  RunOf(Tail(seq), z, k)
<1>1. k \in Nat /\ Len(seq) \in Nat /\ Len(seq) >= 1
  BY DEF RunOf
<1>2. Len(Tail(seq)) = Len(seq) - 1
  BY <1>1
<1>3. \A j \in 1..(Len(seq) - 1) : Tail(seq)[j] = seq[j + 1]
  BY <1>1
<1>4. k \in 0..(Len(seq) - 1)
  BY <1>1
<1>5. ASSUME NEW j \in 1..(Len(seq) - 1), j > Len(seq) - 1 - k
      PROVE  Tail(seq)[j] = z
  <2>1. j + 1 \in 1..Len(seq) /\ j + 1 > Len(seq) - k
    BY <1>1, <1>5
  <2>2. seq[j + 1] = z
    BY <2>1 DEF RunOf
  <2> QED
    BY <1>3, <2>2
<1>6. ASSUME k < Len(seq) - 1
      PROVE  Tail(seq)[Len(seq) - 1 - k] # z
  <2>1. Len(seq) - 1 - k \in 1..(Len(seq) - 1)
    BY <1>1, <1>6
  <2>2. Tail(seq)[Len(seq) - 1 - k] = seq[Len(seq) - k]
    BY <1>1, <1>3, <2>1
  <2> QED
    BY <1>1, <2>2 DEF RunOf
<1> QED
  BY <1>2, <1>4, <1>5, <1>6 DEF RunOf

\* A zone remembered as the next one lengthens its run and ends any other.
LEMMA RememberRun ==
    ASSUME NEW seq, ZoneHistory(seq), NEW zone \in Plain!Zones, NEW z,
           NEW k, RunOf(seq, z, k), k < EvaluationWindow
    PROVE  RunOf(Plain!Remember(seq, zone), z, IF zone = z THEN k + 1 ELSE 0)
<1> DEFINE longer == Append(seq, zone)
<1>1. /\ EvaluationWindow \in Nat \ {0}
      /\ Len(seq) \in Nat /\ k \in Nat
      /\ Len(longer) = Len(seq) + 1
      /\ longer[Len(seq) + 1] = zone
      /\ \A j \in 1..Len(seq) : longer[j] = seq[j]
      /\ longer \in Seq(Plain!Zones)
  BY ThresholdAssumption DEF ZoneHistory, RunOf
<1>2. RunOf(longer, z, IF zone = z THEN k + 1 ELSE 0)
  BY <1>1 DEF RunOf
<1> HIDE DEF longer
<1>3. CASE Len(longer) <= EvaluationWindow
  BY <1>1, <1>2, <1>3 DEF Plain!Remember, longer
<1>4. CASE Len(longer) > EvaluationWindow
  <2>1. (IF zone = z THEN k + 1 ELSE 0) < Len(longer)
    BY <1>1, <1>4
  <2>2. RunOf(Tail(longer), z, IF zone = z THEN k + 1 ELSE 0)
    BY <1>1, <1>2, <2>1, TailRun
  <2> QED
    BY <1>1, <1>4, <2>2 DEF Plain!Remember, longer
<1>5. Len(longer) <= EvaluationWindow \/ Len(longer) > EvaluationWindow
  BY <1>1
<1> QED
  BY <1>3, <1>4, <1>5, Zenon

\* A window is whole exactly when the run fills it.
LEMMA WholeIsFullRun ==
    ASSUME NEW seq, ZoneHistory(seq), NEW z, NEW k, RunOf(seq, z, k)
    PROVE  Plain!Whole(seq, z) <=> k >= EvaluationWindow
<1>1. EvaluationWindow \in Nat \ {0} /\ Len(seq) \in Nat /\ k \in Nat
  BY ThresholdAssumption DEF ZoneHistory, RunOf
<1>2. ASSUME k >= EvaluationWindow PROVE Plain!Whole(seq, z)
  <2>1. Len(seq) = EvaluationWindow /\ k = EvaluationWindow
    BY <1>1, <1>2 DEF ZoneHistory, RunOf
  <2>2. \A j \in 1..EvaluationWindow : seq[j] = z
    BY <1>1, <2>1 DEF RunOf
  <2>3. seq = [j \in 1..Len(seq) |-> seq[j]]
    BY DEF ZoneHistory
  <2> QED
    BY <2>1, <2>2, <2>3 DEF Plain!Whole
<1>3. ASSUME Plain!Whole(seq, z) PROVE k >= EvaluationWindow
  <2>1. DOMAIN seq = 1..EvaluationWindow /\ \A j \in 1..EvaluationWindow : seq[j] = z
    BY <1>3 DEF Plain!Whole
  <2>2. DOMAIN seq = 1..Len(seq)
    BY DEF ZoneHistory
  <2>3. Len(seq) = EvaluationWindow
    BY <1>1, <2>1, <2>2
  <2> QED
    BY <1>1, <2>1, <2>3 DEF RunOf
<1> QED
  BY <1>2, <1>3


LEMMA EmptyRuns ==
    ZoneHistory(<< >>) /\ RunOf(<< >>, "over", 0) /\ RunOf(<< >>, "under", 0)
BY ThresholdAssumption DEF ZoneHistory, RunOf

\* With the thresholds in the order of DefaultConfig a reading is on one side at
\* most.
LEMMA OneSide ==
    ASSUME DefaultThresholds, NEW total \in Nat, NEW n \in Nat \ {0}
    PROVE  ~(ScaleUpCond(total, n) /\ ScaleDownCond(total, n))
BY DEF DefaultThresholds, ScaleUpCond, ScaleDownCond


\* One evaluation moves the streaks as it moves the runs, and finds a window
\* full exactly when the sequence says so.
LEMMA StreaksAreRuns ==
    ASSUME DefaultThresholds, NEW total \in Nat, NEW n \in Nat \ {0},
           NEW up \in Nat, up < EvaluationWindow,
           NEW down \in Nat, down < EvaluationWindow,
           NEW seq, ZoneHistory(seq),
           RunOf(seq, "over", up), RunOf(seq, "under", down),
           NEW next, next = Plain!Remember(seq, Zone(total, n))
    PROVE  /\ ZoneHistory(next)
           /\ RunOf(next, "over", NextUpStreak(up, total, n))
           /\ RunOf(next, "under", NextDownStreak(down, total, n))
           /\ UpWindowFull(up, total, n) <=> Plain!Whole(next, "over")
           /\ DownWindowFull(up, down, total, n) <=> Plain!Whole(next, "under")
<1> DEFINE u == NextUpStreak(up, total, n)
           d == NextDownStreak(down, total, n)
           zone == Zone(total, n)
<1>1. ~(ScaleUpCond(total, n) /\ ScaleDownCond(total, n))
  BY OneSide
<1>2. /\ zone \in Plain!Zones
      /\ zone = "over" <=> ScaleUpCond(total, n)
      /\ zone = "under" <=> ScaleDownCond(total, n)
      /\ u = IF zone = "over" THEN up + 1 ELSE 0
      /\ d = IF zone = "under" THEN down + 1 ELSE 0
  BY <1>1 DEF Zone, Plain!Zones, NextUpStreak, NextDownStreak
<1>3. EvaluationWindow \in Nat \ {0}
  BY ThresholdAssumption
<1>4. next = Plain!Remember(seq, zone)
  OBVIOUS
<1> HIDE DEF zone
<1>5. ZoneHistory(next) /\ RunOf(next, "over", u) /\ RunOf(next, "under", d)
  BY <1>2, <1>4, RememberType, RememberRun
<1>6. /\ Plain!Whole(next, "over") <=> u >= EvaluationWindow
      /\ Plain!Whole(next, "under") <=> d >= EvaluationWindow
  BY <1>5, WholeIsFullRun
<1> HIDE DEF u, d
<1>7. UpWindowFull(up, total, n) <=> u >= EvaluationWindow
  BY <1>2, <1>3 DEF UpWindowFull, u
<1>8. DownWindowFull(up, down, total, n) <=> d >= EvaluationWindow
  BY <1>2, <1>3, <1>7 DEF DownWindowFull, d
<1> QED
  BY <1>5, <1>6, <1>7, <1>8 DEF u, d
=============================================================================
