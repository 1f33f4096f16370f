---------------------------- MODULE StartupProofs ----------------------------
(***************************************************************************)
(* What the configuration guarantees to a running controller, whatever the *)
(* operator writes and however often MonitorS starts.                      *)
(***************************************************************************)
EXTENDS Startup, TLAPS

NormalLimits(c) ==
    /\ c.minInstances >= 2
    /\ c.maxInstances >= c.minInstances
    /\ c.scaleUpThreshold > 0
    /\ c.scaleDownThreshold > 0

\* A configuration that passed Validate has good limits until the overrides are
\* applied, and the overrides that were readable keep its types.
StartInv ==
    /\ TypeOK
    /\ env = [f \in {} |-> 0] \/ env \in Overrides
    /\ phase = "override" => NormalLimits(cfg)
    /\ LimitsHold
    /\ WindowAndCooldownHold

LEMMA DefaultType == DefaultConfig \in Config
BY DEF DefaultConfig, Config, Texts

LEMMA PositiveInt ==
    ASSUME NEW n \in Int, NEW default \in Nat \ {0}
    PROVE  Positive(n, default) \in Int /\ Positive(n, default) > 0
BY DEF Positive

\* A configuration field by field.
Timed(c, w, d) == [c EXCEPT !.evaluationWindow = w, !.cooldown = d]

Set(c, w, d, u, s) ==
    [c EXCEPT !.evaluationWindow = w, !.cooldown = d,
              !.scaleUpThreshold = u, !.scaleDownThreshold = s]

LEMMA TimedFields ==
    ASSUME NEW c \in Config, NEW w \in Int, NEW d \in Int
    PROVE  /\ Timed(c, w, d) \in Config
           /\ Timed(c, w, d).evaluationWindow = w /\ Timed(c, w, d).cooldown = d
           /\ Timed(c, w, d).minInstances = c.minInstances
           /\ Timed(c, w, d).maxInstances = c.maxInstances
           /\ Timed(c, w, d).scaleUpThreshold = c.scaleUpThreshold
           /\ Timed(c, w, d).scaleDownThreshold = c.scaleDownThreshold
BY DEF Config, Timed

LEMMA SetFields ==
    ASSUME NEW c \in Config, NEW w \in Int, NEW d \in Int,
           NEW u \in Int, NEW s \in Int
    PROVE  /\ Set(c, w, d, u, s) \in Config
           /\ Set(c, w, d, u, s).minInstances = c.minInstances
           /\ Set(c, w, d, u, s).maxInstances = c.maxInstances
           /\ Set(c, w, d, u, s).scaleUpThreshold = u
           /\ Set(c, w, d, u, s).scaleDownThreshold = s
BY DEF Config, Set

LEMMA NormalisedLimits ==
    ASSUME NEW c \in Config, Acceptable(c)
    PROVE  Normalised(c) \in Config /\ NormalLimits(Normalised(c))
<1> DEFINE w == Positive(c.evaluationWindow, 3)
           d == IF c.cooldown < 0 THEN 180 ELSE c.cooldown
           u == Positive(c.scaleUpThreshold, 70)
           s == Positive(c.scaleDownThreshold, 30)
<1>1. w \in Int /\ d \in Int /\ u \in Int /\ s \in Int /\ u > 0 /\ s > 0
  BY PositiveInt DEF Config
<1>2. Normalised(c) = Set(c, w, d, u, s)
  BY Zenon DEF Normalised, Set
<1> HIDE DEF w, d, u, s
<1> QED
  BY <1>1, <1>2, SetFields DEF NormalLimits, Acceptable

LEMMA ControllerFields ==
    ASSUME NEW c \in Config
    PROVE  /\ ControllerConfig(c) \in Config
           /\ ControllerConfig(c).evaluationWindow > 0
           /\ ControllerConfig(c).cooldown > 0
           /\ NormalLimits(c) => NormalLimits(ControllerConfig(c))
<1> DEFINE w == Positive(c.evaluationWindow, 3)
           d == Positive(c.cooldown, 180)
<1>1. w \in Int /\ d \in Int /\ w > 0 /\ d > 0
  BY PositiveInt DEF Config
<1>2. ControllerConfig(c) = Timed(c, w, d)
  BY Zenon DEF ControllerConfig, Timed
<1> HIDE DEF w, d
<1> QED
  BY <1>1, <1>2, TimedFields DEF NormalLimits

Fields == Numbers \cup {"monitorSIP", "ami"}

LEMMA OverriddenType ==
    ASSUME NEW c \in Config, NEW e \in Overrides, Readable(e)
    PROVE  Overridden(c, e) \in Config
<1>1. DOMAIN c = Fields
  BY DEF Config, Fields, Numbers
<1>2. \A f \in Fields : Overridden(c, e)[f] = IF f \in DOMAIN e THEN e[f] ELSE c[f]
  BY <1>1 DEF Overridden
<1>3. ASSUME NEW f \in Numbers
      PROVE  Overridden(c, e)[f] \in Int
  <2>1. c[f] \in Int
    BY DEF Config, Numbers
  <2>2. f \in DOMAIN e => e[f] \in Int
    BY StartupAssumption DEF Readable
  <2> QED
    BY <1>2, <2>1, <2>2 DEF Fields
<1>4. ASSUME NEW f \in {"monitorSIP", "ami"}
      PROVE  Overridden(c, e)[f] \in Texts
  <2>1. c[f] \in Texts
    BY DEF Config
  <2>2. f \notin Numbers
    BY DEF Numbers
  <2>3. f \in DOMAIN e => e[f] \in Texts
    BY <2>2, StartupAssumption
  <2> QED
    BY <1>2, <2>1, <2>3 DEF Fields
<1>5. Overridden(c, e) = [f \in Fields |-> Overridden(c, e)[f]]
  BY <1>1 DEF Overridden
<1> QED
  BY <1>3, <1>4, <1>5 DEF Config, Fields, Numbers

\* Overrides that leave the limits alone.
LEMMA OverriddenLimits ==
    ASSUME NEW c \in Config, NormalLimits(c), NEW e,
           DOMAIN e \cap (Numbers \ {"evaluationWindow", "cooldown"}) = {}
    PROVE  NormalLimits(Overridden(c, e))
<1>1. \A f \in {"minInstances", "maxInstances", "scaleUpThreshold",
                "scaleDownThreshold"} : f \in DOMAIN c /\ f \notin DOMAIN e
  BY DEF Config, Numbers
<1>2. \A f \in {"minInstances", "maxInstances", "scaleUpThreshold",
                "scaleDownThreshold"} : Overridden(c, e)[f] = c[f]
  BY <1>1 DEF Overridden
<1> QED
  BY <1>2 DEF NormalLimits

LEMMA InitStart == Init => StartInv
BY DefaultType DEF Init, StartInv, TypeOK, LimitsHold, WindowAndCooldownHold

LEMMA StepStart == StartInv /\ [Next]_vars => StartInv'
<1> SUFFICES ASSUME StartInv, [Next]_vars PROVE StartInv'
  OBVIOUS
<1> USE DEF StartInv, TypeOK, LimitsHold, WindowAndCooldownHold
<1>1. CASE Start
  BY <1>1 DEF Start
<1>2. CASE WriteDefault
  BY <1>2, DefaultType DEF WriteDefault
<1>3. CASE ReadFile
  BY <1>3 DEF ReadFile, Enter
<1>4. CASE RejectFile
  BY <1>4 DEF RejectFile, Abort, Enter
<1>5. CASE ValidateConfig
  <2>1. cfg' \in Config /\ NormalLimits(cfg')
    BY <1>5, NormalisedLimits DEF ValidateConfig
  <2> QED
    BY <1>5, <2>1 DEF ValidateConfig, Enter
<1>6. CASE RejectConfig
  BY <1>6 DEF RejectConfig, Abort, Enter
<1>7. CASE ApplyEnvOverrides
  <2> DEFINE c == Overridden(cfg, env)
  <2>1. c \in Config
    <3>1. CASE env \in Overrides
      BY <1>7, <3>1, OverriddenType DEF ApplyEnvOverrides
    <3>2. CASE env = [f \in {} |-> 0]
      BY <3>2 DEF Overridden, Config
    <3> QED
      BY <3>1, <3>2
  <2>2. NormalLimits(cfg)
    BY <1>7 DEF ApplyEnvOverrides
  <2>3. DOMAIN env \cap (Numbers \ {"evaluationWindow", "cooldown"}) = {}
            => NormalLimits(c)
    BY <2>2, OverriddenLimits
  <2>4. cfg' = ControllerConfig(c) /\ phase' = "run" /\ UNCHANGED <<file, env>>
    BY <1>7 DEF ApplyEnvOverrides, Enter
  <2> HIDE DEF c
  <2>5. /\ cfg' \in Config /\ cfg'.evaluationWindow > 0 /\ cfg'.cooldown > 0
        /\ NormalLimits(c) => NormalLimits(cfg')
    BY <2>1, <2>4, ControllerFields
  <2> QED
    BY <2>3, <2>4, <2>5 DEF NormalLimits
<1>8. CASE RejectEnv
  BY <1>8 DEF RejectEnv, Abort, Enter
<1>9. CASE TearFile
  BY <1>9 DEF TearFile
<1>10. ASSUME NEW c \in Written, Edit(c) PROVE StartInv'
  <2>1. file' \in Config
    BY <1>10, StartupAssumption DEF Edit
  <2> QED
    BY <1>10, <2>1 DEF Edit
<1>11. CASE Stop
  BY <1>11 DEF Stop, Abort, Enter
<1>12. CASE UNCHANGED vars
  BY <1>12 DEF vars
<1> QED
  BY <1>1, <1>2, <1>3, <1>4, <1>5, <1>6, <1>7, <1>8, <1>9, <1>10, <1>11, <1>12
     DEF Next, Main, Rejects, Operator

\* config.json and the configuration in memory are always of their types, whatever
\* the operator writes, whatever the variables say and wherever a write is torn.
THEOREM ConfigurationTyped == Spec => []TypeOK
<1>1. StartInv => TypeOK
  BY DEF StartInv
<1> QED
  BY InitStart, StepStart, <1>1, PTL DEF Spec

\* config.go:115-137: unless a variable overrides them, the limits and thresholds
\* of a running controller are the ones ScalingPolicy assumes.
THEOREM LimitsEstablished == Spec => []LimitsHold
<1>1. StartInv => LimitsHold
  BY DEF StartInv
<1> QED
  BY InitStart, StepStart, <1>1, PTL DEF Spec

\* asg.go:72-79: no file and no variable gives a running controller a window or
\* a cooldown that is not positive.
THEOREM WindowAndCooldownEstablished == Spec => []WindowAndCooldownHold
<1>1. StartInv => WindowAndCooldownHold
  BY DEF StartInv
<1> QED
  BY InitStart, StepStart, <1>1, PTL DEF Spec
=============================================================================
