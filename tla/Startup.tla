------------------------------- MODULE Startup -------------------------------
(***************************************************************************)
(* How MonitorS comes by its configuration (config/config.go,              *)
(* config/store.go, cmd/monitors/main.go, NewASGController): read or write *)
(* config.json, validate it, apply the AUTOSCALER_* variables, build the   *)
(* controller.  Every failure ends the process, and systemd starts it      *)
(* again (deploy/monitors.service, Restart=always), while an operator      *)
(* edits the file and the environment.                                     *)
(*                                                                         *)
(* A configuration has the limits, the thresholds and two of the texts     *)
(* that must be filled in: monitorSIP, and ami for the ones that are       *)
(* treated like it (region, subnet, security groups).  Ports, timeouts and *)
(* the load simulation are left out; their defaults work like window's.    *)
(***************************************************************************)
EXTENDS Integers

CONSTANTS
    Written,     \* the configurations the operator may write
    Overrides,   \* the environments: functions from some fields to values
    Unparseable, \* a number that strconv cannot read
    NoFile,      \* config.json does not exist
    Torn         \* config.json ends in the middle of a write

VARIABLES
    file,   \* config.json
    env,    \* the AUTOSCALER_* variables of the running process
    phase,  \* how far main has come
    cfg     \* its configuration

vars == <<file, env, phase, cfg>>

Numbers == {"minInstances", "maxInstances", "scaleUpThreshold",
            "scaleDownThreshold", "evaluationWindow", "cooldown"}

\* What a text field may hold.  Validate knows a placeholder by "REPLACE_WITH";
\* the default of monitorSIP is written another way.
Texts == {"", "REPLACE_WITH", "<MONITOR_S_PRIVATE_IP_ADDRESS>", "filled in"}

Config == [minInstances : Int, maxInstances : Int, scaleUpThreshold : Int,
           scaleDownThreshold : Int, evaluationWindow : Int, cooldown : Int,
           monitorSIP : Texts, ami : Texts]

ASSUME StartupAssumption ==
    /\ Written \subseteq Config
    /\ Unparseable \notin Int
    /\ {NoFile, Torn} \cap Config = {}
    /\ NoFile # Torn
    /\ \A e \in Overrides :
          /\ DOMAIN e \subseteq Numbers \cup {"monitorSIP", "ami"}
          /\ \A f \in DOMAIN e :
                e[f] \in IF f \in Numbers THEN Int \cup {Unparseable}
                                          ELSE Texts \ {""}

DefaultConfig ==
    [minInstances |-> 2, maxInstances |-> 5, scaleUpThreshold |-> 70,
     scaleDownThreshold |-> 30, evaluationWindow |-> 3, cooldown |-> 180,
     monitorSIP |-> "<MONITOR_S_PRIVATE_IP_ADDRESS>", ami |-> "REPLACE_WITH"]

-----------------------------------------------------------------------------
\* The functions of package config.

Missing(text) == text \in {"", "REPLACE_WITH"}

\* Mutant: the limits are not compared with each other.
AcceptableApart(c) ==
    /\ ~Missing(c.monitorSIP)
    /\ ~Missing(c.ami)
    /\ c.minInstances >= 2

\* Validate finds nothing that ends the process.
Acceptable(c) ==
    /\ ~Missing(c.monitorSIP)
    /\ ~Missing(c.ami)
    /\ c.minInstances >= 2
    /\ c.maxInstances >= c.minInstances

Positive(n, default) == IF n <= 0 THEN default ELSE n

\* What Validate changes; a cooldown of zero passes.
Normalised(c) ==
    [c EXCEPT !.evaluationWindow = Positive(c.evaluationWindow, 3),
              !.cooldown = IF c.cooldown < 0 THEN 180 ELSE c.cooldown,
              !.scaleUpThreshold = Positive(c.scaleUpThreshold, 70),
              !.scaleDownThreshold = Positive(c.scaleDownThreshold, 30)]

\* Mutant: the error of the last conversion is not looked at.
ReadableAnyway(e) == TRUE

Readable(e) == \A f \in DOMAIN e : e[f] # Unparseable

\* ApplyEnvOverrides; nothing is validated again.
Overridden(c, e) == [f \in DOMAIN c |-> IF f \in DOMAIN e THEN e[f] ELSE c[f]]

\* Mutant: the controller takes the values as they are.
ControllerTrusts(c) == c

\* NewASGController has defaults of its own for two of them.
ControllerConfig(c) ==
    [c EXCEPT !.evaluationWindow = Positive(c.evaluationWindow, 3),
              !.cooldown = Positive(c.cooldown, 180)]

-----------------------------------------------------------------------------
Init ==
    /\ file = NoFile
    /\ env = [f \in {} |-> 0]
    /\ phase = "down"
    /\ cfg = DefaultConfig

Enter(next) == phase' = next /\ UNCHANGED <<file, env>>

\* log.Fatalf; systemd will try again.
Abort == Enter("down") /\ UNCHANGED cfg

Start ==
    /\ phase = "down"
    /\ env' \in Overrides
    /\ phase' = "load"
    /\ UNCHANGED <<file, cfg>>

\* LoadConfig without a file: the default is written first and validated after.
WriteDefault ==
    /\ phase = "load"
    /\ file = NoFile
    /\ file' = DefaultConfig
    /\ cfg' = DefaultConfig
    /\ phase' = "validate"
    /\ UNCHANGED env

\* The process or the disk gives up in the middle of WriteFile.
TearFile ==
    /\ phase = "load"
    /\ file = NoFile
    /\ file' = Torn
    /\ phase' = "down"
    /\ UNCHANGED <<env, cfg>>

\* Mutant: the configuration read is not the one returned.
ReadForNothing ==
    /\ phase = "load"
    /\ file \notin {NoFile, Torn}
    /\ cfg' = DefaultConfig
    /\ Enter("validate")

ReadFile ==
    /\ phase = "load"
    /\ file \notin {NoFile, Torn}
    /\ cfg' = file
    /\ Enter("validate")

RejectFile == phase = "load" /\ file = Torn /\ Abort

ValidateConfig ==
    /\ phase = "validate"
    /\ Acceptable(cfg)
    /\ cfg' = Normalised(cfg)
    /\ Enter("override")

RejectConfig == phase = "validate" /\ ~Acceptable(cfg) /\ Abort

\* ApplyEnvOverrides, then NewASGController.
ApplyEnvOverrides ==
    /\ phase = "override"
    /\ Readable(env)
    /\ cfg' = ControllerConfig(Overridden(cfg, env))
    /\ Enter("run")

RejectEnv == phase = "override" /\ ~Readable(env) /\ Abort

\* The operator repairs or edits config.json.
Edit(c) ==
    /\ file' = c
    /\ UNCHANGED <<env, phase, cfg>>

Stop == phase # "down" /\ Abort

Rejects == RejectFile \/ RejectConfig \/ RejectEnv

Main ==
    \/ Start \/ WriteDefault \/ ReadFile \/ ValidateConfig \/ ApplyEnvOverrides
    \/ Rejects

Operator == \E c \in Written : Edit(c)

Next == Main \/ TearFile \/ Operator \/ Stop

Spec == Init /\ [][Next]_vars

\* Restart=always, and main goes on from step to step.
FairSpec == Spec /\ WF_vars(Main)

-----------------------------------------------------------------------------
TypeOK ==
    /\ file \in Config \cup {NoFile, Torn}
    /\ phase \in {"down", "load", "validate", "override", "run"}
    /\ cfg \in Config

\* What ScalingPolicy assumes of the limits and thresholds (config.go:115-137),
\* for a controller whose environment overrides none of them.
LimitsHold ==
    phase = "run" /\ DOMAIN env \cap (Numbers \ {"evaluationWindow", "cooldown"}) = {}
        => /\ cfg.minInstances >= 2
           /\ cfg.maxInstances >= cfg.minInstances
           /\ cfg.scaleUpThreshold > 0
           /\ cfg.scaleDownThreshold > 0

\* Window and cooldown are usable even with overrides (asg.go:72-79).
WindowAndCooldownHold ==
    phase = "run" => cfg.evaluationWindow > 0 /\ cfg.cooldown > 0

\* Once config.json is acceptable, the variables can be read and nobody kills it,
\* MonitorS gets through its start, whatever aborted it before (main.go:23-39).
StartsOnceConfigured ==
    (/\ <>[](file \notin {NoFile, Torn} /\ Acceptable(file) /\ Readable(env))
     /\ <>[][Stop => Rejects]_vars)
        => <>[](phase = "run")
=============================================================================
