------------------------------ MODULE MCStartup ------------------------------
(***************************************************************************)
(* Small instances of Startup: a complete configuration, and the ways in   *)
(* which one or two of its fields may be wrong.                            *)
(***************************************************************************)
EXTENDS Startup

Complete == [DefaultConfig EXCEPT !.monitorSIP = "filled in", !.ami = "filled in"]

MCWritten ==
    {Complete,
     [Complete EXCEPT !.monitorSIP = ""],
     [Complete EXCEPT !.monitorSIP = DefaultConfig.monitorSIP],
     [Complete EXCEPT !.ami = "REPLACE_WITH"],
     [Complete EXCEPT !.minInstances = 1],
     [Complete EXCEPT !.maxInstances = 1],
     [Complete EXCEPT !.scaleUpThreshold = 0, !.evaluationWindow = 0],
     [Complete EXCEPT !.scaleDownThreshold = -1, !.cooldown = -1],
     [Complete EXCEPT !.cooldown = 0]}

MCOverrides ==
    UNION {[{} -> {0}],
           [{"minInstances"} -> {1, Unparseable}],
           [{"evaluationWindow", "cooldown"} -> {0, 2}],
           [{"scaleUpThreshold"} -> {0}],
           [{"ami"} -> {"filled in"}]}
=============================================================================
