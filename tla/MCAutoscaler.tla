---------------------------- MODULE MCAutoscaler ----------------------------
(***************************************************************************)
(* Small instances of Autoscaler.                                          *)
(***************************************************************************)
EXTENDS Autoscaler
=============================================================================
