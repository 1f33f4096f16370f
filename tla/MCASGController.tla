--------------------------- MODULE MCASGController ---------------------------
(***************************************************************************)
(* Small instances of ASGController: a few instances and a window of two   *)
(* evaluations.  Two kinds of row, idle and busy, are enough to move the   *)
(* average across both thresholds.                                         *)
(***************************************************************************)
EXTENDS ASGController

Row(excluded, load) ==
    [status |-> "active", excluded |-> excluded, load |-> load]

MCRows == {Row(FALSE, 10), Row(FALSE, 90)}
=============================================================================
