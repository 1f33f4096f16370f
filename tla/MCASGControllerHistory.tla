----------------------- MODULE MCASGControllerHistory -----------------------
(***************************************************************************)
(* Small instances of ASGControllerHistory: idle and busy rows, and rows   *)
(* left out of the average.                                                *)
(***************************************************************************)
EXTENDS ASGControllerHistory, TLC

Row(excluded, load) ==
    [status |-> "active", excluded |-> excluded, load |-> load]

MCRows == {Row(FALSE, 10), Row(FALSE, 90), Row(TRUE, 0)}

Symmetry == Permutations(Ids)
=============================================================================
