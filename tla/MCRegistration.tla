--------------------------- MODULE MCRegistration ---------------------------
(***************************************************************************)
(* A small instance of Registration: what the clients of POST /register    *)
(* pass.                                                                   *)
(***************************************************************************)
EXTENDS Registration

\* A client of POST /register who passes what is true of the instance and takes
\* it out of service, and one who passes nothing that is true.
ClientBodiesMC ==
    {[ip |-> "own", meta |-> NoMeta, withMeta |-> TRUE, status |-> "inactive"],
     [ip |-> "other", meta |-> [failures |-> MaxFailures, port |-> "other"],
      withMeta |-> TRUE, status |-> ""]}
=============================================================================
