-------------------------- MODULE MCPollScheduler --------------------------
(***************************************************************************)
(* Small instances of PollScheduler with the history of its polls.         *)
(***************************************************************************)
EXTENDS PollSchedulerHistory
=============================================================================
