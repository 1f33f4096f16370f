------------------------ MODULE PollSchedulerHistory ------------------------
(***************************************************************************)
(* PollScheduler while MonitorS stays up, with a history of how the polls  *)
(* of every instance went.  The code keeps no such count: it has the       *)
(* failures of the stored row, which polls in flight overwrite.            *)
(***************************************************************************)
EXTENDS PollScheduler

VARIABLE missed   \* polls of an instance that failed since one succeeded, as far
                  \* as they matter: MaxFailures of them are enough

historyVars == <<vars, missed>>

HistoryInit == PollInit /\ missed = [i \in AllIds |-> 0]

PollRecorded(i) ==
    \/ /\ \E load \in Loads : PollOk(i, load)
       /\ missed' = [missed EXCEPT ![i] = 0]
    \/ /\ PollFails(i)
       /\ missed' = [missed EXCEPT ![i] = IF @ < MaxFailures THEN @ + 1 ELSE @]

\* An instance that is launched was never polled.
NoPoll == missed' = [i \in AllIds |-> IF i \in aws' \ aws THEN 0 ELSE missed[i]]

HistoryNext ==
    \/ \E i \in AllIds : PollRecorded(i)
    \/ /\ \/ StartRound
          \/ \E i \in AllIds : WriteBack(i) \/ HandleDead(i)
          \/ World
       /\ NoPoll

HistorySpec == HistoryInit /\ [][HistoryNext]_historyVars

FairHistorySpec == HistorySpec /\ PollFairness

-----------------------------------------------------------------------------
\* monitor.go:229: an instance is declared dead only after MaxFailures polls
\* failed and none succeeded in between.
DeadAfterConsecutiveFailures ==
    \A i \in AllIds : At("terminate", i) => missed[i] >= MaxFailures
=============================================================================
