------------------------ MODULE ASGControllerHistory ------------------------
(***************************************************************************)
(* ASGController with a memory of what its passes saw.  The memory never   *)
(* influences the controller; it serves to compare the streaks with the    *)
(* evaluation window they implement (ScalingWindow).                       *)
(***************************************************************************)
EXTENDS ASGController, Sequences

VARIABLES action, zones  \* of ScalingWindow

history == <<action, zones>>

Window == INSTANCE ScalingWindow

HistoryInit ==
    /\ Init
    /\ action = "hold"
    /\ zones = << >>

CurrentZone == Zone(totalLoad, ActiveCount)

NoteEvaluation ==
    /\ action' = CASE pc' = "launch" -> "up"
                   [] pc' = "drain"  -> "down"
                   [] OTHER          -> "hold"
    /\ zones' = Window!Remember(IF action = "hold" THEN zones ELSE << >>,
                                CurrentZone)

\* A pass that waits, recovers or cannot list evaluates nothing; it touches the
\* streaks no more than the reads and calls of other passes do.
HistoryNext ==
    \/ EvaluateLoad /\ NoteEvaluation
    \/ Restart /\ action' = "hold" /\ zones' = << >>
    \/ (AwaitRegistration \/ BeginRecovery \/ ListFails) /\ UNCHANGED history
    \/ Quiet /\ UNCHANGED history

HistorySpec == HistoryInit /\ [][HistoryNext]_<<vars, history>>

-----------------------------------------------------------------------------
\* HU-26: through all the reads, ghosts, recoveries, launches and retirements of
\* the passes, a pass acts on the load exactly when ScalingWindow says so.
ImplementsWindow == Window!WindowSpec
=============================================================================
