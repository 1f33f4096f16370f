---------------------------- MODULE ScalingWindow ----------------------------
(***************************************************************************)
(* What the evaluation window promises (README, "Ventana de Evaluacion y   *)
(* Cooldown"), without any streak counter: the controller sees one zone    *)
(* per evaluation and acts exactly when EvaluationWindow consecutive ones  *)
(* are the same side of the band, none of them used by an earlier action.  *)
(***************************************************************************)
EXTENDS Integers, Sequences

CONSTANT EvaluationWindow  \* at least 1

VARIABLES
    action,  \* what the last evaluation led to
    zones    \* the last zones seen since an action, newest last

Zones == {"over", "under", "inside"}

Remember(seq, zone) ==
    LET longer == Append(seq, zone)
    IN  IF Len(longer) > EvaluationWindow THEN Tail(longer) ELSE longer

Whole(seq, zone) == seq = [k \in 1..EvaluationWindow |-> zone]

WindowInit == action = "hold" /\ zones = << >>

Evaluate(zone) ==
    LET unused == IF action = "hold" THEN zones ELSE << >>
    IN  /\ zones' = Remember(unused, zone)
        /\ action' = CASE Whole(zones', "over")  -> "up"
                       [] Whole(zones', "under") -> "down"
                       [] OTHER                  -> "hold"

\* A restart of MonitorS.
Forget == action' = "hold" /\ zones' = << >>

WindowSpec ==
    WindowInit /\ [][(\E zone \in Zones : Evaluate(zone)) \/ Forget]_<<action, zones>>
=============================================================================
