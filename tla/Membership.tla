----------------------------- MODULE Membership -----------------------------
(***************************************************************************)
(* What Register and Deregister promise an agent (HU-01, Registro y        *)
(* Desregistro): it takes itself for a member only once MonitorS gave it a *)
(* row, and the row comes and goes only because the agent asked for it.    *)
(* An agent that does not wait for the answer may get what it asked for    *)
(* later, even after it left or while it is a member again.                *)
(***************************************************************************)

VARIABLES
    phase,   \* out, joining, admitted, member, leaving, left
    member,  \* the registry has a row
    overdue  \* "register", "deregister": what was asked for and not waited for

MembershipInit == phase = "out" /\ member = FALSE /\ overdue = {}

Join == phase = "out" /\ phase' = "joining" /\ UNCHANGED member

\* The row is written while the agent joins, or just before it leaves.
Admit ==
    /\ phase \in {"joining", "leaving"}
    /\ member' = TRUE
    /\ phase' \in IF phase = "joining" THEN {"admitted"} ELSE {"leaving", "left"}

\* The agent learns that it is registered.
Confirm == phase = "admitted" /\ phase' = "member" /\ UNCHANGED member

\* It missed the answer, or takes its connection for lost, and starts over.
Rejoin ==
    /\ phase \in {"admitted", "member"}
    /\ phase' = "joining"
    /\ UNCHANGED member

Leave ==
    /\ phase \in {"joining", "admitted", "member", "leaving"}
    /\ phase' \in {"leaving", "left"}
    /\ UNCHANGED member

Dismiss == phase = "left" /\ member' = FALSE /\ UNCHANGED phase

End == phase' = "out" /\ UNCHANGED member

\* It stops waiting and goes on as before.
Forgo == UNCHANGED <<phase, member>>

\* What was asked for long ago is done at last.
Overtaken ==
    /\ \/ "register" \in overdue /\ member' = TRUE
       \/ "deregister" \in overdue /\ member' = FALSE
    /\ UNCHANGED phase

\* What an agent of this phase may be waiting for.
Requested ==
    CASE phase \in {"joining", "leaving"} -> {"register"}
      [] phase = "left"                   -> {"deregister"}
      [] OTHER                            -> {}

MembershipNext ==
    /\ \/ Join \/ Admit \/ Confirm \/ Rejoin \/ Leave \/ Dismiss \/ End
       \/ Forgo \/ Overtaken
    /\ overdue' \subseteq overdue \cup Requested

MembershipSpec ==
    MembershipInit /\ [][MembershipNext]_<<phase, member, overdue>>
=============================================================================
