---------------------------- MODULE Registration ----------------------------
(***************************************************************************)
(* One instance through MonitorS and its agent: the agent connects,        *)
(* registers and stops (MonitorAgent), the polls read the row, call the    *)
(* agent at the address in it and write the row back, and clients of the   *)
(* HTTP API write it as well, over either registry (RegistryStore).  The   *)
(* table may refuse a write, the map never does.                           *)
(*                                                                         *)
(* With SQLite a poll works on a copy of the row.  With the map it works   *)
(* on the row itself until the row is deleted, and from then on on a row   *)
(* that only the poll knows.                                               *)
(***************************************************************************)
EXTENDS MonitorAgent, RegistryStore

VARIABLES
    kind,     \* the registry MonitorS opened
    row,      \* the row of the instance, Absent if there is none
    poll,     \* the poll goroutine of the instance
    alive,    \* EC2 runs the instance
    orphaned, \* history: MonitorS took the row of the running process away
    origin,   \* history: what the row and the poll go by: the word of the agent,
              \* or that word spoilt by a heartbeat, or the word of anyone else
    blamed    \* history: polls that called the agent at its address and failed,
              \* since a success was stored or it registered between two polls

storeVars == <<row, poll, alive, orphaned, origin, blamed>>
vars      == <<agentVars, kind, storeVars>>

-----------------------------------------------------------------------------
NoPoll == [step |-> "none", target |-> FALSE, shared |-> FALSE, copy |-> Absent]

Init ==
    /\ AgentInit
    /\ kind \in Kinds
    /\ row = Absent
    /\ poll = NoPoll
    /\ alive = TRUE
    /\ orphaned = FALSE
    /\ origin = "anyone"
    /\ blamed = 0

Register(body) == row' = Registered(kind, row, body)

\* The histories end when neither a row nor a poll is left.
KeepOrigin ==
    IF row' = Absent /\ poll' = NoPoll
    THEN origin' = "anyone" /\ blamed' = 0
    ELSE UNCHANGED <<origin, blamed>>

\* A poll that worked on the row itself is left with it.
Detached == IF poll.shared THEN [poll EXCEPT !.shared = FALSE, !.copy = row] ELSE poll

\* Mutant: Deregister marks the row instead.
MarkInactive ==
    /\ row' = [row EXCEPT !.active = FALSE]
    /\ UNCHANGED poll

Delete ==
    /\ row' = Absent
    /\ poll' = Detached

-----------------------------------------------------------------------------
\* The scheduler: one poll of the instance at a time.

StartPoll ==
    /\ server
    /\ poll = NoPoll
    /\ row # Absent
    /\ row.active
    /\ poll' = [step |-> "dial", target |-> AtAgent(row),
                shared |-> kind = "memory",
                copy |-> IF kind = "memory" THEN Absent ELSE row]
    /\ UNCHANGED <<agentVars, kind, row, alive, orphaned, origin, blamed>>

\* The row the poll reads and changes.
Polled == IF poll.shared THEN row ELSE poll.copy

\* Ends the dial with a new meta, in the shared row or in the copy.  The handler
\* of a dead instance gets a copy in either case.
Concludes(step, meta) ==
    LET after == [Polled EXCEPT !.meta = meta]
        shared == poll.shared /\ step = "write"
    IN  /\ poll' = [step |-> step, target |-> FALSE, shared |-> shared,
                    copy |-> IF shared THEN Absent ELSE after]
        /\ row' = IF poll.shared THEN after ELSE row

PollOk ==
    /\ poll.step = "dial"
    /\ poll.target
    /\ main # "down"
    /\ ~told
    /\ Concludes("write", [Polled.meta EXCEPT !.failures = 0])
    /\ UNCHANGED <<agentVars, kind, alive, orphaned, origin, blamed>>

\* Mutant: a failure is not counted.
UncountedFailure(meta) == meta

CountedFailure(meta) ==
    [meta EXCEPT !.failures = IF @ < MaxFailures THEN @ + 1 ELSE @]

Exhausted(meta) == meta.failures >= MaxFailures

\* The agent is gone, refuses or is too slow, the network fails, or the row
\* has not got the instance's address.
PollFails ==
    LET meta == CountedFailure(Polled.meta)
    IN  /\ poll.step = "dial"
        /\ Concludes(IF Exhausted(meta) THEN "terminate" ELSE "write", meta)
        /\ blamed' = IF poll.target /\ blamed < MaxFailures
                     THEN blamed + 1 ELSE blamed
        /\ UNCHANGED <<agentVars, kind, alive, orphaned, origin>>

WriteBack ==
    /\ poll.step = "write"
    /\ Register(PolledBody(Polled))
    /\ poll' = NoPoll
    /\ blamed' = IF Polled.meta.failures = 0 THEN 0 ELSE blamed
    /\ listed' = TRUE
    /\ UNCHANGED <<process, late, server, kind, alive, orphaned, origin>>

\* The table refuses the row, and the poll drops the error.
WriteRefused ==
    /\ poll.step = "write"
    /\ kind = "sqlite"
    /\ poll' = NoPoll
    /\ UNCHANGED <<agentVars, kind, row, alive, orphaned, origin, blamed>>

\* HandleDeadInstance; PollScheduler has the replacement.
TerminateDead ==
    /\ poll.step = "terminate"
    /\ alive' = FALSE
    /\ Ended
    /\ orphaned' = FALSE
    /\ poll' = [NoPoll EXCEPT !.step = "delete"]
    /\ UNCHANGED <<server, listed, kind, row, origin, blamed>>

\* EC2 refuses, after the agent may have got its Shutdown; the row goes anyway.
TerminateRefused ==
    /\ poll.step = "terminate"
    /\ told' \in {told, told \/ (main # "down" /\ AtAgent(Polled))}
    /\ poll' = [NoPoll EXCEPT !.step = "delete"]
    /\ UNCHANGED <<main, loop, link, conns, client, wire, reply, late, server,
                   listed, kind, row, alive, orphaned, origin, blamed>>

DeleteDead ==
    /\ poll.step = "delete"
    /\ row' = Absent
    /\ poll' = NoPoll
    /\ listed' = FALSE
    /\ orphaned' = (main = "running")
    /\ KeepOrigin
    /\ UNCHANGED <<process, late, server, kind, alive>>

DeleteRefused ==
    /\ poll.step = "delete"
    /\ kind = "sqlite"
    /\ poll' = NoPoll
    /\ UNCHANGED <<agentVars, kind, row, alive, orphaned, origin, blamed>>

-----------------------------------------------------------------------------
\* The HTTP API, used by anyone who knows or makes up an id.

HttpCall(body) ==
    /\ server
    /\ Register(body)
    /\ listed' = TRUE
    /\ UNCHANGED <<process, late, server, kind, poll, alive, orphaned, blamed>>

\* A body with nothing untrue of the agent in it, and nothing left out that the
\* registry has not got.
Harmless(body) ==
    /\ body.ip # "other"
    /\ body.meta = NoMeta
    /\ body.ip = "none" => kind = "memory" /\ row # Absent

Heartbeat ==
    /\ HttpCall(HeartbeatBody)
    /\ origin' = IF origin = "agent" /\ ~Harmless(HeartbeatBody)
                 THEN "heartbeat" ELSE origin

HttpRegister ==
    \E body \in ClientBodies :
        /\ HttpCall(body)
        /\ origin' = IF Harmless(body) THEN origin ELSE "anyone"

-----------------------------------------------------------------------------
\* The agent's calls, and the life of both hosts.

\* The agent's own word counts unless a poll may still write back another's.
RegisterAgent ==
    /\ Register(AgentBody)
    /\ orphaned' = FALSE
    /\ IF poll = NoPoll THEN origin' = "agent" /\ blamed' = 0
                        ELSE UNCHANGED <<origin, blamed>>
    /\ UNCHANGED <<kind, poll, alive>>

AgentRegisters == HandleRegister /\ RegisterAgent

RegistersLate == HandleLate("register") /\ RegisterAgent

DeregisterAgent ==
    /\ Delete
    /\ orphaned' = (main = "running")
    /\ KeepOrigin
    /\ UNCHANGED <<kind, alive>>

AgentDeregisters == HandleDeregister /\ DeregisterAgent

DeregistersLate == HandleLate("deregister") /\ DeregisterAgent

\* MonitorS goes down with its goroutines, and the map with it.
MonitorSStops ==
    /\ GoesDown
    /\ poll' = NoPoll
    /\ IF kind = "memory" THEN row' = Absent /\ listed' = FALSE
                          ELSE UNCHANGED <<row, listed>>
    /\ KeepOrigin
    /\ UNCHANGED <<kind, alive, orphaned>>

InstanceLost ==
    /\ alive
    /\ alive' = FALSE
    /\ Ended
    /\ orphaned' = FALSE
    /\ UNCHANGED <<server, listed, kind, row, poll, origin, blamed>>

\* Another instance, once nothing is left of this one.
NewInstance ==
    /\ ~alive
    /\ row = Absent
    /\ poll = NoPoll
    /\ late = NoneLate
    /\ alive' = TRUE
    /\ UNCHANGED <<agentVars, kind, row, poll, orphaned, origin, blamed>>

\* What the agent and the network do without touching the registry.
AgentAlone ==
    /\ \/ alive /\ (Boot \/ Reconnector \/ Main \/ Kill)
       \/ Shutdown \/ RejectRegister \/ LoseConnection \/ Reconnect
       \/ ServerStarts
    /\ orphaned' = (orphaned /\ main' = "running")
    /\ UNCHANGED <<kind, row, poll, alive, origin, blamed>>

Refusal == WriteRefused \/ DeleteRefused

MonitorSPolls ==
    \/ StartPoll \/ PollOk \/ PollFails \/ WriteBack
    \/ TerminateDead \/ TerminateRefused \/ DeleteDead \/ Refusal

Next ==
    \/ AgentAlone
    \/ AgentRegisters \/ AgentDeregisters \/ RegistersLate \/ DeregistersLate
    \/ MonitorSPolls
    \/ Heartbeat \/ HttpRegister
    \/ MonitorSStops \/ InstanceLost \/ NewInstance

Spec == Init /\ [][Next]_vars

\* The goroutines of the agent and of MonitorS run and their waits end; what the
\* agent tries again and again works in the end.
Fairness ==
    /\ WF_vars(Reconnector /\ UNCHANGED <<kind, storeVars>>)
    /\ SF_vars(Connect /\ UNCHANGED <<kind, storeVars>>)
    /\ SF_vars(AgentRegisters)
    /\ WF_vars(MonitorSPolls)

FairSpec == Spec /\ Fairness

-----------------------------------------------------------------------------
\* Types; and the agent's row is there for it exactly when the registry has it.
TypeOK ==
    /\ AgentTypeOK
    /\ kind \in Kinds
    /\ row \in Row \cup {Absent}
    /\ poll.step \in {"none", "dial", "write", "terminate", "delete"}
    /\ poll.copy \in Row \cup {Absent}
    /\ orphaned \in BOOLEAN
    /\ origin \in {"agent", "heartbeat", "anyone"}
    /\ blamed \in 0..MaxFailures
    /\ listed <=> row # Absent

\* monitor.go:229: an instance whose row is its agent's word is declared dead
\* only after MaxFailures polls that called that agent failed, whichever row
\* object a poll works on, whatever writes are refused or handled late, and
\* through heartbeats and clients that leave out what the map remembers.
DeadByItsOwnFailures ==
    poll.step = "terminate" /\ origin = "agent" => blamed >= MaxFailures

\* service/monitor.go:33, "Heartbeat updates last-seen status": neither do
\* heartbeats change that.
HeartbeatOnlyRefreshes ==
    poll.step = "terminate" /\ origin \in {"agent", "heartbeat"} =>
        blamed >= MaxFailures

\* main.go:227-267: an agent that keeps running while MonitorS, on a registry
\* that outlives it, is up ends up registered for good, through rejections,
\* timeouts, lost connections and earlier restarts of either; unless MonitorS
\* takes the row away from it, by a refused termination (asg.go:461-464) or an
\* overdue Deregister, while its connection stays healthy.
EventuallyRegistered ==
    <>[](server /\ main = "running" /\ kind = "sqlite" /\ ~orphaned)
        => <>[]listed

Undisturbed == <>[][~(Heartbeat \/ HttpRegister \/ Refusal)]_vars

\* HU-22 on either registry (inmemory.go:22-56, monitor.go:343-381): the row of
\* an instance that is gone stops counting as active, although a poll that still
\* holds the deleted row, or a Register handled late, may put it back.
LostInstanceForgotten ==
    <>[]server /\ Undisturbed => (~alive /\ row.active ~> ~row.active)
=============================================================================
