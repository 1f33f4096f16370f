------------------------- MODULE RegistrationProofs -------------------------
(***************************************************************************)
(* The agent and its connection, through every interleaving of its two     *)
(* goroutines with MonitorS and the network; and the bookkeeping of its    *)
(* failures in either registry.                                            *)
(***************************************************************************)
EXTENDS Registration, TLAPS

Open == {"register", "watch", "close"}

\* What the two goroutines keep up between them: a connection is open exactly
\* in three states of the reconnector, only its own Register is ever answered,
\* and main deregisters over a connection that was registered.
ConnInv ==
    /\ AgentTypeOK
    /\ conns = IF loop \in Open THEN 1 ELSE 0
    /\ main = "down" <=> loop = "none"
    /\ client => loop = "watch"
    /\ "register" \in wire => loop = "register" /\ reply = "none"
    /\ reply # "none" => loop = "register"
    /\ main = "deregistering" => loop \in {"watch", "close", "ended"}
    /\ "deregister" \in wire => main = "deregistering" /\ loop \in {"watch", "close"}

\* Requests given up on are no longer waited for; some of them are overdue.
LEMMA Abandoned ==
    ASSUME late \in [Requests -> 0..MaxLate], wire \subseteq Requests,
           NEW requests, Abandon(requests)
    PROVE  /\ wire' = wire \ requests
           /\ late' \in [Requests -> 0..MaxLate]
           /\ Overdue' \subseteq Overdue \cup (wire \cap requests)
<1>1. wire' = wire \ requests
  BY DEF Abandon
<1>2. CASE UNCHANGED late
  BY <1>1, <1>2 DEF Overdue
<1>3. CASE ~UNCHANGED late
  <2>1. PICK q \in wire \cap requests : late' = [late EXCEPT ![q] = @ + 1]
    BY <1>3 DEF Abandon
  <2>2. late["register"] + late["deregister"] < MaxLate
    BY <1>3 DEF Abandon
  <2>3. q \in Requests /\ late[q] \in Nat /\ late[q] < MaxLate
    BY <2>1, <2>2, LateAssumption DEF Requests
  <2>4. late' \in [Requests -> 0..MaxLate]
    BY <2>1, <2>3, LateAssumption
  <2>5. \A x \in Requests : x # q => late'[x] = late[x]
    BY <2>1
  <2> QED
    BY <1>1, <2>1, <2>4, <2>5 DEF Overdue
<1> QED
  BY <1>2, <1>3

LEMMA InitConn ==
    ASSUME AgentInit
    PROVE  ConnInv
<1>1. AgentTypeOK
  <2>1. NoneLate \in [Requests -> 0..MaxLate]
    BY LateAssumption DEF NoneLate
  <2> QED
    BY <2>1 DEF AgentInit, AgentTypeOK
<1>2. ~client
  BY DEF AgentInit
<1> QED
  BY <1>1, <1>2 DEF AgentInit, ConnInv, Open

LEMMA ReconnectorConn ==
    ASSUME ConnInv, Reconnector
    PROVE  ConnInv'
<1> USE DEF ConnInv, AgentTypeOK, Open
<1>1. CASE Connect
  BY <1>1 DEF Connect, Requests
<1>2. CASE ConnectFails
  BY <1>2 DEF ConnectFails
<1>3. CASE Accepted
  BY <1>3 DEF Accepted
<1>4. CASE GiveUp
  <2>1. wire' = wire \ Requests /\ late' \in [Requests -> 0..MaxLate]
    BY <1>4, Abandoned DEF GiveUp
  <2> QED
    BY <1>4, <2>1 DEF GiveUp, Requests
<1>5. CASE Retry
  BY <1>5 DEF Retry
<1>6. CASE LeaveWatch
  BY <1>6 DEF LeaveWatch
<1>7. CASE CloseConnection
  <2>1. wire' = wire \ Requests /\ late' \in [Requests -> 0..MaxLate]
    BY <1>7, Abandoned DEF CloseConnection
  <2> QED
    BY <1>7, <2>1 DEF CloseConnection, Requests
<1>8. CASE Quit
  BY <1>8 DEF Quit
<1> QED
  BY <1>1, <1>2, <1>3, <1>4, <1>5, <1>6, <1>7, <1>8 DEF Reconnector

LEMMA EndedConn ==
    ASSUME ConnInv, Ended, server' \in BOOLEAN, listed' \in BOOLEAN
    PROVE  ConnInv'
<1>1. wire' = {} /\ late' \in [Requests -> 0..MaxLate]
  BY Abandoned DEF Ended, ConnInv, AgentTypeOK
<1> QED
  BY <1>1 DEF Ended, ConnInv, AgentTypeOK, Open

LEMMA MainConn ==
    ASSUME ConnInv, Main
    PROVE  ConnInv'
<1> USE DEF ConnInv, AgentTypeOK
<1>1. CASE Interrupt
  BY <1>1 DEF Interrupt
<1>2. CASE Deregister
  BY <1>2 DEF Deregister, Requests
<1>3. CASE SkipDeregister
  BY <1>3 DEF SkipDeregister
<1>4. CASE DeregisterReturns
  <2>1. /\ wire' = wire \ {"deregister"}
        /\ late' \in [Requests -> 0..MaxLate]
    BY <1>4, Abandoned DEF DeregisterReturns
  <2> QED
    BY <1>4, <2>1 DEF DeregisterReturns
<1>5. CASE Exit
  BY <1>5, EndedConn DEF Exit
<1> QED
  BY <1>1, <1>2, <1>3, <1>4, <1>5 DEF Main

LEMMA LinkBreaksConn ==
    ASSUME ConnInv, LinkBreaks, wire' = {}, late' \in [Requests -> 0..MaxLate],
           server' \in BOOLEAN, listed' \in BOOLEAN
    PROVE  ConnInv'
BY LossAssumption DEF LinkBreaks, ConnInv, AgentTypeOK

\* MonitorS takes all requests with it.
LEMMA GoesDownConn ==
    ASSUME ConnInv, GoesDown, listed' \in BOOLEAN
    PROVE  ConnInv'
<1>1. late' \in [Requests -> 0..MaxLate]
  BY LateAssumption DEF GoesDown, NoneLate
<1> QED
  BY <1>1, LinkBreaksConn DEF GoesDown

LEMMA HandledConn ==
    ASSUME ConnInv, HandleRegister \/ RejectRegister \/ HandleDeregister
    PROVE  ConnInv'
<1> USE DEF ConnInv, AgentTypeOK, Requests
<1>1. CASE HandleRegister
  BY <1>1 DEF HandleRegister
<1>2. CASE RejectRegister
  BY <1>2 DEF RejectRegister
<1>3. CASE HandleDeregister
  BY <1>3 DEF HandleDeregister
<1> QED
  BY <1>1, <1>2, <1>3

LEMMA LateConn ==
    ASSUME ConnInv, NEW q \in Requests, HandleLate(q)
    PROVE  ConnInv'
<1>1. late' \in [Requests -> 0..MaxLate]
  <2>1. late[q] \in 0..MaxLate /\ late[q] > 0
    BY DEF HandleLate, ConnInv, AgentTypeOK
  <2>2. late[q] - 1 \in 0..MaxLate
    BY <2>1, LateAssumption
  <2> QED
    BY <2>2 DEF HandleLate, ConnInv, AgentTypeOK
<1> QED
  BY <1>1 DEF HandleLate, process, ConnInv, AgentTypeOK

LEMMA AgentConn ==
    ASSUME ConnInv, [AgentNext]_agentVars
    PROVE  ConnInv'
<1>1. CASE Boot
  BY <1>1 DEF Boot, ConnInv, AgentTypeOK, Open
<1>2. CASE Reconnector
  BY <1>2, ReconnectorConn
<1>3. CASE Main
  BY <1>3, MainConn
<1>4. CASE Kill
  BY <1>4, EndedConn DEF Kill, ConnInv, AgentTypeOK
<1>5. CASE Shutdown
  BY <1>5 DEF Shutdown, ConnInv, AgentTypeOK
<1>6. CASE HandleRegister \/ RejectRegister \/ HandleDeregister
  BY <1>6, HandledConn
<1>7. CASE LoseConnection
  <2>1. wire' = {} /\ late' \in [Requests -> 0..MaxLate]
    BY <1>7, Abandoned DEF LoseConnection, ConnInv, AgentTypeOK
  <2> QED
    BY <1>7, <2>1, LinkBreaksConn DEF LoseConnection, ConnInv, AgentTypeOK
<1>8. CASE Reconnect
  BY <1>8 DEF Reconnect, ConnInv, AgentTypeOK
<1>9. CASE ServerStops
  BY <1>9, GoesDownConn DEF ServerStops, ConnInv, AgentTypeOK
<1>10. CASE ServerStarts
  BY <1>10 DEF ServerStarts, process, ConnInv, AgentTypeOK
<1>11. CASE UNCHANGED agentVars
  BY <1>11 DEF agentVars, process, ConnInv, AgentTypeOK
<1>12. CASE HandleLate("register") \/ HandleLate("deregister")
  BY <1>12, LateConn DEF Requests
<1> QED
  BY <1>1, <1>2, <1>3, <1>4, <1>5, <1>6, <1>7, <1>8, <1>9, <1>10, <1>11, <1>12
     DEF AgentNext

LEMMA AgentInvariant == AgentSpec => []ConnInv
<1> QED
  BY InitConn, AgentConn, PTL DEF AgentSpec

\* The agent's state keeps its types.
THEOREM AgentTyped == AgentSpec => []AgentTypeOK
<1>1. ConnInv => AgentTypeOK
  BY DEF ConnInv
<1> QED
  BY <1>1, AgentInvariant, PTL

\* main.go:192-204, 261: the agent never holds more than one connection, and
\* none while it waits to dial again.
THEOREM AtMostOneConnection == AgentSpec => []OneConnection
<1>1. ConnInv => OneConnection
  BY DEF ConnInv, Open, OneConnection
<1> QED
  BY <1>1, AgentInvariant, PTL

\* main.go:254-261, 413-417: main only deregisters with a client that was
\* registered and is still watched.
THEOREM OnlyRegisteredClients == AgentSpec => []ClientRegistered
<1>1. ConnInv => ClientRegistered
  BY DEF ConnInv, ClientRegistered
<1> QED
  BY <1>1, AgentInvariant, PTL

-----------------------------------------------------------------------------
\* The agent as a member.

LEMMA InitMember ==
    ASSUME AgentInit
    PROVE  Member!MembershipInit
BY DEF AgentInit, NoneLate, Overdue, Member!MembershipInit, MemberPhase

\* MemberPhase by cases, before and after a step.
LEMMA Phases ==
    /\ main = "down" => MemberPhase = "out"
    /\ main = "running" /\ loop = "watch" => MemberPhase = "member"
    /\ main = "running" /\ loop # "watch" /\ reply = "accepted" =>
           MemberPhase = "admitted"
    /\ main = "running" /\ loop # "watch" /\ reply # "accepted" =>
           MemberPhase = "joining"
    /\ main = "interrupted" => MemberPhase = "leaving"
    /\ main \in {"deregistering", "stopping"} /\ "register" \in wire =>
           MemberPhase = "leaving"
    /\ main \in {"deregistering", "stopping"} /\ "register" \notin wire =>
           MemberPhase = "left"
BY DEF MemberPhase

LEMMA PhasesAfter ==
    /\ main' = "down" => MemberPhase' = "out"
    /\ main' = "running" /\ loop' = "watch" => MemberPhase' = "member"
    /\ main' = "running" /\ loop' # "watch" /\ reply' = "accepted" =>
           MemberPhase' = "admitted"
    /\ main' = "running" /\ loop' # "watch" /\ reply' # "accepted" =>
           MemberPhase' = "joining"
    /\ main' = "interrupted" => MemberPhase' = "leaving"
    /\ main' \in {"deregistering", "stopping"} /\ "register" \in wire' =>
           MemberPhase' = "leaving"
    /\ main' \in {"deregistering", "stopping"} /\ "register" \notin wire' =>
           MemberPhase' = "left"
BY DEF MemberPhase

\* What an agent waits for is what an agent of its phase may wait for.
LEMMA WaitsForRequested ==
    ASSUME ConnInv
    PROVE  wire \subseteq Member!Requested
<1>1. "register" \in wire => MemberPhase \in {"joining", "leaving"}
  BY Phases DEF ConnInv, AgentTypeOK
<1>2. "deregister" \in wire => MemberPhase = "left"
  BY Phases DEF ConnInv, AgentTypeOK
<1> QED
  BY <1>1, <1>2 DEF ConnInv, AgentTypeOK, Requests, Member!Requested

\* So giving up makes only such requests overdue.
LEMMA OverdueAfter ==
    ASSUME ConnInv, NEW requests, Abandon(requests)
    PROVE  Overdue' \subseteq Overdue \cup Member!Requested
BY Abandoned, WaitsForRequested DEF ConnInv, AgentTypeOK

LEMMA SameOverdue ==
    ASSUME UNCHANGED late
    PROVE  Overdue' \subseteq Overdue \cup Member!Requested
BY DEF Overdue

\* A step of MembershipNext or none that it sees.
MembershipStep == [Member!MembershipNext]_<<MemberPhase, listed, Overdue>>

LEMMA EndedMember ==
    ASSUME ConnInv, Ended, listed' = listed
    PROVE  MembershipStep
<1>1. Overdue' \subseteq Overdue \cup Member!Requested
  BY OverdueAfter DEF Ended
<1> QED
  BY <1>1, PhasesAfter
     DEF Ended, MembershipStep, Member!MembershipNext, Member!End

LEMMA ReconnectorMember ==
    ASSUME ConnInv, Reconnector
    PROVE  MembershipStep
<1> USE Phases, PhasesAfter
    DEF ConnInv, AgentTypeOK, MembershipStep, Member!MembershipNext
<1>1. CASE Connect
  BY <1>1, SameOverdue DEF Connect, Member!Forgo
<1>2. CASE ConnectFails
  BY <1>2, SameOverdue DEF ConnectFails, Member!Forgo
<1>3. CASE Accepted
  BY <1>3, SameOverdue DEF Accepted, Member!Confirm, Member!Forgo
<1>4. CASE GiveUp
  <2>1. Overdue' \subseteq Overdue \cup Member!Requested
    BY <1>4, OverdueAfter DEF GiveUp
  <2>2. "register" \notin wire'
    BY <1>4, Abandoned DEF GiveUp, Requests
  <2> QED
    BY <1>4, <2>1, <2>2
       DEF GiveUp, Member!Rejoin, Member!Leave, Member!Forgo
<1>5. CASE Retry
  BY <1>5, SameOverdue DEF Retry, Member!Forgo
<1>6. CASE LeaveWatch
  BY <1>6, SameOverdue DEF LeaveWatch, Member!Rejoin, Member!Forgo
<1>7. CASE CloseConnection
  <2>1. Overdue' \subseteq Overdue \cup Member!Requested
    BY <1>7, OverdueAfter DEF CloseConnection
  <2>2. "register" \notin wire'
    BY <1>7, Abandoned DEF CloseConnection, Requests
  <2> QED
    BY <1>7, <2>1, <2>2 DEF CloseConnection, Member!Forgo
<1>8. CASE Quit
  BY <1>8, SameOverdue DEF Quit, Member!Forgo
<1> QED
  BY <1>1, <1>2, <1>3, <1>4, <1>5, <1>6, <1>7, <1>8 DEF Reconnector

LEMMA MainMember ==
    ASSUME ConnInv, Main
    PROVE  MembershipStep
<1> USE Phases, PhasesAfter
    DEF ConnInv, AgentTypeOK, MembershipStep, Member!MembershipNext
<1>1. CASE Interrupt
  BY <1>1, SameOverdue DEF Interrupt, Member!Leave
<1>2. CASE Deregister
  BY <1>2, SameOverdue DEF Deregister, Member!Leave
<1>3. CASE SkipDeregister
  BY <1>3, SameOverdue DEF SkipDeregister, Member!Leave
<1>4. CASE DeregisterReturns
  <2>1. Overdue' \subseteq Overdue \cup Member!Requested
    BY <1>4, OverdueAfter DEF DeregisterReturns
  <2>2. "register" \notin wire'
    BY <1>4, Abandoned DEF DeregisterReturns
  <2> QED
    BY <1>4, <2>1, <2>2 DEF DeregisterReturns, Member!Forgo
<1>5. CASE Exit
  BY <1>5, EndedMember DEF Exit
<1> QED
  BY <1>1, <1>2, <1>3, <1>4, <1>5 DEF Main

\* The agent loses its answer and what it waits for.
LEMMA LinkBreaksMember ==
    ASSUME ConnInv, LinkBreaks, wire' = {}, listed' = listed,
           Overdue' \subseteq Overdue \cup Member!Requested
    PROVE  MembershipStep
BY Phases, PhasesAfter
   DEF ConnInv, AgentTypeOK, LinkBreaks, MembershipStep,
       Member!MembershipNext, Member!Leave, Member!Rejoin, Member!Forgo

LEMMA HandledMember ==
    ASSUME ConnInv, HandleRegister \/ RejectRegister \/ HandleDeregister
    PROVE  MembershipStep
<1> USE Phases, PhasesAfter, SameOverdue
    DEF ConnInv, AgentTypeOK, MembershipStep, Member!MembershipNext
<1>1. CASE HandleRegister
  BY <1>1 DEF HandleRegister, Member!Admit
<1>2. CASE RejectRegister
  BY <1>2 DEF RejectRegister, Member!Leave, Member!Forgo
<1>3. CASE HandleDeregister
  BY <1>3 DEF HandleDeregister, Member!Dismiss
<1> QED
  BY <1>1, <1>2, <1>3

LEMMA LateMember ==
    ASSUME ConnInv, NEW q \in Requests, HandleLate(q)
    PROVE  MembershipStep
<1>1. q \in Overdue
  BY DEF HandleLate, Overdue
<1>2. Overdue' \subseteq Overdue
  <2>1. \A x \in Requests : x # q => late'[x] = late[x]
    BY DEF HandleLate, ConnInv, AgentTypeOK
  <2> QED
    BY <1>1, <2>1 DEF Overdue
<1>3. MemberPhase' = MemberPhase
  BY DEF HandleLate, process, MemberPhase
<1>4. listed' = (q = "register")
  BY DEF HandleLate
<1>5. Member!Overtaken
  BY <1>1, <1>3, <1>4 DEF Requests, Member!Overtaken
<1> QED
  BY <1>2, <1>5 DEF MembershipStep, Member!MembershipNext

LEMMA AgentMember ==
    ASSUME ConnInv, [AgentNext]_agentVars
    PROVE  MembershipStep
<1> USE Phases, PhasesAfter
    DEF ConnInv, AgentTypeOK, MembershipStep, Member!MembershipNext
<1>1. CASE Boot
  BY <1>1, SameOverdue DEF Boot, Member!Join
<1>2. CASE Reconnector
  BY <1>2, ReconnectorMember
<1>3. CASE Main
  BY <1>3, MainMember
<1>4. CASE Kill
  BY <1>4, EndedMember DEF Kill
<1>5. CASE Shutdown
  BY <1>5, SameOverdue DEF Shutdown, Member!Forgo
<1>6. CASE HandleRegister \/ RejectRegister \/ HandleDeregister
  BY <1>6, HandledMember
<1>7. CASE LoseConnection
  <2>1. Overdue' \subseteq Overdue \cup Member!Requested
    BY <1>7, OverdueAfter DEF LoseConnection
  <2>2. wire' = {}
    BY <1>7, Abandoned DEF LoseConnection
  <2> QED
    BY <1>7, <2>1, <2>2, LinkBreaksMember DEF LoseConnection
<1>8. CASE Reconnect
  BY <1>8, SameOverdue DEF Reconnect, Member!Forgo
<1>9. CASE ServerStops
  <2>1. Overdue' = {}
    BY <1>9 DEF ServerStops, GoesDown, NoneLate, Overdue
  <2> QED
    BY <1>9, <2>1, LinkBreaksMember DEF ServerStops, GoesDown
<1>10. CASE ServerStarts
  BY <1>10, SameOverdue DEF ServerStarts, process, Member!Forgo
<1>11. CASE HandleLate("register") \/ HandleLate("deregister")
  BY <1>11, LateMember DEF Requests
<1>12. CASE UNCHANGED agentVars
  BY <1>12 DEF agentVars, process, MemberPhase, Overdue
<1> QED
  BY <1>1, <1>2, <1>3, <1>4, <1>5, <1>6, <1>7, <1>8, <1>9, <1>10, <1>11, <1>12
     DEF AgentNext

\* HU-01: the agent, its connection and MonitorS implement Membership, through
\* every loss, rejection, interrupt, kill and restart, and with requests that
\* MonitorS handles after their caller gave up.
THEOREM MembershipImplemented == AgentSpec => ImplementsMembership
<1>1. AgentInit => Member!MembershipInit
  BY InitMember
<1>2. ConnInv /\ [AgentNext]_agentVars =>
          [Member!MembershipNext]_<<MemberPhase, listed, Overdue>>
  BY AgentMember DEF MembershipStep
<1> QED
  BY <1>1, <1>2, AgentInvariant, PTL DEF AgentSpec, ImplementsMembership,
     Member!MembershipSpec

-----------------------------------------------------------------------------
\* The registry and the polls.

PollRecord ==
    [step   : {"none", "dial", "write", "terminate", "delete"},
     target : BOOLEAN,
     shared : BOOLEAN,
     copy   : Row \cup {Absent}]

Typed ==
    /\ ConnInv
    /\ kind \in Kinds
    /\ row \in Row \cup {Absent}
    /\ poll \in PollRecord
    /\ alive \in BOOLEAN
    /\ orphaned \in BOOLEAN
    /\ origin \in {"agent", "heartbeat", "anyone"}
    /\ blamed \in 0..MaxFailures
    /\ listed <=> row # Absent

Polling == poll.step \in {"dial", "write"}

\* A poll that reads or writes a row has one: the stored one or its own.
PollInv ==
    /\ poll.shared => row \in Row /\ kind = "memory" /\ Polling
    /\ Polling /\ ~poll.shared => poll.copy \in Row

\* A row of the agent: its address, and no failure it was not called for.
Sound(r) == r \in Row => AtAgent(r) /\ r.meta.failures <= blamed

\* By the agent's word polls call the agent, and blame it as often as they did.
BlameInv ==
    origin = "agent" =>
        /\ Sound(row)
        /\ Polling /\ ~poll.shared => Sound(poll.copy)
        /\ poll.step = "dial" => poll.target
        /\ poll.step = "terminate" => blamed = MaxFailures

RegistrationInv == Typed /\ PollInv /\ BlameInv

LEMMA Metas ==
    /\ NoMeta \in Meta
    /\ NoMeta.failures = 0
    /\ Absent \notin Row
    /\ \A r \in Row : /\ r.ip \in {"none", "own", "other"}
                      /\ r.active \in BOOLEAN
                      /\ r.meta \in Meta
    /\ \A m \in Meta : m.failures \in 0..MaxFailures
BY FailuresAssumption DEF Meta, NoMeta, Row, Absent

\* What Register leaves in the row.
LEMMA RegisteredRow ==
    ASSUME NEW k \in Kinds, NEW r \in Row \cup {Absent}, NEW b \in Body
    PROVE  LET after == Registered(k, r, b)
               keeps == k = "memory" /\ r \in Row
           IN  /\ after \in Row
               /\ after.ip = IF keeps /\ b.ip = "none" THEN r.ip ELSE b.ip
               /\ after.meta = IF keeps /\ ~b.withMeta THEN r.meta ELSE b.meta
<1>1. CASE k = "sqlite"
  BY <1>1 DEF Registered, SQLiteRow, Row, Body
<1>2. CASE k = "memory" /\ r = Absent
  BY <1>2, Metas DEF Registered, NewMemoryRow, Row, Body
<1>3. CASE k = "memory" /\ r # Absent
  <2>1. r \in Row
    BY <1>3
  <2>2. Registered(k, r, b) = MergedRow(r, b)
    BY <1>3 DEF Registered
  <2>3. /\ MergedRow(r, b) \in Row
        /\ MergedRow(r, b).ip = IF b.ip = "none" THEN r.ip ELSE b.ip
        /\ MergedRow(r, b).meta = IF b.withMeta THEN b.meta ELSE r.meta
    BY <2>1 DEF MergedRow, Row, Body
  <2> QED
    BY <1>3, <2>1, <2>2, <2>3 DEF Body
<1> QED
  BY <1>1, <1>2, <1>3 DEF Kinds

LEMMA Bodies ==
    /\ AgentBody \in Body
    /\ HeartbeatBody \in Body
    /\ \A r \in Row : PolledBody(r) \in Body
BY Metas DEF AgentBody, HeartbeatBody, PolledBody, Body

LEMMA InitRegistration == Init => RegistrationInv
<1> SUFFICES ASSUME Init PROVE RegistrationInv
  OBVIOUS
<1>1. ConnInv
  BY InitConn DEF Init
<1>2. poll \in PollRecord /\ poll.step = "none" /\ ~poll.shared
  BY DEF Init, NoPoll, PollRecord
<1>3. ~listed /\ row = Absent
  BY DEF Init, AgentInit
<1>4. blamed \in 0..MaxFailures
  BY FailuresAssumption DEF Init
<1>5. Typed
  BY <1>1, <1>2, <1>3, <1>4 DEF Init, Typed
<1> QED
  BY <1>2, <1>5 DEF Init, RegistrationInv, PollInv, BlameInv, Polling

LEMMA SameAgentConn ==
    ASSUME ConnInv, UNCHANGED <<process, late, server>>, listed' \in BOOLEAN
    PROVE  ConnInv'
BY DEF process, ConnInv, AgentTypeOK

\* Steps that leave the row, the poll and their histories alone.
LEMMA SameStore ==
    ASSUME RegistrationInv, ConnInv', UNCHANGED <<kind, row, poll, origin, blamed>>,
           listed' = listed, alive' \in BOOLEAN, orphaned' \in BOOLEAN
    PROVE  RegistrationInv'
BY DEF RegistrationInv, Typed, PollInv, BlameInv, Sound, AtAgent, Polling

LEMMA AloneStep ==
    ASSUME RegistrationInv, AgentAlone
    PROVE  RegistrationInv'
<1>1. AgentNext /\ listed' = listed
  BY DEF AgentAlone, AgentNext, Boot, Reconnector, Connect, ConnectFails,
     Accepted, GiveUp, Retry, LeaveWatch, CloseConnection, Quit, Main,
     Interrupt, Deregister, SkipDeregister, DeregisterReturns, Exit, Kill,
     Shutdown, RejectRegister, LoseConnection, LinkBreaks, Reconnect,
     ServerStarts
<1>2. ConnInv'
  BY <1>1, AgentConn DEF RegistrationInv, Typed
<1>3. UNCHANGED <<kind, row, poll, alive, origin, blamed>> /\ orphaned' \in BOOLEAN
  BY DEF AgentAlone, RegistrationInv, Typed
<1> QED
  BY <1>1, <1>2, <1>3, SameStore DEF RegistrationInv, Typed

\* Steps of others that write the row: the poll goes on as it was.
LEMMA RowWritten ==
    ASSUME RegistrationInv, ConnInv', listed',
           NEW b \in Body, row' = Registered(kind, row, b),
           UNCHANGED <<kind, poll, alive>>, orphaned' \in BOOLEAN,
           origin' \in {"agent", "heartbeat", "anyone"},
           blamed' \in 0..MaxFailures,
           origin' = "agent" => AtAgent(row') /\ row'.meta.failures <= blamed',
           origin' = "agent" =>
               poll = NoPoll \/ (origin = "agent" /\ blamed' = blamed)
    PROVE  RegistrationInv'
<1>1. row' \in Row /\ row' # Absent
  BY RegisteredRow, Metas DEF RegistrationInv, Typed
<1>2. Typed'
  BY <1>1 DEF RegistrationInv, Typed
<1>3. PollInv'
  BY <1>1 DEF RegistrationInv, PollInv, Polling
<1>4. BlameInv'
  <2> SUFFICES ASSUME origin' = "agent" PROVE BlameInv'
    BY DEF BlameInv
  <2>1. Sound(row)'
    BY DEF Sound, AtAgent
  <2>2. CASE poll = NoPoll
    BY <2>1, <2>2 DEF NoPoll, BlameInv, Polling
  <2>3. CASE origin = "agent" /\ blamed' = blamed
    BY <2>1, <2>3
       DEF RegistrationInv, BlameInv, Polling, Sound, AtAgent
  <2> QED
    BY <2>2, <2>3
<1> QED
  BY <1>2, <1>3, <1>4 DEF RegistrationInv

LEMMA RegisterAgentStep ==
    ASSUME RegistrationInv, ConnInv', listed', RegisterAgent
    PROVE  RegistrationInv'
<1>1. row' = Registered(kind, row, AgentBody) /\ AgentBody \in Body
  BY Bodies DEF RegisterAgent, Register
<1>2. AgentBody.ip = "own" /\ AgentBody.meta = NoMeta /\ AgentBody.withMeta = TRUE
  BY DEF AgentBody
<1>3. row'.ip = "own" /\ row'.meta = NoMeta
  BY <1>1, <1>2, RegisteredRow DEF RegistrationInv, Typed
<1>4. AtAgent(row') /\ row'.meta.failures = 0
  BY <1>3, Metas DEF AtAgent, NoMeta
<1>5. /\ UNCHANGED <<kind, poll, alive>>
      /\ orphaned' \in BOOLEAN
      /\ IF poll = NoPoll THEN origin' = "agent" /\ blamed' = 0
                          ELSE UNCHANGED <<origin, blamed>>
  BY DEF RegisterAgent
<1>6. blamed' \in 0..MaxFailures /\ 0 <= blamed'
  BY <1>5, FailuresAssumption DEF RegistrationInv, Typed
<1>7. /\ origin' \in {"agent", "heartbeat", "anyone"}
      /\ origin' = "agent" =>
             poll = NoPoll \/ (origin = "agent" /\ blamed' = blamed)
  BY <1>5 DEF RegistrationInv, Typed
<1> QED
  BY <1>1, <1>4, <1>5, <1>6, <1>7, RowWritten

LEMMA HttpStep ==
    ASSUME RegistrationInv, Heartbeat \/ HttpRegister
    PROVE  RegistrationInv'
<1>1. PICK body \in Body :
          /\ HttpCall(body)
          /\ origin' \in {origin, "heartbeat", "anyone"}
          /\ origin' = "agent" => origin = "agent" /\ Harmless(body)
  BY Bodies, BodiesAssumption DEF Heartbeat, HttpRegister
<1>2. /\ row' = Registered(kind, row, body)
      /\ UNCHANGED <<process, late, server, kind, poll, alive, orphaned, blamed>>
      /\ listed'
  BY <1>1 DEF HttpCall, Register
<1>3. ConnInv'
  BY <1>2, SameAgentConn DEF RegistrationInv, Typed
<1>4. ASSUME origin' = "agent"
      PROVE  AtAgent(row') /\ row'.meta.failures <= blamed
  <2>1. origin = "agent" /\ Harmless(body) /\ Sound(row)
    BY <1>1, <1>4 DEF RegistrationInv, BlameInv
  <2>2. kind \in Kinds /\ row \in Row \cup {Absent} /\ blamed \in Nat
    BY FailuresAssumption DEF RegistrationInv, Typed
  <2>3. /\ row'.ip = IF kind = "memory" /\ row \in Row /\ body.ip = "none"
                     THEN row.ip ELSE body.ip
        /\ row'.meta = IF kind = "memory" /\ row \in Row /\ ~body.withMeta
                       THEN row.meta ELSE body.meta
    BY <1>2, <2>2, RegisteredRow
  <2>4. /\ body.ip \in {"none", "own"}
        /\ body.meta = NoMeta
        /\ body.ip = "none" => kind = "memory" /\ row \in Row
    BY <2>1, <2>2 DEF Harmless, Body
  <2>5. row'.ip = "own"
    BY <2>1, <2>3, <2>4 DEF Sound, AtAgent
  <2>6. row'.meta.port = "own" /\ row'.meta.failures <= blamed
    BY <2>1, <2>2, <2>3, <2>4, Metas DEF Sound, AtAgent, NoMeta
  <2> QED
    BY <2>5, <2>6 DEF AtAgent
<1> QED
  BY <1>1, <1>2, <1>3, <1>4, RowWritten DEF RegistrationInv, Typed

LEMMA DeregisterAgentStep ==
    ASSUME RegistrationInv, ConnInv', ~listed', DeregisterAgent
    PROVE  RegistrationInv'
<1>1. /\ row' = Absent
      /\ poll' = Detached
      /\ orphaned' \in BOOLEAN
      /\ KeepOrigin
      /\ UNCHANGED <<kind, alive>>
  BY DEF DeregisterAgent, Delete, RegistrationInv, Typed, ConnInv, AgentTypeOK
<1>2. /\ poll' \in PollRecord
      /\ poll'.step = poll.step
      /\ poll'.target = poll.target
      /\ ~poll'.shared
      /\ poll'.copy = IF poll.shared THEN row ELSE poll.copy
  BY <1>1 DEF Detached, RegistrationInv, Typed, PollRecord
<1>3. /\ origin' \in {"agent", "heartbeat", "anyone"}
      /\ blamed' \in 0..MaxFailures
      /\ origin' = "agent" => origin = "agent" /\ blamed' = blamed
  BY <1>1, FailuresAssumption DEF KeepOrigin, RegistrationInv, Typed
<1>4. Typed'
  BY <1>1, <1>2, <1>3 DEF RegistrationInv, Typed
<1>5. PollInv'
  BY <1>2 DEF RegistrationInv, PollInv, Polling
<1>6. BlameInv'
  <2> SUFFICES ASSUME origin' = "agent" PROVE BlameInv'
    BY DEF BlameInv
  <2>1. Sound(row)'
    BY <1>1, Metas DEF Sound
  <2>2. ~poll.shared /\ Polling => Sound(poll.copy)
    BY <1>3 DEF RegistrationInv, BlameInv
  <2>3. Sound(row)
    BY <1>3 DEF RegistrationInv, BlameInv
  <2>4. (Polling /\ ~poll.shared => Sound(poll.copy))'
    BY <1>2, <1>3, <2>2, <2>3 DEF Sound, AtAgent, Polling
  <2> QED
    BY <1>2, <1>3, <2>1, <2>4 DEF RegistrationInv, BlameInv
<1> QED
  BY <1>4, <1>5, <1>6 DEF RegistrationInv

\* The agent's calls, on time or late.
LEMMA AgentCallsStep ==
    ASSUME RegistrationInv,
           \/ AgentRegisters \/ AgentDeregisters
           \/ RegistersLate \/ DeregistersLate
    PROVE  RegistrationInv'
<1>1. ConnInv
  BY DEF RegistrationInv, Typed
<1>2. CASE AgentRegisters
  BY <1>1, <1>2, HandledConn, RegisterAgentStep DEF AgentRegisters, HandleRegister
<1>3. CASE AgentDeregisters
  BY <1>1, <1>3, HandledConn, DeregisterAgentStep
     DEF AgentDeregisters, HandleDeregister
<1>4. CASE RegistersLate
  BY <1>1, <1>4, LateConn, RegisterAgentStep DEF RegistersLate, HandleLate, Requests
<1>5. CASE DeregistersLate
  BY <1>1, <1>5, LateConn, DeregisterAgentStep
     DEF DeregistersLate, HandleLate, Requests
<1> QED
  BY <1>2, <1>3, <1>4, <1>5

\* The steps of a poll.

LEMMA StartPollStep ==
    ASSUME RegistrationInv, StartPoll
    PROVE  RegistrationInv'
<1>1. ConnInv' /\ listed' = listed
  BY SameAgentConn DEF StartPoll, agentVars, RegistrationInv, Typed, ConnInv, AgentTypeOK
<1>2. row \in Row
  BY DEF StartPoll, RegistrationInv, Typed
<1>3. UNCHANGED <<kind, row, alive, orphaned, origin, blamed>>
  BY DEF StartPoll
<1>4. poll' = [step |-> "dial", target |-> AtAgent(row),
               shared |-> kind = "memory",
               copy |-> IF kind = "memory" THEN Absent ELSE row]
  BY DEF StartPoll
<1>5. /\ poll'.step = "dial"
      /\ poll'.target = AtAgent(row)
      /\ poll'.shared <=> kind = "memory"
      /\ ~poll'.shared => poll'.copy = row
  BY <1>4
<1>6. poll' \in PollRecord
  BY <1>2, <1>4 DEF PollRecord, AtAgent
<1>7. Typed'
  BY <1>1, <1>3, <1>6 DEF RegistrationInv, Typed
<1>8. PollInv'
  BY <1>2, <1>3, <1>5 DEF PollInv, Polling
<1>9. BlameInv'
  BY <1>2, <1>3, <1>5 DEF RegistrationInv, BlameInv, Sound, AtAgent, Polling
<1> QED
  BY <1>7, <1>8, <1>9 DEF RegistrationInv

LEMMA PolledIsRow ==
    ASSUME RegistrationInv, Polling
    PROVE  /\ Polled \in Row
           /\ origin = "agent" => Sound(Polled)
BY DEF RegistrationInv, PollInv, BlameInv, Polled

\* What Concludes does to the poll and to the row.
LEMMA ConcludesStep ==
    ASSUME RegistrationInv, poll.step = "dial",
           NEW step \in {"write", "terminate"}, NEW meta \in Meta,
           Concludes(step, meta)
    PROVE  LET after == [Polled EXCEPT !.meta = meta]
               shared == poll.shared /\ step = "write"
           IN  /\ after \in Row
               /\ after.ip = Polled.ip
               /\ after.meta = meta
               /\ row' = IF poll.shared THEN after ELSE row
               /\ poll' \in PollRecord
               /\ poll'.step = step
               /\ poll'.shared = shared
               /\ ~shared => poll'.copy = after
<1> DEFINE after == [Polled EXCEPT !.meta = meta]
           shared == poll.shared /\ step = "write"
<1>1. Polled \in Row
  BY PolledIsRow DEF Polling
<1>2. after \in Row /\ after.ip = Polled.ip /\ after.meta = meta
  BY <1>1 DEF Row
<1>3. /\ poll' = [step |-> step, target |-> FALSE, shared |-> shared,
                  copy |-> IF shared THEN Absent ELSE after]
      /\ row' = IF poll.shared THEN after ELSE row
  BY DEF Concludes
<1>4. shared \in BOOLEAN
  BY DEF RegistrationInv, Typed, PollRecord
<1> HIDE DEF after, shared
<1>5. /\ poll' \in PollRecord
      /\ poll'.step = step
      /\ poll'.shared = shared
      /\ ~shared => poll'.copy = after
  BY <1>2, <1>3, <1>4 DEF PollRecord
<1> QED
  BY <1>2, <1>3, <1>5 DEF after, shared

LEMMA ConcludedInv ==
    ASSUME RegistrationInv, poll.step = "dial",
           NEW step \in {"write", "terminate"}, NEW meta \in Meta,
           Concludes(step, meta),
           UNCHANGED <<agentVars, kind, alive, orphaned, origin>>,
           blamed' \in 0..MaxFailures, blamed <= blamed',
           meta.port = Polled.meta.port,
           origin = "agent" => meta.failures <= blamed',
           origin = "agent" /\ step = "terminate" => blamed' = MaxFailures
    PROVE  RegistrationInv'
<1> DEFINE after == [Polled EXCEPT !.meta = meta]
           shared == poll.shared /\ step = "write"
<1>1. ConnInv' /\ listed' = listed
  BY SameAgentConn DEF agentVars, RegistrationInv, Typed, ConnInv, AgentTypeOK
<1>2. /\ after \in Row
      /\ after.ip = Polled.ip
      /\ after.meta = meta
      /\ row' = IF poll.shared THEN after ELSE row
      /\ poll' \in PollRecord
      /\ poll'.step = step
      /\ poll'.shared = shared
      /\ ~shared => poll'.copy = after
  BY ConcludesStep
<1>3. poll.shared => row \in Row /\ kind = "memory"
  BY DEF RegistrationInv, PollInv
<1>4. row' \in Row \cup {Absent} /\ (row' # Absent <=> row # Absent)
  BY <1>2, <1>3, Metas DEF RegistrationInv, Typed
<1> HIDE DEF after
<1>5. Typed'
  BY <1>1, <1>2, <1>4 DEF RegistrationInv, Typed
<1>6. PollInv'
  BY <1>2, <1>3 DEF PollInv, Polling
<1>7. BlameInv'
  <2> SUFFICES ASSUME origin = "agent" PROVE BlameInv'
    BY DEF BlameInv
  <2>1. Sound(Polled) /\ Polled \in Row /\ Sound(row)
    BY PolledIsRow DEF Polling, RegistrationInv, BlameInv
  <2>2. AtAgent(after) /\ after.meta.failures <= blamed'
    BY <1>2, <2>1 DEF Sound, AtAgent
  <2>3. blamed \in Nat /\ blamed' \in Nat
    BY FailuresAssumption DEF RegistrationInv, Typed
  <2>4. row \in Row => row.meta.failures \in Nat
    BY Metas
  <2>5. Sound(row)'
    BY <1>2, <2>1, <2>2, <2>3, <2>4 DEF Sound, AtAgent
  <2>6. (~poll.shared => Sound(poll.copy))'
    BY <1>2, <2>2 DEF Sound, AtAgent
  <2> QED
    BY <1>2, <2>5, <2>6 DEF BlameInv
<1> QED
  BY <1>5, <1>6, <1>7 DEF RegistrationInv

LEMMA PollOkStep ==
    ASSUME RegistrationInv, PollOk
    PROVE  RegistrationInv'
<1> DEFINE meta == [Polled.meta EXCEPT !.failures = 0]
<1>1. Polled.meta \in Meta
  BY PolledIsRow, Metas DEF PollOk, Polling
<1>2. meta \in Meta /\ meta.failures = 0 /\ meta.port = Polled.meta.port
  BY <1>1, FailuresAssumption DEF Meta
<1>3. blamed \in 0..MaxFailures /\ blamed' = blamed
  BY DEF PollOk, RegistrationInv, Typed
<1>4. poll.step = "dial" /\ Concludes("write", meta)
  BY DEF PollOk
<1>5. blamed' \in 0..MaxFailures /\ blamed <= blamed' /\ 0 <= blamed'
  BY <1>3, FailuresAssumption
<1>6. UNCHANGED <<agentVars, kind, alive, orphaned, origin>>
  BY DEF PollOk
<1> HIDE DEF meta
<1> QED
  BY <1>2, <1>4, <1>5, <1>6, ConcludedInv

LEMMA PollFailsStep ==
    ASSUME RegistrationInv, PollFails
    PROVE  RegistrationInv'
<1> DEFINE meta == CountedFailure(Polled.meta)
           step == IF Exhausted(meta) THEN "terminate" ELSE "write"
<1>1. poll.step = "dial" /\ Concludes(step, meta)
  BY DEF PollFails
<1>2. Polled \in Row /\ Polled.meta \in Meta
  BY <1>1, PolledIsRow, Metas DEF Polling
<1>3. /\ Polled.meta.failures \in 0..MaxFailures
      /\ blamed \in 0..MaxFailures
      /\ MaxFailures \in Nat
  BY <1>2, Metas, FailuresAssumption DEF RegistrationInv, Typed
<1>4. /\ meta \in Meta
      /\ meta.port = Polled.meta.port
      /\ meta.failures = IF Polled.meta.failures < MaxFailures
                         THEN Polled.meta.failures + 1 ELSE Polled.meta.failures
  BY <1>2, <1>3 DEF CountedFailure, Meta
<1>5. blamed' = IF poll.target /\ blamed < MaxFailures
                THEN blamed + 1 ELSE blamed
  BY DEF PollFails
<1>6. blamed' \in 0..MaxFailures /\ blamed <= blamed'
  BY <1>3, <1>5
<1>7. ASSUME origin = "agent" PROVE meta.failures <= blamed'
  <2>1. poll.target /\ Polled.meta.failures <= blamed
    BY <1>1, <1>2, <1>7, PolledIsRow DEF Polling, Sound, RegistrationInv, BlameInv
  <2> QED
    BY <1>3, <1>4, <1>5, <2>1
<1>8. origin = "agent" /\ step = "terminate" => blamed' = MaxFailures
  BY <1>3, <1>4, <1>6, <1>7 DEF Exhausted
<1>9. UNCHANGED <<agentVars, kind, alive, orphaned, origin>>
  BY DEF PollFails
<1> QED
  BY <1>1, <1>4, <1>6, <1>7, <1>8, <1>9, ConcludedInv

LEMMA WriteBackStep ==
    ASSUME RegistrationInv, WriteBack
    PROVE  RegistrationInv'
<1> DEFINE body == PolledBody(Polled)
<1>1. ConnInv' /\ listed'
  BY SameAgentConn DEF WriteBack, RegistrationInv, Typed
<1>2. Polled \in Row /\ (origin = "agent" => Sound(Polled))
  BY PolledIsRow DEF WriteBack, Polling
<1>3. /\ body \in Body
      /\ body.ip = Polled.ip
      /\ body.meta = Polled.meta
      /\ body.withMeta = TRUE
  BY <1>2, Bodies DEF PolledBody
<1>4. /\ row' = Registered(kind, row, body)
      /\ poll' = NoPoll
      /\ blamed' = IF Polled.meta.failures = 0 THEN 0 ELSE blamed
      /\ UNCHANGED <<kind, alive, orphaned, origin>>
  BY DEF WriteBack, Register
<1>5. /\ row' \in Row
      /\ row'.meta = Polled.meta
      /\ Polled.ip = "own" => row'.ip = "own"
  BY <1>3, <1>4, RegisteredRow DEF RegistrationInv, Typed
<1>6. blamed' \in 0..MaxFailures
  BY <1>4, FailuresAssumption DEF RegistrationInv, Typed
<1>7. NoPoll \in PollRecord /\ NoPoll.step = "none" /\ ~NoPoll.shared
  BY DEF NoPoll, PollRecord
<1>8. Typed'
  BY <1>1, <1>4, <1>5, <1>6, <1>7, Metas DEF RegistrationInv, Typed
<1>9. PollInv'
  BY <1>4, <1>7 DEF PollInv, Polling
<1>10. origin = "agent" => AtAgent(row') /\ row'.meta.failures <= blamed'
  BY <1>2, <1>4, <1>5 DEF Sound, AtAgent
<1>11. BlameInv'
  BY <1>4, <1>7, <1>10 DEF BlameInv, Sound, AtAgent, Polling
<1> QED
  BY <1>8, <1>9, <1>11 DEF RegistrationInv

\* The steps after which no poll is left that has a row in hand.
LEMMA NoPollStep ==
    ASSUME RegistrationInv, ConnInv', poll' \in PollRecord,
           ~poll'.shared, poll'.step \in {"none", "delete"},
           row' \in {row, Absent}, UNCHANGED kind,
           alive' \in BOOLEAN, orphaned' \in BOOLEAN,
           listed' <=> row' # Absent,
           \/ UNCHANGED <<origin, blamed>>
           \/ origin' = "anyone" /\ blamed' = 0
    PROVE  RegistrationInv'
<1>1. blamed' \in 0..MaxFailures
  BY FailuresAssumption DEF RegistrationInv, Typed
<1>2. Typed'
  BY <1>1 DEF RegistrationInv, Typed
<1>3. PollInv'
  BY DEF PollInv, Polling
<1>4. BlameInv'
  BY Metas DEF RegistrationInv, BlameInv, Sound, AtAgent, Polling
<1> QED
  BY <1>2, <1>3, <1>4 DEF RegistrationInv

LEMMA NoPollIsOne ==
    /\ NoPoll \in PollRecord /\ ~NoPoll.shared /\ NoPoll.step = "none"
    /\ LET deleting == [NoPoll EXCEPT !.step = "delete"]
       IN  deleting \in PollRecord /\ ~deleting.shared /\ deleting.step = "delete"
BY DEF NoPoll, PollRecord

LEMMA RefusalStep ==
    ASSUME RegistrationInv, Refusal
    PROVE  RegistrationInv'
<1>1. UNCHANGED <<agentVars, kind, row, alive, orphaned, origin, blamed>> /\ poll' = NoPoll
  BY DEF Refusal, WriteRefused, DeleteRefused
<1>2. ConnInv' /\ listed' = listed
  BY <1>1, SameAgentConn DEF agentVars, RegistrationInv, Typed, ConnInv, AgentTypeOK
<1> QED
  BY <1>1, <1>2, NoPollIsOne, NoPollStep DEF RegistrationInv, Typed

LEMMA TerminateDeadStep ==
    ASSUME RegistrationInv, TerminateDead \/ TerminateRefused
    PROVE  RegistrationInv'
<1>1. /\ poll' = [NoPoll EXCEPT !.step = "delete"]
      /\ UNCHANGED <<listed, kind, row, origin, blamed>>
      /\ alive' \in BOOLEAN /\ orphaned' \in BOOLEAN
  BY DEF TerminateDead, TerminateRefused, RegistrationInv, Typed
<1>2. ConnInv'
  <2>1. CASE TerminateDead
    BY <2>1, EndedConn DEF TerminateDead, RegistrationInv, Typed, ConnInv, AgentTypeOK
  <2>2. CASE TerminateRefused
    BY <2>2 DEF TerminateRefused, RegistrationInv, Typed, ConnInv, AgentTypeOK, AtAgent
  <2> QED
    BY <2>1, <2>2
<1> QED
  BY <1>1, <1>2, NoPollIsOne, NoPollStep DEF RegistrationInv, Typed

LEMMA DeleteDeadStep ==
    ASSUME RegistrationInv, DeleteDead
    PROVE  RegistrationInv'
<1>1. ConnInv' /\ ~listed'
  BY SameAgentConn DEF DeleteDead, RegistrationInv, Typed
<1> QED
  BY <1>1, NoPollIsOne, NoPollStep DEF DeleteDead, KeepOrigin, RegistrationInv, Typed

LEMMA MonitorSStopsStep ==
    ASSUME RegistrationInv, MonitorSStops
    PROVE  RegistrationInv'
<1>1. /\ row' \in {row, Absent}
      /\ listed' \in BOOLEAN
      /\ listed' <=> row' # Absent
  BY DEF MonitorSStops, RegistrationInv, Typed, ConnInv, AgentTypeOK
<1>2. ConnInv'
  BY <1>1, GoesDownConn DEF MonitorSStops, RegistrationInv, Typed
<1>3. /\ poll' = NoPoll
      /\ UNCHANGED <<kind, alive, orphaned>>
      /\ KeepOrigin
  BY DEF MonitorSStops
<1> QED
  BY <1>1, <1>2, <1>3, NoPollIsOne, NoPollStep DEF KeepOrigin, RegistrationInv, Typed

LEMMA InstanceLostStep ==
    ASSUME RegistrationInv, InstanceLost
    PROVE  RegistrationInv'
<1>1. ConnInv' /\ listed' = listed
  BY EndedConn DEF InstanceLost, RegistrationInv, Typed, ConnInv, AgentTypeOK
<1> QED
  BY <1>1, SameStore DEF InstanceLost

LEMMA NewInstanceStep ==
    ASSUME RegistrationInv, NewInstance
    PROVE  RegistrationInv'
<1>1. ConnInv' /\ listed' = listed
  BY SameAgentConn
     DEF NewInstance, agentVars, RegistrationInv, Typed, ConnInv, AgentTypeOK
<1> QED
  BY <1>1, SameStore DEF NewInstance, RegistrationInv, Typed

LEMMA RegistrationStep ==
    ASSUME RegistrationInv, [Next]_vars
    PROVE  RegistrationInv'
<1>1. CASE UNCHANGED vars
  <2>1. ConnInv' /\ listed' = listed
    BY <1>1, SameAgentConn
       DEF vars, agentVars, RegistrationInv, Typed, ConnInv, AgentTypeOK
  <2> QED
    BY <1>1, <2>1, SameStore DEF vars, storeVars, RegistrationInv, Typed
<1>2. CASE MonitorSPolls
  BY <1>2, StartPollStep, PollOkStep, PollFailsStep, WriteBackStep,
     TerminateDeadStep, DeleteDeadStep, RefusalStep DEF MonitorSPolls
<1>3. CASE Next /\ ~MonitorSPolls
  BY <1>3, AloneStep, AgentCallsStep, HttpStep, MonitorSStopsStep,
     InstanceLostStep, NewInstanceStep DEF Next
<1> QED
  BY <1>1, <1>2, <1>3

LEMMA RegistrationInvariant == Spec => []RegistrationInv
<1> QED
  BY InitRegistration, RegistrationStep, PTL DEF Spec

\* The types, and the agreement of the agent's view with the registry, in
\* either registry and with any clients.
THEOREM RegistrationTyped == Spec => []TypeOK
<1>1. RegistrationInv => TypeOK
  BY DEF RegistrationInv, Typed, ConnInv, PollRecord, TypeOK
<1> QED
  BY <1>1, RegistrationInvariant, PTL

\* monitor.go:229: an instance whose row is its agent's word is declared dead
\* only after MaxFailures polls that called that agent and failed, for every
\* MaxFailures, in either registry and whatever clients post.
THEOREM DeadByOwnFailures == Spec => []DeadByItsOwnFailures
<1>1. RegistrationInv => DeadByItsOwnFailures
  BY FailuresAssumption
     DEF RegistrationInv, Typed, BlameInv, DeadByItsOwnFailures
<1> QED
  BY <1>1, RegistrationInvariant, PTL
=============================================================================
