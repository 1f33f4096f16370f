---------------------------- MODULE MonitorAgent ----------------------------
(***************************************************************************)
(* One MonitorC agent (cmd/monitorc/main.go) and its connection to         *)
(* MonitorS.  Two goroutines of the agent share the client of the          *)
(* connection: main, which waits for the interrupt and then deregisters,   *)
(* and the reconnector, which connects, registers, watches the connection  *)
(* and starts over.  systemd starts the agent again whenever it ends.      *)
(*                                                                         *)
(* That a caller gives up without an answer is always possible, and then   *)
(* its request either comes to nothing or is handled later: the handlers   *)
(* of MonitorS do not look at the caller's deadline.                       *)
(***************************************************************************)
EXTENDS Naturals

CONSTANTS
    LossStates, \* what gRPC may report of a connection it lost: "idle" when it
                \* waits for the next call to connect again, "failing" when it
                \* tries by itself
    MaxLate     \* bound: with so many requests overdue no other becomes overdue

VARIABLES
    main,     \* main: down, running, interrupted, deregistering, stopping
    loop,     \* runReconnector: none, dial, register, backoff, watch, close,
              \* ended
    link,     \* state of its connection, "none" before dialling and once closed
    conns,    \* connections opened and not closed
    client,   \* activeConnection holds a client
    wire,     \* requests whose caller waits for the answer
    late,     \* overdue requests by kind: handled yet, but nobody waits for them
    reply,    \* MonitorS' answer to Register: none, accepted, rejected
    told,     \* shuttingDown: the agent was asked to shut down
    server,   \* MonitorS runs
    listed    \* MonitorS' registry has a row for this agent

process    == <<main, loop, link, conns, client, wire, reply, told>>
agentVars  == <<process, late, server, listed>>

ASSUME LossAssumption == LossStates \subseteq {"idle", "failing"}
ASSUME LateAssumption == MaxLate \in Nat

Requests == {"register", "deregister"}

NoneLate == [r \in Requests |-> 0]

-----------------------------------------------------------------------------
AgentInit ==
    /\ main = "down"
    /\ loop = "none"
    /\ link = "none"
    /\ conns = 0
    /\ client = FALSE
    /\ wire = {}
    /\ late = NoneLate
    /\ reply = "none"
    /\ told = FALSE
    /\ server = TRUE
    /\ listed = FALSE

Boot ==
    /\ main = "down"
    /\ main' = "running"
    /\ loop' = "dial"
    /\ UNCHANGED <<link, conns, client, wire, reply, told, late, server, listed>>

\* The callers of these requests stop waiting.  What MonitorS already has of
\* them it may handle later (or reject, which is as if it were lost).
Abandon(requests) ==
    /\ wire' = wire \ requests
    /\ \/ UNCHANGED late
       \/ /\ late["register"] + late["deregister"] < MaxLate
          /\ \E r \in wire \cap requests : late' = [late EXCEPT ![r] = @ + 1]

\* The process ends and everything it had goes with it.
Ended ==
    /\ main' = "down"
    /\ loop' = "none"
    /\ link' = "none"
    /\ conns' = 0
    /\ client' = FALSE
    /\ Abandon(Requests)
    /\ reply' = "none"
    /\ told' = FALSE

-----------------------------------------------------------------------------
\* The reconnector.  connectAndRegister dials until it is connected and sends
\* Register.
Connect ==
    /\ loop = "dial"
    /\ main = "running"
    /\ server
    /\ loop' = "register"
    /\ link' = "ready"
    /\ conns' = conns + 1
    /\ wire' = wire \cup {"register"}
    /\ UNCHANGED <<main, client, reply, told, late, server, listed>>

\* Five seconds pass without a connection.
ConnectFails ==
    /\ loop = "dial"
    /\ main = "running"
    /\ loop' = "backoff"
    /\ UNCHANGED <<main, link, conns, client, wire, reply, told, late, server, listed>>

\* Mutant: resp.Success is not looked at.
AnyAnswerAccepted ==
    /\ loop = "register"
    /\ reply # "none"
    /\ client' = TRUE
    /\ reply' = "none"
    /\ loop' = "watch"
    /\ UNCHANGED <<main, link, conns, wire, told, late, server, listed>>

\* The answer may come while main is already stopping.
Accepted ==
    /\ loop = "register"
    /\ reply = "accepted"
    /\ client' = TRUE
    /\ reply' = "none"
    /\ loop' = "watch"
    /\ UNCHANGED <<main, link, conns, wire, told, late, server, listed>>

\* Mutants: the connection of a failed registration stays open; the reconnector
\* ends with it.
GiveUpOpen ==
    /\ loop = "register"
    /\ link' = "none"
    /\ Abandon(Requests)
    /\ reply' = "none"
    /\ loop' = "backoff"
    /\ UNCHANGED <<main, conns, client, told, server, listed>>

GiveUpForGood ==
    /\ loop = "register"
    /\ link' = "none"
    /\ conns' = conns - 1
    /\ Abandon(Requests)
    /\ reply' = "none"
    /\ loop' = "ended"
    /\ UNCHANGED <<main, client, told, server, listed>>

\* Register is rejected, times out, loses its connection or is cancelled.
GiveUp ==
    /\ loop = "register"
    /\ link' = "none"
    /\ conns' = conns - 1
    /\ Abandon(Requests)
    /\ reply' = "none"
    /\ loop' = "backoff"
    /\ UNCHANGED <<main, client, told, server, listed>>

Retry ==
    /\ loop = "backoff"
    /\ main = "running"
    /\ loop' = "dial"
    /\ UNCHANGED <<main, link, conns, client, wire, reply, told, late, server, listed>>

Lost == link \notin {"idle", "ready"}

\* Mutant: active.clear() is forgotten.
LeaveWatchWithClient ==
    /\ loop = "watch"
    /\ Lost \/ main # "running"
    /\ loop' = "close"
    /\ UNCHANGED <<main, link, conns, client, wire, reply, told, late, server, listed>>

\* monitorConnection returns: the connection is lost, or the agent is to stop.
LeaveWatch ==
    /\ loop = "watch"
    /\ Lost \/ main # "running"
    /\ client' = FALSE
    /\ loop' = "close"
    /\ UNCHANGED <<main, link, conns, wire, reply, told, late, server, listed>>

\* conn.Close(), also under a Deregister that main waits for.
CloseConnection ==
    /\ loop = "close"
    /\ link' = "none"
    /\ conns' = conns - 1
    /\ Abandon(Requests)
    /\ loop' = IF main = "running" THEN "dial" ELSE "ended"
    /\ UNCHANGED <<main, client, reply, told, server, listed>>

\* Mutant: the reconnector closes its connection once more when it ends.
QuitClosing ==
    /\ loop \in {"dial", "backoff"}
    /\ main # "running"
    /\ loop' = "ended"
    /\ conns' = conns - 1
    /\ UNCHANGED <<main, link, client, wire, reply, told, late, server, listed>>

Quit ==
    /\ loop \in {"dial", "backoff"}
    /\ main # "running"
    /\ loop' = "ended"
    /\ UNCHANGED <<main, link, conns, client, wire, reply, told, late, server, listed>>

-----------------------------------------------------------------------------
\* main.

Interrupt ==
    /\ main = "running"
    /\ main' = "interrupted"
    /\ UNCHANGED <<loop, link, conns, client, wire, reply, told, late, server, listed>>

\* active.get() and Deregister; the call connects an idle connection again.
Deregister ==
    /\ main = "interrupted"
    /\ client
    /\ main' = "deregistering"
    /\ wire' = IF server /\ ~Lost THEN wire \cup {"deregister"} ELSE wire
    /\ UNCHANGED <<loop, link, conns, client, reply, told, late, server, listed>>

SkipDeregister ==
    /\ main = "interrupted"
    /\ ~client
    /\ main' = "stopping"
    /\ UNCHANGED <<loop, link, conns, client, wire, reply, told, late, server, listed>>

\* Answered, failed, or two seconds passed; the result is ignored.
DeregisterReturns ==
    /\ main = "deregistering"
    /\ main' = "stopping"
    /\ Abandon({"deregister"})
    /\ UNCHANGED <<loop, link, conns, client, reply, told, server, listed>>

\* GracefulStop returns and with it main.
Exit ==
    /\ main = "stopping"
    /\ Ended
    /\ UNCHANGED <<server, listed>>

\* SIGTERM, as systemd sends it, is not caught.
Kill ==
    /\ main # "down"
    /\ Ended
    /\ UNCHANGED <<server, listed>>

\* The Shutdown handler: from now on Ping and GetMetrics refuse.
Shutdown ==
    /\ main # "down"
    /\ told' = TRUE
    /\ UNCHANGED <<main, loop, link, conns, client, wire, reply, late, server, listed>>

-----------------------------------------------------------------------------
\* MonitorS and the network.

HandleRegister ==
    /\ server
    /\ "register" \in wire
    /\ wire' = wire \ {"register"}
    /\ reply' = "accepted"
    /\ listed' = TRUE
    /\ UNCHANGED <<main, loop, link, conns, client, told, late, server>>

\* The registry refuses the row.
RejectRegister ==
    /\ server
    /\ "register" \in wire
    /\ wire' = wire \ {"register"}
    /\ reply' = "rejected"
    /\ UNCHANGED <<main, loop, link, conns, client, told, late, server, listed>>

HandleDeregister ==
    /\ server
    /\ "deregister" \in wire
    /\ wire' = wire \ {"deregister"}
    /\ listed' = FALSE
    /\ UNCHANGED <<main, loop, link, conns, client, reply, told, late, server>>

\* An overdue Register writes the row, an overdue Deregister deletes it, whatever
\* became of the agent meanwhile; the answer reaches nobody.
HandleLate(request) ==
    /\ server
    /\ late[request] > 0
    /\ late' = [late EXCEPT ![request] = @ - 1]
    /\ listed' = (request = "register")
    /\ UNCHANGED <<process, server>>

\* An answer on its way is lost with the connection.
LinkBreaks ==
    /\ link' \in IF link = "ready" THEN LossStates ELSE {link}
    /\ reply' = "none"
    /\ UNCHANGED <<main, loop, conns, client, told>>

LoseConnection ==
    /\ link = "ready"
    /\ LinkBreaks
    /\ Abandon(Requests)
    /\ UNCHANGED <<server, listed>>

Reconnect ==
    /\ link = "failing"
    /\ server
    /\ link' = "ready"
    /\ UNCHANGED <<main, loop, conns, client, wire, reply, told, late, server, listed>>

\* MonitorS goes down with all requests it had.
GoesDown ==
    /\ server
    /\ server' = FALSE
    /\ LinkBreaks
    /\ wire' = {}
    /\ late' = NoneLate

ServerStops == GoesDown /\ UNCHANGED listed

ServerStarts ==
    /\ ~server
    /\ server' = TRUE
    /\ UNCHANGED <<process, late, listed>>

-----------------------------------------------------------------------------
\* The steps of the agent that leave MonitorS alone.
Reconnector ==
    \/ Connect \/ ConnectFails \/ Accepted \/ GiveUp \/ Retry
    \/ LeaveWatch \/ CloseConnection \/ Quit

Main ==
    \/ Interrupt \/ Deregister \/ SkipDeregister \/ DeregisterReturns
    \/ Exit

AgentNext ==
    \/ Boot \/ Reconnector \/ Main \/ Kill \/ Shutdown
    \/ HandleRegister \/ RejectRegister \/ HandleDeregister
    \/ HandleLate("register") \/ HandleLate("deregister")
    \/ LoseConnection \/ Reconnect \/ ServerStops \/ ServerStarts

AgentSpec == AgentInit /\ [][AgentNext]_agentVars

-----------------------------------------------------------------------------
AgentTypeOK ==
    /\ main \in {"down", "running", "interrupted", "deregistering", "stopping"}
    /\ loop \in {"none", "dial", "register", "backoff", "watch", "close",
                 "ended"}
    /\ link \in {"none", "ready", "idle", "failing"}
    /\ conns \in Nat
    /\ client \in BOOLEAN
    /\ wire \subseteq Requests
    /\ late \in [Requests -> 0..MaxLate]
    /\ reply \in {"none", "accepted", "rejected"}
    /\ told \in BOOLEAN
    /\ server \in BOOLEAN
    /\ listed \in BOOLEAN

\* main.go:192-204, 261: through all failed registrations, lost connections and
\* retries the agent closes every connection before it opens the next.
OneConnection ==
    /\ conns <= 1
    /\ loop \in {"none", "dial", "backoff", "ended"} => conns = 0

\* What main deregisters with is a client the reconnector registered with, and
\* neither waits while the other does (main.go:254-261, 413-417).
ClientRegistered == client => loop = "watch" /\ "register" \notin wire

\* The agent as a member of the cluster.
MemberPhase ==
    CASE main = "down"                      -> "out"
      [] main = "running" /\ loop = "watch" -> "member"
      [] main = "running" /\ loop # "watch" ->
             IF reply = "accepted" THEN "admitted" ELSE "joining"
      [] main = "interrupted"               -> "leaving"
      [] main \in {"deregistering", "stopping"} ->
             IF "register" \in wire THEN "leaving" ELSE "left"

Overdue == {r \in Requests : late[r] > 0}

Member == INSTANCE Membership
              WITH phase <- MemberPhase, member <- listed, overdue <- Overdue

\* HU-01: through timeouts, lost connections, rejections, interrupts and
\* restarts of either side, the agent believes to be registered only after it
\* was, and its row comes and goes only as it joins or leaves, or by a request
\* of its own that it gave up and MonitorS handles late (monitor.go:28-46, 62-66).
ImplementsMembership == Member!MembershipSpec
=============================================================================
