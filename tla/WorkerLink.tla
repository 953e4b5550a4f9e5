------------------------------ MODULE WorkerLink ------------------------------
(***************************************************************************)
(* The link between the telemetry agent of one worker (agent.ts of         *)
(* swarm-manager) and the manager (server.ts): a WebSocket the agent opens *)
(* again and again, authenticates and beats on, the session and the status *)
(* the manager keeps for it, the latest lifecycle event that survives the  *)
(* manager's restarts, and the inventory that stands in for a worker the   *)
(* manager has not heard.                                                  *)
(*                                                                         *)
(* A connection's two ends notice its loss in their own time.  Every       *)
(* message is the worker's own: tokens and identities match.  Samples and  *)
(* containers are left out, and so are the lifecycle events that neither   *)
(* the heartbeat nor the inventory tells apart.  The specification is      *)
(* LinkSpec: SwarmManagerProofs extends this module beside ServiceLaunch.  *)
(***************************************************************************)
EXTENDS Naturals, Sequences

CONSTANTS
    Conns,       \* connections the agent may open, one after the other
    MaxQueued,   \* messages on their way on a connection
    MaxFaults    \* lost connections, failed connects, deaths, power changes, restarts

ASSUME BoundsAssumption == MaxQueued \in Nat \ {0} /\ MaxFaults \in Nat

Null == "none"

VARIABLES
    host,      \* the EC2 instance
    agent,     \* the agent process runs
    current,   \* currentSocket, or Null
    wire,      \* connections that still carry messages
    server,    \* the manager's end of a connection
    inbox,     \* messages on their way to the manager
    sessions,  \* sessions.get(worker), or Null
    live,      \* the status of liveWorkers.get(worker), or Null
    late,      \* its lastHeartbeatAt is past the heartbeat time-out
    inventory, \* the status of ec2InventoryWorkers.get(worker), or Null
    latest,    \* the worker's latest lifecycle event of those read back
    posts,     \* "disconnected" events the agent is posting
    faults     \* faults so far

agentSide == <<host, agent, current>>
wires == <<wire, server, inbox>>
book == <<sessions, live, late, inventory, latest>>
linkVars == <<host, agent, current, wire, server, inbox, sessions, live, late, inventory, latest, posts, faults>>

Runs == host = "running" /\ agent
Fault == faults < MaxFaults /\ faults' = faults + 1

LinkInit ==
    /\ host = "running" /\ agent = TRUE
    /\ current = Null
    /\ wire = {}
    /\ server = [c \in Conns |-> "none"]
    /\ inbox = [c \in Conns |-> <<>>]
    /\ sessions = Null /\ live = Null /\ late = FALSE
    /\ inventory = Null
    /\ latest = Null
    /\ posts = 0 /\ faults = 0
-----------------------------------------------------------------------------
(* The agent. *)

\* connect up to the open event: the manager has accepted the upgrade.
Connect(c) ==
    /\ Runs /\ current = Null
    /\ c \notin wire /\ server[c] = "none"
    /\ current' = c
    /\ wire' = wire \cup {c}
    /\ server' = [server EXCEPT ![c] = "unauthenticated"]
    /\ inbox' = [inbox EXCEPT ![c] = <<"auth">>]
    /\ UNCHANGED <<host, agent, book, posts, faults>>

\* The close event: the loss is posted, and connect runs after the delay.
SocketCloses ==
    /\ Runs /\ current # Null /\ current \notin wire
    /\ current' = Null
    /\ posts' = posts + 1
    /\ UNCHANGED <<host, agent, wires, book, faults>>

\* The manager could not be reached: error, close, and once more.
ConnectFails ==
    /\ Runs /\ current = Null /\ Fault
    /\ posts' = posts + 1
    /\ UNCHANGED <<agentSide, wires, book>>

Beat ==
    /\ Runs /\ current \in wire
    /\ Len(inbox[current]) < MaxQueued
    /\ inbox' = [inbox EXCEPT ![current] = Append(@, "heartbeat")]
    /\ UNCHANGED <<agentSide, wire, server, book, posts, faults>>

\* The event carries the agent's clock: it may be older than the latest one.
\* A post that fails is forgotten.
PostArrives ==
    /\ posts > 0
    /\ posts' = posts - 1
    /\ latest' \in {latest, "disconnected"}
    /\ UNCHANGED <<agentSide, wires, sessions, live, late, inventory, faults>>
-----------------------------------------------------------------------------
(* The manager. *)

\* Mutant: the close handler of a replaced socket takes the session with it.
SessionDropped(c) == Null

\* What the close handler of c makes of the session.
SessionAfterClose(c) == IF sessions = c THEN Null ELSE sessions

\* Mutant: the session before this one stays open.
ReplacedNobody(c) == {}

\* closeStaleSession: the sockets an auth on c replaces.
Replaced(c) == {d \in Conns : d = sessions /\ d # c}

\* auth.  Closing the old session runs its close handler here or later; run
\* here, its event and this one may have the same millisecond, and of two
\* such rows the earlier one reads as the latest.
Authenticate(c) ==
    /\ server[c] \in {"unauthenticated", "open"} /\ inbox[c] # <<>> /\ Head(inbox[c]) = "auth"
    /\ inbox' = [d \in Conns |-> IF d = c THEN Tail(inbox[c]) ELSE IF d \in Replaced(c) THEN <<>> ELSE inbox[d]]
    /\ wire' = wire \ Replaced(c)
    /\ \E after \in {"closing", "none"} :
          /\ server' = [d \in Conns |-> IF d = c THEN "open" ELSE IF d \in Replaced(c) THEN after ELSE server[d]]
          /\ latest' \in {"connected"} \cup IF Replaced(c) # {} /\ after = "none" THEN {"disconnected"} ELSE {}
    /\ sessions' = c
    /\ live' = "connected" /\ late' = FALSE
    /\ UNCHANGED <<agentSide, inventory, posts, faults>>

\* Mutant: a heartbeat keeps the status the worker has.
StatusKept == IF live = Null THEN "connected" ELSE live

StatusAfterBeat == "connected"

Heartbeat(c) ==
    /\ server[c] = "open" /\ inbox[c] # <<>> /\ Head(inbox[c]) = "heartbeat"
    /\ inbox' = [inbox EXCEPT ![c] = Tail(@)]
    /\ live' = StatusAfterBeat /\ late' = FALSE
    /\ latest' = "running"
    /\ UNCHANGED <<agentSide, wire, server, sessions, inventory, posts, faults>>

\* The close handler, whichever end the connection was lost at.
Close(c) ==
    /\ \/ server[c] = "closing"
       \/ server[c] \in {"unauthenticated", "open"} /\ c \notin wire /\ inbox[c] = <<>>
    /\ server' = [server EXCEPT ![c] = "none"]
    /\ IF server[c] = "unauthenticated"
       THEN UNCHANGED <<sessions, live, latest>>
       ELSE /\ sessions' = SessionAfterClose(c)
            /\ live' = IF live = Null THEN Null ELSE "disconnected"
            /\ latest' = IF live = Null THEN latest ELSE "disconnected"
    /\ UNCHANGED <<agentSide, wire, inbox, late, inventory, posts, faults>>

TimePasses ==
    /\ live # Null /\ ~late
    /\ late' = TRUE
    /\ UNCHANGED <<agentSide, wires, sessions, live, inventory, latest, posts, faults>>

UpdateStaleWorkers ==
    /\ live = "connected" /\ late
    /\ live' = "stale" /\ latest' = "stale"
    /\ UNCHANGED <<agentSide, wires, sessions, late, inventory, posts, faults>>

\* deriveInventoryWorkerStatus: of a running instance, what the log says last,
\* or whether its latest sign of progress is older than the zombie threshold.
Derived ==
    CASE host = "stopped" -> {"hibernated", "hibernating", "shutdown"}
      [] host = "running" -> IF latest \in {"disconnected", "stale", "zombie"} THEN {latest} ELSE {"booting", "zombie"}
      [] OTHER -> {Null}

RefreshEc2InventoryWorkers ==
    /\ IF live # Null
       THEN inventory' = Null /\ UNCHANGED latest
       ELSE \E status \in Derived :
               /\ inventory' = status
               /\ latest' = IF host = "gone" /\ latest # Null THEN "terminated"
                            ELSE IF status = "zombie" THEN "zombie" ELSE latest
    /\ UNCHANGED <<agentSide, wires, sessions, live, late, posts, faults>>

Shown == IF live # Null THEN live ELSE inventory
-----------------------------------------------------------------------------
(* Faults. *)

\* The network drops a connection, and perhaps what was on its way.
LoseLink(c) ==
    /\ c \in wire /\ Fault
    /\ wire' = wire \ {c}
    /\ inbox' \in {inbox, [inbox EXCEPT ![c] = <<>>]}
    /\ UNCHANGED <<agentSide, server, book, posts>>

\* The agent is killed, or its instance stops for good: nothing is posted.
AgentDies ==
    /\ agent /\ Fault
    /\ host' \in {host, "gone"}
    /\ agent' = FALSE /\ current' = Null
    /\ wire' = wire \ {current}
    /\ UNCHANGED <<server, inbox, book, posts>>

AgentStarts ==
    /\ host = "running" /\ ~agent
    /\ agent' = TRUE
    /\ UNCHANGED <<host, current, wires, book, posts, faults>>

\* A hibernated agent wakes up with the socket it had.
HostStops ==
    /\ host = "running" /\ Fault
    /\ host' = "stopped"
    /\ wire' = wire \ {current}
    /\ UNCHANGED <<agent, current, server, inbox, book, posts>>

HostStarts ==
    /\ host = "stopped"
    /\ host' = "running"
    /\ UNCHANGED <<agent, current, wires, book, posts, faults>>

\* The manager stops and starts: its maps are empty, its log is kept.
ManagerRestarts ==
    /\ Fault
    /\ wire' = {}
    /\ server' = [c \in Conns |-> "none"]
    /\ inbox' = [c \in Conns |-> <<>>]
    /\ sessions' = Null /\ live' = Null /\ late' = FALSE
    /\ inventory' = Null
    /\ latest' \in {latest} \cup IF live # Null THEN {"disconnected"} ELSE {}
    /\ UNCHANGED <<agentSide, posts>>
-----------------------------------------------------------------------------
LinkNext ==
    \/ SocketCloses \/ ConnectFails \/ Beat \/ PostArrives
    \/ TimePasses \/ UpdateStaleWorkers \/ RefreshEc2InventoryWorkers
    \/ AgentDies \/ AgentStarts \/ HostStops \/ HostStarts \/ ManagerRestarts
    \/ \E c \in Conns : Connect(c) \/ Authenticate(c) \/ Heartbeat(c) \/ Close(c) \/ LoseLink(c)

LinkSpec == LinkInit /\ [][LinkNext]_linkVars

\* The agent's timers and socket events, the manager's handlers and sweeps.
FairLinkSpec ==
    /\ LinkSpec
    /\ WF_linkVars(\E c \in Conns : Connect(c))
    /\ WF_linkVars(SocketCloses) /\ WF_linkVars(Beat) /\ WF_linkVars(PostArrives)
    /\ WF_linkVars(TimePasses) /\ WF_linkVars(UpdateStaleWorkers) /\ WF_linkVars(RefreshEc2InventoryWorkers)
    /\ \A c \in Conns : WF_linkVars(Authenticate(c)) /\ WF_linkVars(Heartbeat(c)) /\ WF_linkVars(Close(c))
-----------------------------------------------------------------------------
Statuses == {"connected", "stale", "disconnected"}

LinkTypeOK ==
    /\ host \in {"running", "stopped", "gone"} /\ agent \in BOOLEAN
    /\ current \in Conns \cup {Null}
    /\ wire \subseteq Conns
    /\ server \in [Conns -> {"none", "unauthenticated", "open", "closing"}]
    /\ \A c \in Conns : Len(inbox[c]) <= MaxQueued + 1
    /\ sessions \in Conns \cup {Null}
    /\ live \in Statuses \cup {Null} /\ late \in BOOLEAN
    /\ inventory \in {Null, "hibernated", "hibernating", "shutdown", "disconnected", "stale", "zombie", "booting"}
    /\ latest \in Statuses \cup {Null, "running", "zombie", "terminated"}
    /\ posts \in Nat /\ faults \in 0..MaxFaults

(***************************************************************************)
(* However often the agent comes back before its old socket is noticed to  *)
(* be dead, one authenticated socket is open for the worker, and it is the *)
(* worker's session: no late close takes away the session of another       *)
(* socket.                                                                 *)
(***************************************************************************)
OneOpenSession == \A c \in Conns : server[c] = "open" => sessions = c

(***************************************************************************)
(* The manager never settles on a wrong answer.  A worker whose agent runs *)
(* is shown connected, with "running" as its latest event, again and       *)
(* again, whatever late close handlers, late posts, sweeps and restarts    *)
(* say of its earlier sockets; and one whose agent is gone for good is     *)
(* some day shown otherwise for ever.                                      *)
(***************************************************************************)
LinkSettles ==
    /\ <>[]Runs => []<>(Shown = "connected" /\ latest = "running")
    /\ <>[]~Runs => <>[](Shown # "connected")
=============================================================================
