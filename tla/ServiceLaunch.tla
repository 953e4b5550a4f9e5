---------------------------- MODULE ServiceLaunch ----------------------------
(***************************************************************************)
(* Launching services on one worker (launch-service.ts of swarm-manager):  *)
(* a launcher leases a host port from the manager, runs the container on   *)
(* the worker's Docker host, and registers the instance; when a step fails *)
(* it undoes what it did.  The manager's side (server.ts) is the table of  *)
(* port leases and the registry of instances.                              *)
(*                                                                         *)
(* Launchers and the operator act at any time, any step may fail, and the  *)
(* answer of a request may be lost after it was carried out.  A launcher   *)
(* that is killed is not modelled.                                         *)
(***************************************************************************)
EXTENDS Integers

CONSTANTS
    Ports,     \* the manager's range of service ports
    Instances, \* <namespace, service, instance>, which also names the container
    Launches   \* runs of launch-service at a time

ASSUME PortsAssumption == Ports \subseteq Nat \ {0} /\ Ports # {}

None == 0

ASSUME InstancesAssumption == None \notin Instances

VARIABLES
    lease,     \* port_leases: the instance a port is leased to, or None
    record,    \* service_instances: the host port of an instance, or None
    container, \* the container of that name: its state and host port
    launch,    \* a launcher: where it is, what it launches, lease.hostPort, containerId # ""
    \* history, read by properties only
    irregular  \* instances disturbed by somebody else, a lost answer or a failed removal

vars == <<lease, record, container, launch, irregular>>

Phases == {"ended", "leased", "started", "failing", "releasing"}
Launcher(phase, i, p, made) == [phase |-> phase, inst |-> i, port |-> p, made |-> made]
Ended == Launcher("ended", None, None, FALSE)
NoContainer == [state |-> "none", port |-> None]

Init ==
    /\ lease = [p \in Ports |-> None]
    /\ record = [i \in Instances |-> None]
    /\ container = [i \in Instances |-> NoContainer]
    /\ launch = [l \in Launches |-> Ended]
    /\ irregular = {}

Leased(i) == {p \in Ports : lease[p] = i}
Free == {p \in Ports : lease[p] = None}
Lowest(S) == {p \in S : \A q \in S : p <= q}
Running(p) == \E i \in Instances : container[i] = [state |-> "running", port |-> p]

UnderWay(i) == \E l \in Launches : launch[l].inst = i
InUse(i) == UnderWay(i) \/ record[i] # None \/ container[i].state = "running"

Goes(l, phase) == launch' = [launch EXCEPT ![l] = Launcher(phase, launch[l].inst, launch[l].port, launch[l].made)]
-----------------------------------------------------------------------------
(* The manager. *)

\* allocatePort: the instance's lease, whatever port is requested; else the
\* requested port, unless it is another's; else the lowest free one.
Allocated(i, requested) ==
    IF Leased(i) # {} THEN Leased(i)
    ELSE IF requested # None THEN {requested} \cap Free
    ELSE Lowest(Free)
-----------------------------------------------------------------------------
(* A launcher. *)

\* POST /ports/lease.  Outside the try: a lost answer is not undone.
Lease(l, i) ==
    /\ launch[l] = Ended
    /\ \E p \in Allocated(i, None) :
          /\ lease' = [lease EXCEPT ![p] = i]
          /\ \/ /\ launch' = [launch EXCEPT ![l] = Launcher("leased", i, p, FALSE)]
                /\ irregular' = IF InUse(i) THEN irregular \cup {i}
                                ELSE IF Leased(i) = {} THEN irregular \ {i} ELSE irregular
             \/ /\ irregular' = irregular \cup {i}
                /\ UNCHANGED launch
    /\ UNCHANGED <<record, container>>

\* container_start_requested is posted, docker run, container_started is posted.
RunContainer(l) ==
    LET i == launch[l].inst  p == launch[l].port IN
    /\ launch[l].phase = "leased"
    /\ container[i].state = "none" /\ ~Running(p)
    /\ container' = [container EXCEPT ![i] = [state |-> "running", port |-> p]]
    /\ \E phase \in {"started", "failing"} :
          launch' = [launch EXCEPT ![l] = Launcher(phase, i, p, TRUE)]
    /\ UNCHANGED <<lease, record, irregular>>

\* The name is taken or the event is refused; a port in use is found out when
\* the container has been created.
RunFails(l) ==
    LET i == launch[l].inst  p == launch[l].port IN
    /\ launch[l].phase = "leased"
    /\ \/ UNCHANGED container
       \/ /\ container[i].state = "none" /\ Running(p)
          /\ container' = [container EXCEPT ![i] = [state |-> "created", port |-> p]]
    /\ Goes(l, "failing")
    /\ UNCHANGED <<lease, record, irregular>>

\* Mutant: register asks for no port.
RequestedNone(l) == None

\* What a launcher passes on to register: the port its container has.
Requested(l) == launch[l].port

\* POST /services/register; a lost answer leaves the record behind.
Register(l) ==
    LET i == launch[l].inst IN
    /\ launch[l].phase = "started"
    /\ \E p \in Allocated(i, Requested(l)) :
          /\ lease' = [lease EXCEPT ![p] = i]
          /\ record' = [record EXCEPT ![i] = p]
          /\ \/ launch' = [launch EXCEPT ![l] = Ended] /\ UNCHANGED irregular
             \/ Goes(l, "failing") /\ irregular' = irregular \cup {i}
    /\ UNCHANGED container

\* The port is another's by now, or the request never arrived.
RegisterFails(l) ==
    /\ launch[l].phase = "started"
    /\ Goes(l, "failing")
    /\ UNCHANGED <<lease, record, container, irregular>>

\* Mutant: the container is removed only when it was registered.
RollBackRegistered(l) == IF launch[l].made /\ record[launch[l].inst] # None THEN {launch[l].inst} ELSE {}

\* The containers catch removes: by name, and only if docker run succeeded.
RolledBack(l) == IF launch[l].made THEN {launch[l].inst} ELSE {}

\* docker rm -f, whose failure goes unnoticed.
RemoveContainer(l) ==
    /\ launch[l].phase = "failing"
    /\ \/ /\ container' = [i \in Instances |-> IF i \in RolledBack(l) THEN NoContainer ELSE container[i]]
          /\ UNCHANGED irregular
       \/ /\ irregular' = irregular \cup RolledBack(l)
          /\ UNCHANGED container
    /\ Goes(l, "releasing")
    /\ UNCHANGED <<lease, record>>

\* POST /ports/release: whoever the port is leased to.  Its failure is ignored.
ReleasePort(l) ==
    /\ launch[l].phase = "releasing"
    /\ \/ /\ lease' = [lease EXCEPT ![launch[l].port] = None]
          /\ UNCHANGED irregular
       \/ /\ irregular' = irregular \cup {launch[l].inst}
          /\ UNCHANGED lease
    /\ launch' = [launch EXCEPT ![l] = Ended]
    /\ UNCHANGED <<record, container>>
-----------------------------------------------------------------------------
(* The operator. *)

\* POST /services/release: the lease and the record go, the container runs on.
ReleaseService(i) ==
    /\ record[i] # None
    /\ lease' = [p \in Ports |-> IF lease[p] = i THEN None ELSE lease[p]]
    /\ record' = [record EXCEPT ![i] = None]
    /\ irregular' = irregular \cup {i}
    /\ UNCHANGED <<container, launch>>

\* docker rm -f on the worker.
DockerRemove(i) ==
    /\ container[i].state # "none"
    /\ container' = [container EXCEPT ![i] = NoContainer]
    /\ irregular' = IF InUse(i) THEN irregular \cup {i} ELSE irregular
    /\ UNCHANGED <<lease, record, launch>>
-----------------------------------------------------------------------------
Next ==
    \/ \E l \in Launches, i \in Instances : Lease(l, i)
    \/ \E l \in Launches : RunContainer(l) \/ RunFails(l) \/ Register(l) \/ RegisterFails(l)
                             \/ RemoveContainer(l) \/ ReleasePort(l)
    \/ \E i \in Instances : ReleaseService(i) \/ DockerRemove(i)

Spec == Init /\ [][Next]_vars
-----------------------------------------------------------------------------
TypeOK ==
    /\ lease \in [Ports -> Instances \cup {None}]
    /\ record \in [Instances -> Ports \cup {None}]
    /\ container \in [Instances -> [state : {"none", "created", "running"}, port : Ports \cup {None}]]
    /\ launch \in [Launches -> [phase : Phases, inst : Instances \cup {None}, port : Ports \cup {None}, made : BOOLEAN]]
    /\ irregular \subseteq Instances

(***************************************************************************)
(* A registered instance that nobody relaunched, removed or lost an answer *)
(* for is served: its container runs on the host port of its record.  This *)
(* holds whatever the launches of other instances do meanwhile, a stray    *)
(* roll-back that releases the instance's own port included.               *)
(***************************************************************************)
RecordIsServed ==
    \A i \in Instances \ irregular :
        record[i] # None => container[i] = [state |-> "running", port |-> record[i]]

(***************************************************************************)
(* When the launches of such an instance have ended and it is not          *)
(* registered, nothing is left of them: no port is leased to it and no     *)
(* container of its name runs.                                             *)
(***************************************************************************)
FailedLeavesNothing ==
    \A i \in Instances \ irregular :
        ~UnderWay(i) /\ record[i] = None => Leased(i) = {} /\ container[i].state # "running"
=============================================================================
