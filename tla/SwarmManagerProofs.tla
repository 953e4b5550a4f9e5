------------------------- MODULE SwarmManagerProofs -------------------------
(***************************************************************************)
(* Proofs about the two models of the swarm manager.  Of ServiceLaunch,    *)
(* for any range of ports and any number of instances and launchers:       *)
(* undisturbed instances are served when registered and leave nothing      *)
(* behind when their launch failed; neither property is inductive, and     *)
(* what a launcher has done so far for an undisturbed instance is the      *)
(* strengthening.  Of WorkerLink, for any number of connections and of     *)
(* faults: the worker has one open session, the one the manager keeps.     *)
(***************************************************************************)
EXTENDS ServiceLaunch, WorkerLink, TLAPS

Served(i) == container[i] = [state |-> "running", port |-> record[i]]

\* A launcher of i has no rival, and holds no port but its own for it.
Alone(i) == \A l, k \in Launches : launch[l].inst = i /\ launch[k].inst = i => l = k

OnItsWay(l, i) ==
    /\ record[i] = None
    /\ Leased(i) \subseteq {launch[l].port}
    /\ launch[l].phase = "started" => container[i] = [state |-> "running", port |-> launch[l].port]
    /\ container[i].state = "running" => launch[l].made /\ launch[l].phase \in {"started", "failing"}

Regular(i) ==
    /\ Alone(i)
    /\ \A l \in Launches : launch[l].inst = i => OnItsWay(l, i)
    /\ record[i] # None => Served(i)
    /\ ~UnderWay(i) /\ record[i] = None => Leased(i) = {} /\ container[i].state # "running"

\* A launcher that has not ended has leased a port for an instance.
LaunchesNamed ==
    \A l \in Launches : launch[l].phase # "ended" => launch[l].inst \in Instances /\ launch[l].port \in Ports

LaunchInv == TypeOK /\ LaunchesNamed /\ \A i \in Instances \ irregular : Regular(i)

Containers == [state : {"none", "created", "running"}, port : Ports \cup {None}]
LaunchStates == [phase : Phases, inst : Instances \cup {None}, port : Ports \cup {None}, made : BOOLEAN]

USE PortsAssumption, InstancesAssumption DEF None, Launcher

LEMMA InitLaunch == Init => LaunchInv
<1> SUFFICES ASSUME Init PROVE LaunchInv
  OBVIOUS
<1>1. TypeOK /\ LaunchesNamed
  BY DEF Init, TypeOK, LaunchesNamed, Ended, NoContainer, Phases
<1>2. ASSUME NEW i \in Instances PROVE Regular(i)
  BY DEF Init, Regular, Alone, OnItsWay, UnderWay, Leased, Ended, NoContainer
<1> QED
  BY <1>1, <1>2 DEF LaunchInv

\* Instances whose own state is not touched stay as they are, even when a
\* port of theirs is released by somebody else.
LEMMA UntouchedStaysRegular ==
    ASSUME NEW i \in Instances, Regular(i),
           record'[i] = record[i], container'[i] = container[i],
           Leased(i)' \subseteq Leased(i),
           \A l \in Launches : launch'[l] = launch[l] \/ (launch[l].inst # i /\ launch'[l].inst # i)
    PROVE  Regular(i)'
BY DEF Regular, Alone, OnItsWay, UnderWay, Served

LEMMA LeaseKeepsRegular ==
    ASSUME LaunchInv, NEW l \in Launches, NEW i \in Instances, Lease(l, i)
    PROVE  LaunchInv'
<1>1. PICK p \in Allocated(i, None) :
        /\ lease' = [lease EXCEPT ![p] = i]
        /\ \/ /\ launch' = [launch EXCEPT ![l] = Launcher("leased", i, p, FALSE)]
              /\ irregular' = IF InUse(i) THEN irregular \cup {i}
                              ELSE IF Leased(i) = {} THEN irregular \ {i} ELSE irregular
           \/ /\ irregular' = irregular \cup {i}
              /\ UNCHANGED launch
  BY DEF Lease
<1>2. launch[l] = Ended /\ UNCHANGED <<record, container>>
  BY DEF Lease
<1>3. p \in Ports /\ (p \in Leased(i) \/ lease[p] = None)
  BY <1>1 DEF Allocated, Leased, Free, Lowest
<1>4. TypeOK' /\ LaunchesNamed'
  <2>1. lease' \in [Ports -> Instances \cup {None}] /\ irregular' \subseteq Instances
    BY <1>1, <1>3 DEF LaunchInv, TypeOK
  <2>2. launch' \in [Launches -> LaunchStates]
    <3>1. launch' = [launch EXCEPT ![l] = Launcher("leased", i, p, FALSE)] \/ launch' = launch
      BY <1>1
    <3>2. Launcher("leased", i, p, FALSE) \in LaunchStates
      BY <1>3 DEF LaunchStates, Phases
    <3>3. launch \in [Launches -> LaunchStates]
      BY DEF LaunchInv, TypeOK, LaunchStates
    <3> QED
      BY <3>1, <3>2, <3>3
  <2>3. LaunchesNamed'
    BY <1>1, <1>3 DEF LaunchInv, TypeOK, LaunchesNamed
  <2> QED
    BY <1>2, <2>1, <2>2, <2>3 DEF LaunchInv, TypeOK, LaunchStates
<1>5. ASSUME NEW j \in Instances \ irregular', j # i PROVE Regular(j)'
  <2>1. Regular(j)
    BY <1>1, <1>5 DEF LaunchInv
  <2>2. Leased(j)' \subseteq Leased(j)
    BY <1>1, <1>5 DEF Leased, LaunchInv, TypeOK
  <2>3. \A k \in Launches : launch'[k] = launch[k] \/ (launch[k].inst # j /\ launch'[k].inst # j)
    BY <1>1, <1>2, <1>5 DEF LaunchInv, TypeOK, Ended
  <2> QED
    BY <1>2, <2>1, <2>2, <2>3, UntouchedStaysRegular
<1>6. ASSUME i \notin irregular' PROVE Regular(i)'
  <2>1. /\ launch' = [launch EXCEPT ![l] = Launcher("leased", i, p, FALSE)]
        /\ ~InUse(i)
    BY <1>1, <1>6
  <2>2. Leased(i) = {}
    BY <1>1, <1>6, <2>1 DEF LaunchInv, Regular, InUse
  <2>3. Leased(i)' \subseteq {p}
    BY <1>1, <1>3, <2>2 DEF Leased, LaunchInv, TypeOK
  <2>4. \A k \in Launches : launch'[k].inst = i => k = l
    BY <2>1 DEF InUse, UnderWay, LaunchInv, TypeOK
  <2>5. launch'[l] = Launcher("leased", i, p, FALSE)
    BY <2>1 DEF LaunchInv, TypeOK
  <2>6. record'[i] = None /\ container'[i].state # "running"
    BY <1>2, <2>1 DEF InUse
  <2>7. Alone(i)' /\ UnderWay(i)'
    BY <2>4, <2>5 DEF Alone, UnderWay
  <2>8. OnItsWay(l, i)'
    BY <2>3, <2>5, <2>6 DEF OnItsWay
  <2> QED
    BY <2>4, <2>6, <2>7, <2>8 DEF Regular
<1> QED
  BY <1>4, <1>5, <1>6 DEF LaunchInv


\* Nothing is under way any more, and what there is of i is registered.
Closed(i) ==
    /\ record[i] # None => Served(i)
    /\ record[i] = None => Leased(i) = {} /\ container[i].state # "running"

\* The step of one launcher: it is enough to look at its own instance.
LEMMA LauncherKeepsRegular ==
    ASSUME LaunchInv, TypeOK', NEW l \in Launches, NEW i \in Instances,
           launch[l].inst = i,
           NEW new \in LaunchStates, launch' = [launch EXCEPT ![l] = new],
           new = Ended \/ (new.inst = i /\ new.port \in Ports),
           irregular' = irregular \/ irregular' = irregular \cup {i},
           \A j \in Instances \ {i} :
              record'[j] = record[j] /\ container'[j] = container[j] /\ Leased(j)' \subseteq Leased(j),
           i \notin irregular' /\ new = Ended => Closed(i)',
           i \notin irregular' /\ new # Ended => OnItsWay(l, i)'
    PROVE  LaunchInv'
<1>1. launch \in [Launches -> LaunchStates] /\ launch'[l] = new
  BY DEF LaunchInv, TypeOK, LaunchStates
<1>2. \A k \in Launches \ {l} : launch'[k] = launch[k]
  BY <1>1
<1>3. LaunchesNamed'
  BY <1>1, <1>2 DEF LaunchInv, LaunchesNamed, Ended
<1>4. ASSUME NEW j \in Instances \ irregular', j # i PROVE Regular(j)'
  <2>1. Regular(j)
    BY <1>4 DEF LaunchInv
  <2>2. new.inst # j
    BY <1>4 DEF Ended
  <2>3. \A k \in Launches : launch'[k] = launch[k] \/ (launch[k].inst # j /\ launch'[k].inst # j)
    BY <1>1, <1>2, <1>4, <2>2
  <2> QED
    BY <1>4, <2>1, <2>3, UntouchedStaysRegular
<1>5. ASSUME i \notin irregular' PROVE Regular(i)'
  <2>1. \A k \in Launches : launch[k].inst = i => k = l
    BY <1>5 DEF LaunchInv, Regular, Alone
  <2>2. \A k \in Launches : launch'[k].inst = i => k = l
    BY <1>1, <1>2, <2>1
  <2>3. Alone(i)'
    BY <2>2 DEF Alone
  <2>4. CASE new = Ended
    <3>1. ~UnderWay(i)' /\ \A k \in Launches : launch'[k].inst # i
      BY <1>1, <2>2, <2>4 DEF UnderWay, Ended
    <3> QED
      BY <1>5, <2>3, <2>4, <3>1 DEF Regular, Closed
  <2>5. CASE new # Ended
    <3>1. UnderWay(i)'
      BY <1>1, <2>5 DEF UnderWay
    <3>2. OnItsWay(l, i)'
      BY <1>5, <2>5
    <3>3. record'[i] = None
      BY <3>2 DEF OnItsWay
    <3> QED
      BY <2>2, <2>3, <3>1, <3>2, <3>3 DEF Regular
  <2> QED
    BY <2>4, <2>5
<1> QED
  BY <1>3, <1>4, <1>5 DEF LaunchInv

\* What is known of a launcher that has not ended.
LEMMA LaunchKnown ==
    ASSUME LaunchInv, NEW l \in Launches, launch[l].phase # "ended"
    PROVE  /\ launch[l] \in LaunchStates
           /\ launch[l].inst \in Instances /\ launch[l].port \in Ports
           /\ launch[l].inst \notin irregular => OnItsWay(l, launch[l].inst)
BY DEF LaunchInv, TypeOK, LaunchesNamed, LaunchStates, Regular

LEMMA RunContainerKeepsRegular ==
    ASSUME LaunchInv, NEW l \in Launches, RunContainer(l)
    PROVE  LaunchInv'
<1>1. PICK i \in Instances, p \in Ports :
        launch[l].inst = i /\ launch[l].port = p /\ launch[l] \in LaunchStates
        /\ (i \notin irregular => OnItsWay(l, i))
  BY LaunchKnown DEF RunContainer
<1>2. container' = [container EXCEPT ![i] = [state |-> "running", port |-> p]]
  BY <1>1 DEF RunContainer
<1>3. UNCHANGED <<lease, record, irregular>>
  BY DEF RunContainer
<1>4. PICK phase \in {"started", "failing"} :
        launch' = [launch EXCEPT ![l] = Launcher(phase, i, p, TRUE)]
  BY <1>1 DEF RunContainer
<1> DEFINE new == Launcher(phase, i, p, TRUE)
<1>5. launch' = [launch EXCEPT ![l] = new] /\ new \in LaunchStates
  BY <1>1, <1>4 DEF LaunchInv, TypeOK, LaunchStates, Phases
<1>6. TypeOK'
  BY <1>2, <1>3, <1>5 DEF LaunchInv, TypeOK, LaunchStates
<1>7. \A j \in Instances \ {i} :
        record'[j] = record[j] /\ container'[j] = container[j] /\ Leased(j)' \subseteq Leased(j)
  BY <1>2, <1>3 DEF LaunchInv, TypeOK, Leased
<1>8. launch'[l] = new /\ container'[i] = [state |-> "running", port |-> p]
  BY <1>2, <1>5 DEF LaunchInv, TypeOK
<1>9. i \notin irregular' => OnItsWay(l, i)'
  BY <1>1, <1>3, <1>8 DEF OnItsWay, Leased
<1>10. new # Ended /\ new.inst = i /\ new.port \in Ports
  BY DEF Ended
<1> HIDE DEF new
<1> QED
  BY <1>1, <1>3, <1>5, <1>6, <1>7, <1>9, <1>10, LauncherKeepsRegular

LEMMA RunFailsKeepsRegular ==
    ASSUME LaunchInv, NEW l \in Launches, RunFails(l)
    PROVE  LaunchInv'
<1>1. PICK i \in Instances, p \in Ports :
        launch[l].inst = i /\ launch[l].port = p /\ launch[l] \in LaunchStates
        /\ (i \notin irregular => OnItsWay(l, i))
  BY LaunchKnown DEF RunFails
<1>2. \/ UNCHANGED container
      \/ container' = [container EXCEPT ![i] = [state |-> "created", port |-> p]]
  BY <1>1 DEF RunFails
<1>3. UNCHANGED <<lease, record, irregular>> /\ launch[l].phase = "leased"
  BY DEF RunFails
<1> DEFINE new == Launcher("failing", i, p, launch[l].made)
<1>4. launch' = [launch EXCEPT ![l] = new]
  BY <1>1 DEF RunFails, Goes
<1>5. new \in LaunchStates
  BY <1>1 DEF LaunchStates, Phases
<1>6. TypeOK'
  BY <1>2, <1>3, <1>4, <1>5 DEF LaunchInv, TypeOK, LaunchStates
<1>7. \A j \in Instances \ {i} :
        record'[j] = record[j] /\ container'[j] = container[j] /\ Leased(j)' \subseteq Leased(j)
  BY <1>2, <1>3 DEF LaunchInv, TypeOK, Leased
<1>8. launch'[l] = new
  BY <1>4 DEF LaunchInv, TypeOK
<1>9. container'[i] = container[i] \/ container'[i] = [state |-> "created", port |-> p]
  BY <1>2 DEF LaunchInv, TypeOK
<1>10. i \notin irregular' => OnItsWay(l, i)'
  BY <1>1, <1>3, <1>8, <1>9 DEF OnItsWay, Leased
<1>11. new # Ended /\ new.inst = i /\ new.port \in Ports
  BY DEF Ended
<1> HIDE DEF new
<1> QED
  BY <1>1, <1>3, <1>4, <1>5, <1>6, <1>7, <1>10, <1>11, LauncherKeepsRegular

\* For an undisturbed instance, register finds its lease or takes it again.
LEMMA AllocatedIsOwn ==
    ASSUME NEW i \in Instances, NEW p \in Ports, Leased(i) \subseteq {p}, NEW q \in Allocated(i, p)
    PROVE  q = p
BY DEF Allocated, Leased, Free

LEMMA RegisterKeepsRegular ==
    ASSUME LaunchInv, NEW l \in Launches, Register(l)
    PROVE  LaunchInv'
<1>1. PICK i \in Instances, p \in Ports :
        launch[l].inst = i /\ launch[l].port = p /\ launch[l] \in LaunchStates
        /\ (i \notin irregular => OnItsWay(l, i))
  BY LaunchKnown DEF Register
<1>2. PICK q \in Allocated(i, p) :
        /\ lease' = [lease EXCEPT ![q] = i]
        /\ record' = [record EXCEPT ![i] = q]
        /\ \/ launch' = [launch EXCEPT ![l] = Ended] /\ UNCHANGED irregular
           \/ Goes(l, "failing") /\ irregular' = irregular \cup {i}
  BY <1>1 DEF Register, Requested
<1>3. UNCHANGED container /\ launch[l].phase = "started"
  BY DEF Register
<1>4. q \in Ports /\ lease[q] \in {i, None}
  BY <1>2 DEF Allocated, Leased, Free
<1>5. PICK new \in LaunchStates :
        /\ launch' = [launch EXCEPT ![l] = new]
        /\ new = Ended \/ (new.inst = i /\ new.port \in Ports)
        /\ new # Ended => i \in irregular'
  <2>1. CASE launch' = [launch EXCEPT ![l] = Ended]
    <3>1. Ended \in LaunchStates
      BY DEF Ended, LaunchStates, Phases
    <3> QED
      BY <2>1, <3>1
  <2>2. CASE Goes(l, "failing") /\ irregular' = irregular \cup {i}
    <3>1. Launcher("failing", i, p, launch[l].made) \in LaunchStates
      BY <1>1 DEF LaunchStates, Phases
    <3>2. launch' = [launch EXCEPT ![l] = Launcher("failing", i, p, launch[l].made)]
      BY <1>1, <2>2 DEF Goes
    <3> QED
      BY <2>2, <3>1, <3>2
  <2> QED
    BY <1>2, <2>1, <2>2
<1>6. irregular' = irregular \/ irregular' = irregular \cup {i}
  BY <1>2
<1>7. TypeOK'
  BY <1>2, <1>3, <1>4, <1>5, <1>6 DEF LaunchInv, TypeOK, LaunchStates
<1>8. \A j \in Instances \ {i} :
        record'[j] = record[j] /\ container'[j] = container[j] /\ Leased(j)' \subseteq Leased(j)
  BY <1>2, <1>3, <1>4 DEF LaunchInv, TypeOK, Leased
<1>9. i \notin irregular' /\ new = Ended => Closed(i)'
  <2> SUFFICES ASSUME i \notin irregular' PROVE Closed(i)'
    OBVIOUS
  <2>1. OnItsWay(l, i)
    BY <1>1, <1>6
  <2>2. q = p
    BY <1>2, <2>1, <1>1, AllocatedIsOwn DEF OnItsWay
  <2>3. record'[i] = p
    BY <1>2, <2>2 DEF LaunchInv, TypeOK
  <2> QED
    BY <1>1, <1>3, <2>1, <2>3 DEF OnItsWay, Closed, Served
<1> QED
  BY <1>1, <1>5, <1>6, <1>7, <1>8, <1>9, LauncherKeepsRegular

LEMMA RegisterFailsKeepsRegular ==
    ASSUME LaunchInv, NEW l \in Launches, RegisterFails(l)
    PROVE  LaunchInv'
<1>1. PICK i \in Instances, p \in Ports :
        launch[l].inst = i /\ launch[l].port = p /\ launch[l] \in LaunchStates
        /\ (i \notin irregular => OnItsWay(l, i))
  BY LaunchKnown DEF RegisterFails
<1>2. UNCHANGED <<lease, record, container, irregular>> /\ launch[l].phase = "started"
  BY DEF RegisterFails
<1> DEFINE new == Launcher("failing", i, p, launch[l].made)
<1>3. launch' = [launch EXCEPT ![l] = new]
  BY <1>1 DEF RegisterFails, Goes
<1>4. new \in LaunchStates
  BY <1>1 DEF LaunchStates, Phases
<1>5. TypeOK'
  BY <1>2, <1>3, <1>4 DEF LaunchInv, TypeOK, LaunchStates
<1>6. launch'[l] = new
  BY <1>3 DEF LaunchInv, TypeOK
<1>7. i \notin irregular' => OnItsWay(l, i)'
  BY <1>1, <1>2, <1>6 DEF OnItsWay, Leased
<1>8. new # Ended /\ new.inst = i /\ new.port \in Ports
  BY DEF Ended
<1>9. \A j \in Instances : Leased(j)' = Leased(j)
  BY <1>2 DEF Leased
<1> HIDE DEF new
<1> QED
  BY <1>1, <1>2, <1>3, <1>4, <1>5, <1>7, <1>8, <1>9, LauncherKeepsRegular

LEMMA RemoveContainerKeepsRegular ==
    ASSUME LaunchInv, NEW l \in Launches, RemoveContainer(l)
    PROVE  LaunchInv'
<1>1. PICK i \in Instances, p \in Ports :
        launch[l].inst = i /\ launch[l].port = p /\ launch[l] \in LaunchStates
        /\ (i \notin irregular => OnItsWay(l, i))
  BY LaunchKnown DEF RemoveContainer
<1>2. UNCHANGED <<lease, record>> /\ launch[l].phase = "failing"
  BY DEF RemoveContainer
<1>3. \/ /\ container' = [j \in Instances |-> IF j \in RolledBack(l) THEN NoContainer ELSE container[j]]
         /\ irregular' = irregular
      \/ container' = container /\ irregular' = irregular \cup RolledBack(l)
  BY DEF RemoveContainer
<1>rolled. \/ launch[l].made /\ RolledBack(l) = {i}
           \/ ~launch[l].made /\ RolledBack(l) = {}
  BY <1>1 DEF RolledBack, LaunchStates
<1>irr. irregular' = irregular \/ irregular' = irregular \cup {i}
  BY <1>3, <1>rolled
<1> DEFINE new == Launcher("releasing", i, p, launch[l].made)
<1>4. launch' = [launch EXCEPT ![l] = new]
  BY <1>1 DEF RemoveContainer, Goes
<1>5. new \in LaunchStates
  BY <1>1 DEF LaunchStates, Phases
<1>6. TypeOK'
  BY <1>2, <1>3, <1>4, <1>5, <1>irr DEF LaunchInv, TypeOK, LaunchStates, NoContainer
<1>7. \A j \in Instances \ {i} :
        record'[j] = record[j] /\ container'[j] = container[j] /\ Leased(j)' \subseteq Leased(j)
  BY <1>1, <1>2, <1>3, <1>rolled DEF LaunchInv, TypeOK, Leased
<1>8. launch'[l] = new
  BY <1>4 DEF LaunchInv, TypeOK
<1>9. i \notin irregular' => OnItsWay(l, i)'
  <2> SUFFICES ASSUME i \notin irregular' PROVE OnItsWay(l, i)'
    OBVIOUS
  <2>1. OnItsWay(l, i)
    BY <1>1, <1>irr
  <2>2. container'[i].state # "running"
    <3>1. CASE launch[l].made
      BY <1>3, <1>rolled, <3>1 DEF NoContainer
    <3>2. CASE ~launch[l].made
      BY <1>3, <1>rolled, <2>1, <3>2 DEF OnItsWay, LaunchInv, TypeOK
    <3> QED
      BY <3>1, <3>2
  <2> QED
    BY <1>1, <1>2, <1>8, <2>1, <2>2 DEF OnItsWay, Leased
<1>10. new # Ended /\ new.inst = i /\ new.port \in Ports
  BY DEF Ended
<1> HIDE DEF new
<1> QED
  BY <1>1, <1>4, <1>5, <1>6, <1>7, <1>9, <1>10, <1>irr, LauncherKeepsRegular

LEMMA ReleasePortKeepsRegular ==
    ASSUME LaunchInv, NEW l \in Launches, ReleasePort(l)
    PROVE  LaunchInv'
<1>1. PICK i \in Instances, p \in Ports :
        launch[l].inst = i /\ launch[l].port = p /\ launch[l] \in LaunchStates
        /\ (i \notin irregular => OnItsWay(l, i))
  BY LaunchKnown DEF ReleasePort
<1>2. UNCHANGED <<record, container>> /\ launch[l].phase = "releasing"
  BY DEF ReleasePort
<1>3. \/ lease' = [lease EXCEPT ![p] = None] /\ irregular' = irregular
      \/ lease' = lease /\ irregular' = irregular \cup {i}
  BY <1>1 DEF ReleasePort
<1>4. launch' = [launch EXCEPT ![l] = Ended] /\ Ended \in LaunchStates
  BY DEF ReleasePort, Ended, LaunchStates, Phases
<1>5. TypeOK'
  BY <1>2, <1>3, <1>4 DEF LaunchInv, TypeOK, LaunchStates
<1>6. \A j \in Instances : Leased(j)' \subseteq Leased(j)
  BY <1>3 DEF LaunchInv, TypeOK, Leased
<1>7. i \notin irregular' => Closed(i)'
  <2> SUFFICES ASSUME i \notin irregular' PROVE Closed(i)'
    OBVIOUS
  <2>1. OnItsWay(l, i) /\ lease' = [lease EXCEPT ![p] = None]
    BY <1>1, <1>3
  <2>2. Leased(i)' = {}
    BY <1>1, <2>1 DEF OnItsWay, Leased, LaunchInv, TypeOK
  <2> QED
    BY <1>2, <2>1, <2>2 DEF OnItsWay, Closed
<1> QED
  BY <1>1, <1>2, <1>3, <1>4, <1>5, <1>6, <1>7, LauncherKeepsRegular

LEMMA ReleaseServiceKeepsRegular ==
    ASSUME LaunchInv, NEW i \in Instances, ReleaseService(i)
    PROVE  LaunchInv'
<1>1. TypeOK' /\ LaunchesNamed'
  BY DEF LaunchInv, TypeOK, LaunchesNamed, ReleaseService
<1>2. ASSUME NEW j \in Instances \ irregular' PROVE Regular(j)'
  <2>1. Regular(j) /\ j # i
    BY <1>2 DEF LaunchInv, ReleaseService
  <2>2. Leased(j)' \subseteq Leased(j)
    BY <2>1 DEF Leased, ReleaseService
  <2> QED
    BY <2>1, <2>2, UntouchedStaysRegular DEF ReleaseService, LaunchInv, TypeOK
<1> QED
  BY <1>1, <1>2 DEF LaunchInv

LEMMA DockerRemoveKeepsRegular ==
    ASSUME LaunchInv, NEW i \in Instances, DockerRemove(i)
    PROVE  LaunchInv'
<1>1. container' = [container EXCEPT ![i] = NoContainer] /\ UNCHANGED <<lease, record, launch>>
  BY DEF DockerRemove
<1>2. irregular' = IF InUse(i) THEN irregular \cup {i} ELSE irregular
  BY DEF DockerRemove
<1>3. TypeOK' /\ LaunchesNamed'
  BY <1>1, <1>2 DEF LaunchInv, TypeOK, LaunchesNamed, NoContainer
<1>4. ASSUME NEW j \in Instances \ irregular' PROVE Regular(j)'
  <2>1. Regular(j)
    BY <1>2, <1>4 DEF LaunchInv
  <2>2. CASE j # i
    BY <1>1, <2>1, <2>2, UntouchedStaysRegular DEF LaunchInv, TypeOK, Leased
  <2>3. CASE j = i
    <3>1. ~InUse(i)
      BY <1>2, <1>4, <2>3
    <3> QED
      BY <1>1, <2>1, <2>3, <3>1 DEF Regular, Alone, UnderWay, InUse, Leased, LaunchInv, TypeOK, NoContainer
  <2> QED
    BY <2>2, <2>3
<1> QED
  BY <1>3, <1>4 DEF LaunchInv

LEMMA StutterKeepsRegular ==
    ASSUME LaunchInv, UNCHANGED vars
    PROVE  LaunchInv'
BY DEF vars, LaunchInv, TypeOK, LaunchesNamed, Regular, Alone, OnItsWay, Served, UnderWay, Leased

LEMMA StepKeepsRegular == LaunchInv /\ [Next]_vars => LaunchInv'
<1> SUFFICES ASSUME LaunchInv, [Next]_vars
             PROVE  LaunchInv'
  OBVIOUS
<1>1. ASSUME NEW l \in Launches, NEW i \in Instances, Lease(l, i) PROVE LaunchInv'
  BY <1>1, LeaseKeepsRegular
<1>2. ASSUME NEW l \in Launches, RunContainer(l) PROVE LaunchInv'
  BY <1>2, RunContainerKeepsRegular
<1>3. ASSUME NEW l \in Launches, RunFails(l) PROVE LaunchInv'
  BY <1>3, RunFailsKeepsRegular
<1>4. ASSUME NEW l \in Launches, Register(l) PROVE LaunchInv'
  BY <1>4, RegisterKeepsRegular
<1>5. ASSUME NEW l \in Launches, RegisterFails(l) PROVE LaunchInv'
  BY <1>5, RegisterFailsKeepsRegular
<1>6. ASSUME NEW l \in Launches, RemoveContainer(l) PROVE LaunchInv'
  BY <1>6, RemoveContainerKeepsRegular
<1>7. ASSUME NEW l \in Launches, ReleasePort(l) PROVE LaunchInv'
  BY <1>7, ReleasePortKeepsRegular
<1>8. ASSUME NEW i \in Instances, ReleaseService(i) PROVE LaunchInv'
  BY <1>8, ReleaseServiceKeepsRegular
<1>9. ASSUME NEW i \in Instances, DockerRemove(i) PROVE LaunchInv'
  BY <1>9, DockerRemoveKeepsRegular
<1>10. CASE UNCHANGED vars
  BY <1>10, StutterKeepsRegular
<1> QED
  BY <1>1, <1>2, <1>3, <1>4, <1>5, <1>6, <1>7, <1>8, <1>9, <1>10 DEF Next

THEOREM LaunchInvariant == Spec => []LaunchInv
<1> QED
  BY InitLaunch, StepKeepsRegular, PTL DEF Spec

(***************************************************************************)
(* In every behaviour the container of a registered, undisturbed instance  *)
(* runs on the port of its record: register takes a stolen lease again or  *)
(* fails, and only the launcher's own roll-back removes a container.       *)
(***************************************************************************)
THEOREM RecordServed == Spec => []RecordIsServed
<1>1. LaunchInv => RecordIsServed
  BY DEF LaunchInv, Regular, Served, RecordIsServed
<1> QED
  BY LaunchInvariant, <1>1, PTL

(***************************************************************************)
(* In every behaviour a launch that failed leaves an undisturbed instance  *)
(* neither a lease nor a running container.                                *)
(***************************************************************************)
THEOREM FailureLeavesNothing == Spec => []FailedLeavesNothing
<1>1. LaunchInv => FailedLeavesNothing
  BY DEF LaunchInv, Regular, FailedLeavesNothing
<1> QED
  BY LaunchInvariant, <1>1, PTL
-----------------------------------------------------------------------------
(***************************************************************************)
(* The link between a worker's agent and the manager.                      *)
(***************************************************************************)
Ends == {"none", "unauthenticated", "open", "closing"}

\* What an auth needs of the sockets it replaces, beside the property itself.
ServerTypeOK == server \in [Conns -> Ends]

SessionInv == ServerTypeOK /\ OneOpenSession

LEMMA InitSession == LinkInit => SessionInv
BY DEF LinkInit, SessionInv, ServerTypeOK, OneOpenSession, Ends

\* The agent and the network change no authenticated end.
LEMMA OthersKeepSession ==
    ASSUME SessionInv, UNCHANGED <<server, sessions>>
    PROVE  SessionInv'
BY DEF SessionInv, ServerTypeOK, OneOpenSession

LEMMA ConnectKeepsSession ==
    ASSUME SessionInv, NEW c \in Conns, Connect(c)
    PROVE  SessionInv'
BY DEF SessionInv, ServerTypeOK, OneOpenSession, Connect, book, Ends

\* An auth closes the session there was: no other end stays open.
LEMMA AuthenticateKeepsSession ==
    ASSUME SessionInv, NEW c \in Conns, Authenticate(c)
    PROVE  SessionInv'
<1>1. PICK after \in {"closing", "none"} :
        server' = [d \in Conns |-> IF d = c THEN "open" ELSE IF d \in Replaced(c) THEN after ELSE server[d]]
  BY DEF Authenticate
<1>2. sessions' = c
  BY DEF Authenticate
<1>3. ServerTypeOK'
  BY <1>1 DEF SessionInv, ServerTypeOK, Ends
<1>4. OneOpenSession'
  <2> SUFFICES ASSUME NEW d \in Conns, server'[d] = "open", d # c
               PROVE  FALSE
    BY <1>2 DEF OneOpenSession
  <2>1. d \notin Replaced(c) /\ server[d] = "open"
    BY <1>1
  <2>2. sessions = d
    BY <2>1 DEF SessionInv, OneOpenSession
  <2> QED
    BY <2>1, <2>2 DEF Replaced
<1> QED
  BY <1>3, <1>4 DEF SessionInv

\* A close takes away the session of its own socket only.
LEMMA CloseKeepsSession ==
    ASSUME SessionInv, NEW c \in Conns, Close(c)
    PROVE  SessionInv'
<1>1. server' = [server EXCEPT ![c] = "none"]
  BY DEF Close
<1>2. sessions' = sessions \/ sessions' = SessionAfterClose(c)
  BY DEF Close
<1> QED
  BY <1>1, <1>2 DEF SessionInv, ServerTypeOK, OneOpenSession, SessionAfterClose, Ends

LEMMA RestartKeepsSession == ManagerRestarts => SessionInv'
BY DEF ManagerRestarts, SessionInv, ServerTypeOK, OneOpenSession, Ends

LEMMA StepKeepsSession == SessionInv /\ [LinkNext]_linkVars => SessionInv'
<1> SUFFICES ASSUME SessionInv, [LinkNext]_linkVars
             PROVE  SessionInv'
  OBVIOUS
<1>1. CASE SocketCloses \/ ConnectFails \/ Beat \/ PostArrives
  BY <1>1, OthersKeepSession DEF SocketCloses, ConnectFails, Beat, PostArrives, wires, book
<1>2. CASE TimePasses \/ UpdateStaleWorkers \/ RefreshEc2InventoryWorkers
  BY <1>2, OthersKeepSession DEF TimePasses, UpdateStaleWorkers, RefreshEc2InventoryWorkers, wires
<1>3. CASE AgentDies \/ AgentStarts \/ HostStops \/ HostStarts
  BY <1>3, OthersKeepSession DEF AgentDies, AgentStarts, HostStops, HostStarts, wires, book
<1>4. CASE ManagerRestarts
  BY <1>4, RestartKeepsSession
<1>5. ASSUME NEW c \in Conns, Connect(c) PROVE SessionInv'
  BY <1>5, ConnectKeepsSession
<1>6. ASSUME NEW c \in Conns, Authenticate(c) PROVE SessionInv'
  BY <1>6, AuthenticateKeepsSession
<1>7. ASSUME NEW c \in Conns, Heartbeat(c) PROVE SessionInv'
  BY <1>7, OthersKeepSession DEF Heartbeat
<1>8. ASSUME NEW c \in Conns, Close(c) PROVE SessionInv'
  BY <1>8, CloseKeepsSession
<1>9. ASSUME NEW c \in Conns, LoseLink(c) PROVE SessionInv'
  BY <1>9, OthersKeepSession DEF LoseLink, book
<1>10. CASE UNCHANGED linkVars
  BY <1>10, OthersKeepSession DEF linkVars
<1> QED
  BY <1>1, <1>2, <1>3, <1>4, <1>5, <1>6, <1>7, <1>8, <1>9, <1>10 DEF LinkNext

(***************************************************************************)
(* In every behaviour an authenticated open socket of the worker is the    *)
(* session the manager keeps: replaced sockets are closed, and their late  *)
(* close handlers take nothing from the one that replaced them.            *)
(***************************************************************************)
THEOREM OneSession == LinkSpec => []OneOpenSession
<1>1. SessionInv => OneOpenSession
  BY DEF SessionInv
<1> QED
  BY InitSession, StepKeepsSession, <1>1, PTL DEF LinkSpec
=============================================================================
