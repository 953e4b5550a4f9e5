---------------------------- MODULE AgentTickets ----------------------------
(***************************************************************************)
(* Agent tickets (packages/agent-chat-server: agent-tickets.ts and the     *)
(* handlers of index.ts that change them).  A ticket walks through the     *)
(* checklist of a process: its current step is completed or blocked by the *)
(* agent's reply, blocked by the watchdog after three attempts, resumed by *)
(* a human comment, or selected by hand.  A session has at most one active *)
(* ticket; tickets move between sessions.  Memory is authoritative and is  *)
(* written through to one file per ticket and one index file, by separate  *)
(* writes: the process can be killed between two of them.                  *)
(*                                                                         *)
(* A checklist is modelled as the list of its executable steps, in the     *)
(* order of flattenExecutableSteps, where the steps nested in the options  *)
(* of a decision follow it; the status of a container step is derived from *)
(* its children by the code and is left out.                               *)
(***************************************************************************)
EXTENDS Naturals, Sequences

CONSTANTS
    Sessions, Tickets,
    NoSession, NoTicket,
    StepCount,    \* the number of executable steps of a process
    Options,      \* the options of its decision steps
    DecisionOf,   \* option -> the decision step it answers
    Outcome,      \* option -> what choosing it does
    Target,       \* option -> the step a "goto" finds, NoStep if it finds none
    Branch,       \* option -> the steps nested in it
    Templating,   \* whether selected processes have a config to confirm
    Stops         \* how the process may stop: "restart" (idle), "crash" (between two writes)

Steps == 1 .. StepCount
NoStep == 0
Outcomes == {"block", "complete", "branch", "goto", "next", "end"}

ASSUME NamesAssumption == NoSession \notin Sessions /\ NoTicket \notin Tickets
ASSUME StepsAssumption == StepCount \in Nat \ {0}
ASSUME OptionsAssumption ==
    /\ DecisionOf \in [Options -> Steps]
    /\ Outcome \in [Options -> Outcomes]
    /\ Target \in [Options -> Steps \union {NoStep}]
    /\ Branch \in [Options -> SUBSET Steps]
    /\ \A o \in Options : /\ Outcome[o] = "branch" => Branch[o] # {}
                          /\ \A i \in Branch[o] : i > DecisionOf[o]
ASSUME TemplatingAssumption == Templating \subseteq BOOLEAN
ASSUME StopsAssumption == Stops \subseteq {"restart", "crash"}

Nested == UNION {Branch[o] : o \in Options}
Replies == {"none", "done", "blocked", "confirm"} \union Options
Tokens == {"none", "complete", "blocked"}

VARIABLES
    tickets,    \* ticketCache: ticket -> its record, Absent when not in memory
    active,     \* activeTicketBySessionId: session -> ticket or NoTicket
    process,    \* session -> a procedural process blueprint is selected
    disk,       \* ticket -> the contents of its file, Absent when there is none
    index,      \* the contents of index.json, shaped as active
    writes,     \* the file writes the current handler has still to make
    requests    \* ticket -> what a process-config PATCH saw before awaiting its body

vars == <<tickets, active, process, disk, index, writes, requests>>

\* Mutant: the system blocks one attempt early.
TwoAttempts == 2

\* A system block follows this many attempts on one step.
MaxAttempts == 3
-----------------------------------------------------------------------------
(***************************************************************************)
(* Tickets as records: the updates are pure functions of a record r.       *)
(***************************************************************************)
NoMarks == [i \in Steps |-> "pending"]
FreshMarks == [NoMarks EXCEPT ![1] = "active"]

Absent == [session |-> NoSession, status |-> "absent", current |-> NoStep, marks |-> NoMarks,
           blockedBy |-> "none", attempts |-> 0, templated |-> FALSE, confirmed |-> FALSE]

\* The state a request saw is "pending" or "confirmed".
NoRequest == [session |-> NoSession, state |-> "none"]

NewTicket(s, templated) ==
    [session |-> s, status |-> "active", current |-> IF templated THEN NoStep ELSE 1,
     marks |-> IF templated THEN NoMarks ELSE FreshMarks,
     blockedBy |-> "none", attempts |-> 0, templated |-> templated, confirmed |-> ~templated]

\* Mutant: the attempts of the last step count against the next one.
StepToKeepingAttempts(r, marks, i) ==
    [r EXCEPT !.marks = marks, !.current = i, !.status = "active", !.blockedBy = "none"]

\* ticketWithNextStep: i becomes current; only the same step keeps its attempts.
StepTo(r, marks, i) ==
    [r EXCEPT !.marks = marks, !.current = i, !.status = "active", !.blockedBy = "none",
              !.attempts = IF i = r.current THEN r.attempts ELSE 0]

Finish(r, marks) ==
    [r EXCEPT !.marks = marks, !.current = NoStep, !.status = "completed", !.blockedBy = "none", !.attempts = 0]

BlockAt(r, who) ==
    [r EXCEPT !.marks = IF r.current = NoStep THEN r.marks ELSE [r.marks EXCEPT ![r.current] = "blocked"],
              !.status = "blocked", !.blockedBy = who, !.attempts = 0]

\* Mutant: the blocked step keeps its mark.
ResumeUnmarked(r) ==
    [r EXCEPT !.status = "active", !.blockedBy = "none", !.attempts = 0]

Resume(r) ==
    [r EXCEPT !.marks = IF r.current = NoStep THEN r.marks ELSE [r.marks EXCEPT ![r.current] = "active"],
              !.status = "active", !.blockedBy = "none", !.attempts = 0]

PendingAfter(marks, i) == {j \in Steps : j > i /\ marks[j] = "pending"}
Least(S) == CHOOSE i \in S : \A j \in S : i <= j

\* completeCurrentStep
Complete(r) ==
    LET marks == [r.marks EXCEPT ![r.current] = "completed"]
        rest  == PendingAfter(marks, r.current)
    IN  IF rest = {} THEN Finish(r, [i \in Steps |-> "completed"])
        ELSE StepTo(r, [marks EXCEPT ![Least(rest)] = "active"], Least(rest))

\* Mutant: a goto forgets to reset the steps it goes back over.
RewindOnlyTarget(marks, i) == [marks EXCEPT ![i] = "active"]

\* resetExecutableStepsFrom: i becomes active and every later step pending.
Rewind(marks, i) ==
    [j \in Steps |-> IF j = i THEN "active" ELSE IF j > i THEN "pending" ELSE marks[j]]

\* resolveDecisionOption
Choose(r, o) ==
    LET marks == [r.marks EXCEPT ![r.current] = "completed"]
        rest  == PendingAfter(marks, r.current)
        first == Least(Branch[o])
    IN  CASE Outcome[o] = "block"    -> BlockAt(r, "agent")
          [] Outcome[o] = "complete" -> Finish(r, marks)
          [] Outcome[o] = "branch"   -> StepTo(r, [marks EXCEPT ![first] = "active"], first)
          [] Outcome[o] = "goto" /\ Target[o] # NoStep ->
                StepTo(r, Rewind(marks, Target[o]), Target[o])
          [] Outcome[o] = "next" /\ rest # {} ->
                StepTo(r, [marks EXCEPT ![Least(rest)] = "active"], Least(rest))
          [] OTHER -> Finish(r, marks)

\* Mutant: checking the last step goes past the end.
SelectPastEnd(r, i, checked) ==
    LET n == IF checked THEN i + 1 ELSE i
    IN  [StepTo(r, [j \in Steps |-> IF j < n THEN "completed" ELSE IF j = n THEN "active" ELSE "pending"], n)
            EXCEPT !.attempts = 0]

\* selectStepForTicket: everything before i is satisfied, everything after it is pending.
Select(r, i, checked) ==
    LET upTo(n) == [j \in Steps |-> IF j < n THEN "completed" ELSE IF j = n THEN "active" ELSE "pending"]
        n == IF checked THEN i + 1 ELSE i
    IN  IF n \in Steps THEN [StepTo(r, upTo(n), n) EXCEPT !.attempts = 0]
        ELSE Finish(r, [j \in Steps |-> "completed"])

\* Mutant: new overrides always ask for a new confirmation.
ReconfigureAfresh(r, confirmed) ==
    [r EXCEPT !.confirmed = FALSE, !.marks = NoMarks, !.current = NoStep, !.blockedBy = "none", !.attempts = 0]

\* updateTicketProcessConfig: the checklist starts over, the status stays.
Reconfigure(r, confirmed) ==
    [r EXCEPT !.confirmed = confirmed, !.marks = IF confirmed THEN FreshMarks ELSE NoMarks,
              !.current = IF confirmed THEN 1 ELSE NoStep, !.blockedBy = "none", !.attempts = 0]

\* confirmActiveTicketProcessConfig
Confirm(r) ==
    [r EXCEPT !.confirmed = TRUE, !.marks = FreshMarks, !.current = 1, !.blockedBy = "none", !.attempts = 0]

\* activateTicketForSession, on the ticket it activates.
Activated(r) == IF r.status = "blocked" THEN Resume(r) ELSE [r EXCEPT !.attempts = 0]
-----------------------------------------------------------------------------
(***************************************************************************)
(* The files.  A handler changes memory at once and then makes its writes  *)
(* one after another; no other handler runs before they are done.          *)
(***************************************************************************)
TicketWrite(t, r) == [kind |-> "ticket", ticket |-> t, record |-> r]
IndexWrite(bindings) == [kind |-> "index", bindings |-> bindings]

\* Mutant: the index is written before the ticket it names.
SaveIndexFirst(t, r, bindings) == <<IndexWrite(bindings), TicketWrite(t, r)>>

\* Mutant: only the ticket is written.
SaveTicketOnly(t, r, bindings) == <<TicketWrite(t, r)>>

\* persistTicket
Save(t, r, bindings) == <<TicketWrite(t, r), IndexWrite(bindings)>>

Idle == writes = <<>>

\* getTicket: a ticket that is not in memory is read from its file.
GetTicket(t) == IF tickets[t] # Absent THEN tickets[t] ELSE disk[t]

\* persistTicket of the record r, when the bindings stay.
Update(t, r) ==
    /\ tickets' = [tickets EXCEPT ![t] = r]
    /\ writes' = Save(t, r, active)
    /\ UNCHANGED <<active, disk, index>>

\* writeTicket and writeIndex
Flush ==
    /\ writes # <<>>
    /\ LET w == Head(writes)
       IN  IF w.kind = "ticket"
           THEN disk' = [disk EXCEPT ![w.ticket] = w.record] /\ UNCHANGED index
           ELSE index' = w.bindings /\ UNCHANGED disk
    /\ writes' = Tail(writes)
    /\ UNCHANGED <<tickets, active, process, requests>>

\* readIndex and readTicket: a binding counts if the ticket it names can be read.
Bound(s) == index[s] # NoTicket /\ disk[index[s]] # Absent

\* loadCache: the bound tickets are read, and all of them only if none is bound.
Restart ==
    /\ Stops # {}
    /\ "crash" \in Stops \/ Idle
    /\ active' = [s \in Sessions |-> IF Bound(s) THEN index[s] ELSE NoTicket]
    /\ LET bound == {index[s] : s \in {x \in Sessions : Bound(x)}}
       IN  tickets' = [t \in Tickets |-> IF bound = {} \/ t \in bound THEN disk[t] ELSE Absent]
    /\ writes' = <<>>
    /\ requests' = [t \in Tickets |-> NoRequest]
    /\ UNCHANGED <<process, disk, index>>
-----------------------------------------------------------------------------
(***************************************************************************)
(* Selecting a process and an active ticket                                *)
(***************************************************************************)
\* Mutant: the bindings on disk keep the ticket of the process that was cleared.
Unbind(s) ==
    /\ active' = [active EXCEPT ![s] = NoTicket]
    /\ UNCHANGED <<tickets, disk, index, writes>>

\* clearActiveTicketForSession
Clear(s) ==
    /\ active' = [active EXCEPT ![s] = NoTicket]
    /\ writes' = IF active[s] = NoTicket THEN <<>> ELSE <<IndexWrite(active')>>
    /\ UNCHANGED <<tickets, disk, index>>

\* createOrReplaceSessionTicket, under a fresh id, after the previous binding was cleared.
SelectProcess(s, t, templated) ==
    /\ Idle
    /\ tickets[t] = Absent /\ disk[t] = Absent
    /\ process' = [process EXCEPT ![s] = TRUE]
    /\ LET cleared == [active EXCEPT ![s] = NoTicket]
           bound   == [active EXCEPT ![s] = t]
           r       == NewTicket(s, templated)
       IN  /\ tickets' = [tickets EXCEPT ![t] = r]
           /\ active' = bound
           /\ writes' = (IF active[s] = NoTicket THEN <<>> ELSE <<IndexWrite(cleared)>>) \o Save(t, r, bound)
    /\ UNCHANGED <<disk, index, requests>>

\* A process that is not procedural, or none, is selected.
ClearProcess(s) ==
    /\ Idle
    /\ process' = [process EXCEPT ![s] = FALSE]
    /\ Clear(s)
    /\ UNCHANGED requests

\* activateTicketForSession
Activate(s, t) ==
    /\ Idle
    /\ GetTicket(t).session = s /\ GetTicket(t).status # "completed"
    /\ active' = [active EXCEPT ![s] = t]
    /\ tickets' = [tickets EXCEPT ![t] = Activated(GetTicket(t))]
    /\ writes' = IF tickets'[t] = GetTicket(t) THEN <<IndexWrite(active')>> ELSE Save(t, tickets'[t], active')
    /\ UNCHANGED <<process, disk, index, requests>>

\* Mutant: a moved ticket stays bound to the session it leaves.
RebindingKeepsOld(t, s) == [active EXCEPT ![s] = t]

\* The bindings after t moves to s: t leaves any other session, s drops its ticket.
Rebinding(t, s) ==
    [x \in Sessions |-> IF x = s THEN t ELSE IF active[x] = t THEN NoTicket ELSE active[x]]

\* reassignTicketToSession, then activateTicketForSession
Reassign(t, s) ==
    /\ Idle
    /\ GetTicket(t).status \notin {"absent", "completed"}
    /\ LET rebound == [GetTicket(t) EXCEPT !.session = s]
           r       == Activated(rebound)
       IN  /\ active' = Rebinding(t, s)
           /\ tickets' = [tickets EXCEPT ![t] = r]
           /\ writes' = Save(t, rebound, active') \o (IF r = rebound THEN <<>> ELSE Save(t, r, active'))
    /\ UNCHANGED <<process, disk, index, requests>>

\* A handler or a GET reads a ticket that is not in memory and changes nothing else.
Lookup(t) ==
    /\ Idle
    /\ tickets[t] = Absent /\ disk[t] # Absent
    /\ tickets' = [tickets EXCEPT ![t] = disk[t]]
    /\ UNCHANGED <<active, process, disk, index, writes, requests>>
-----------------------------------------------------------------------------
(***************************************************************************)
(* The agent's replies, human messages and the watchdog                    *)
(***************************************************************************)
\* extractAssistantProcessSignal: which reply is read as a signal.  The current step
\* is not looked for among the steps nested in the options of a decision.
Hears(r, reply) ==
    /\ r.current # NoStep /\ r.current \notin Nested
    /\ reply \in {"done", "blocked"} \union {o \in Options : DecisionOf[o] = r.current}

\* resolveStepFromAssistantText
Answered(r, reply) ==
    CASE reply = "done"    -> Complete(r)
      [] reply = "blocked" -> BlockAt(r, "agent")
      [] OTHER             -> Choose(r, reply)

\* maybeMarkProcessBlueprintTerminal, on the active ticket
Terminal(r, procedural, token) ==
    CASE ~procedural \/ (r.status = "active" /\ (r.current # NoStep \/ ~r.confirmed)) -> r
      [] token = "complete" -> Finish(r, [i \in Steps |-> "completed"])
      [] token = "blocked"  -> BlockAt(r, "agent")
      [] OTHER -> r

\* A provider turn ends with a reply on a line of its own and perhaps, in the rest of
\* the text, the token that completes or blocks the whole process.
TurnReply(s, reply, token) ==
    /\ Idle
    /\ active[s] # NoTicket
    /\ LET t     == active[s]
           r     == tickets[t]
           heard == Hears(r, reply) /\ r.status = "active" /\ r.confirmed
           after == IF heard THEN Answered(r, reply) ELSE r
           last  == IF heard /\ after.status = "completed" THEN after ELSE Terminal(after, process[s], token)
       IN  /\ tickets' = [tickets EXCEPT ![t] = last]
           /\ writes' = (IF heard THEN Save(t, after, active) ELSE <<>>)
                        \o (IF last = after THEN <<>> ELSE Save(t, last, active))
    /\ UNCHANGED <<active, process, disk, index, requests>>

\* resumeBlockedActiveTicket, else resetSameStepAttemptCount
HumanMessage(s) ==
    /\ Idle
    /\ active[s] # NoTicket
    /\ LET r == tickets[active[s]]
       IN  IF r.status = "blocked" /\ r.current # NoStep
           THEN Update(active[s], Resume(r))
           ELSE r.attempts # 0 /\ Update(active[s], [r EXCEPT !.attempts = 0])
    /\ UNCHANGED <<process, requests>>

\* maybeTriggerSessionWatchdog, as far as it changes the active ticket
Nudge(s) ==
    /\ Idle
    /\ process[s] /\ active[s] # NoTicket
    /\ LET t       == active[s]
           nudged  == [tickets[t] EXCEPT !.blockedBy = "none", !.attempts = @ + 1]
           blocked == BlockAt(nudged, "system")
       IN  /\ tickets[t].status = "active" /\ tickets[t].current # NoStep
           /\ IF nudged.attempts < MaxAttempts
              THEN Update(t, nudged)
              ELSE /\ tickets' = [tickets EXCEPT ![t] = blocked]
                   /\ writes' = Save(t, nudged, active) \o Save(t, blocked, active)
                   /\ UNCHANGED <<active, disk, index>>
    /\ UNCHANGED <<process, requests>>
-----------------------------------------------------------------------------
(***************************************************************************)
(* The ticket view                                                         *)
(***************************************************************************)
\* selectStepForTicket
SelectStep(t, i, checked) ==
    /\ Idle
    /\ GetTicket(t).status \notin {"absent", "completed"}
    /\ Update(t, Select(GetTicket(t), i, checked))
    /\ UNCHANGED <<process, requests>>

\* A process-config PATCH reads its ticket and awaits its body.  On a ticket without a
\* process config it changes nothing and is left out.
ConfigRequest(t) ==
    /\ Idle
    /\ GetTicket(t).templated /\ requests[t] = NoRequest
    /\ tickets' = [tickets EXCEPT ![t] = GetTicket(t)]
    /\ requests' = [requests EXCEPT ![t] = [session |-> GetTicket(t).session,
                                           state |-> IF GetTicket(t).confirmed THEN "confirmed" ELSE "pending"]]
    /\ UNCHANGED <<active, process, disk, index, writes>>

\* The body arrives.  Overrides keep the confirmation state the request saw; confirming
\* acts on whatever ticket is active in the session, and only then compares the two.
ConfigPatch(t, overrides, confirm) ==
    /\ Idle
    /\ requests[t] # NoRequest
    /\ overrides \/ confirm
    /\ LET seen       == requests[t]
           r          == tickets[t]
           refused    == overrides /\ r.status = "completed"
           overridden == IF overrides /\ ~refused THEN Reconfigure(r, seen.state = "confirmed") ELSE r
           patched    == [tickets EXCEPT ![t] = overridden]
           home       == IF overrides THEN r.session ELSE seen.session
           confirms   == /\ confirm /\ ~refused /\ seen.state = "pending"
                         /\ active[home] # NoTicket
                         /\ ~patched[active[home]].confirmed
       IN  /\ tickets' = IF confirms THEN [patched EXCEPT ![active[home]] = Confirm(@)] ELSE patched
           /\ writes' = (IF overrides /\ ~refused THEN Save(t, overridden, active) ELSE <<>>)
                        \o (IF confirms THEN Save(active[home], tickets'[active[home]], active) ELSE <<>>)
    /\ requests' = [requests EXCEPT ![t] = NoRequest]
    /\ UNCHANGED <<active, process, disk, index>>
-----------------------------------------------------------------------------
Init ==
    /\ tickets = [t \in Tickets |-> Absent]
    /\ active = [s \in Sessions |-> NoTicket]
    /\ process = [s \in Sessions |-> FALSE]
    /\ disk = [t \in Tickets |-> Absent]
    /\ index = [s \in Sessions |-> NoTicket]
    /\ writes = <<>>
    /\ requests = [t \in Tickets |-> NoRequest]

Next ==
    \/ \E s \in Sessions, t \in Tickets, templated \in Templating : SelectProcess(s, t, templated)
    \/ \E s \in Sessions : ClearProcess(s) \/ HumanMessage(s) \/ Nudge(s)
    \/ \E s \in Sessions, reply \in Replies, token \in Tokens : TurnReply(s, reply, token)
    \/ \E s \in Sessions, t \in Tickets : Activate(s, t) \/ Reassign(t, s)
    \/ \E t \in Tickets, i \in Steps, checked \in BOOLEAN : SelectStep(t, i, checked)
    \/ \E t \in Tickets : Lookup(t) \/ ConfigRequest(t)
    \/ \E t \in Tickets, overrides, confirm \in BOOLEAN : ConfigPatch(t, overrides, confirm)
    \/ Flush
    \/ Restart

Spec == Init /\ [][Next]_vars
-----------------------------------------------------------------------------
Records ==
    [session : Sessions \union {NoSession}, status : {"absent", "active", "blocked", "completed"},
     current : Steps \union {NoStep}, marks : [Steps -> {"pending", "active", "blocked", "completed"}],
     blockedBy : {"none", "agent", "system"}, attempts : Nat,
     templated : BOOLEAN, confirmed : BOOLEAN]

Bindings == [Sessions -> Tickets \union {NoTicket}]

Writes == [kind : {"ticket"}, ticket : Tickets, record : Records] \union [kind : {"index"}, bindings : Bindings]

Requests == [session : Sessions \union {NoSession}, state : {"none", "pending", "confirmed"}]

TypeOK ==
    /\ tickets \in [Tickets -> Records]
    /\ active \in Bindings
    /\ process \in [Sessions -> BOOLEAN]
    /\ disk \in [Tickets -> Records]
    /\ index \in Bindings
    /\ writes \in Seq(Writes)
    /\ requests \in [Tickets -> Requests]

Marked(r, mark) == {i \in Steps : r.marks[i] = mark}

\* The checklist shows exactly the step the ticket is at: marked active while the ticket
\* is active, blocked while it is blocked, and no such mark once it is completed.  Every
\* transition rewrites checklist and current step separately.
ChecklistShowsCurrentStep ==
    \A t \in Tickets :
        LET r  == tickets[t]
            at == {r.current} \ {NoStep}
        IN  /\ Marked(r, "active") = IF r.status = "active" THEN at ELSE {}
            /\ Marked(r, "blocked") = IF r.status = "blocked" THEN at ELSE {}

\* Nothing ahead of the current step is done: a decision that goes back, and a boundary
\* the operator moves, put every later step back to pending.
StepsAheadArePending ==
    \A t \in Tickets : tickets[t].current # NoStep =>
        \A i \in Steps : i > tickets[t].current => tickets[t].marks[i] = "pending"

\* The attempts counted are attempts at the current step: they never outlive a move to
\* another step or a block, and they rise one at a time.
AttemptsAreAtThisStep ==
    [][\A t \in Tickets :
        tickets[t] # Absent /\ tickets'[t].attempts > 0 =>
            /\ tickets'[t].current = tickets[t].current /\ tickets'[t].status = "active"
            /\ tickets'[t].attempts <= tickets[t].attempts + 1]_vars

\* The system blocks a ticket only when the current step has not moved for three
\* attempts in a row, so a step that just became current is never blocked by it.
SystemBlocksOnlyTheThird ==
    [][\A t \in Tickets :
        tickets[t] # Absent /\ tickets[t].blockedBy # "system" /\ tickets'[t].blockedBy = "system" =>
            tickets[t].attempts >= 2]_vars

\* The ticket a session points at belongs to that session, so no ticket is active in two
\* sessions, whatever moves and process changes happen.
ActiveTicketIsOwn ==
    \A s \in Sessions : active[s] # NoTicket => tickets[active[s]].session = s

\* Whenever no handler runs, the files hold what memory holds, so that stopping the
\* process then loses nothing.
WrittenThrough ==
    Idle => index = active /\ \A t \in Tickets : tickets[t] # Absent => disk[t] = tickets[t]

\* A restart between handlers leaves each session on the ticket and the step it was at.
RestartKeepsFocus ==
    [][Restart => /\ active' = active
                  /\ \A s \in Sessions : active[s] # NoTicket => tickets'[active[s]] = tickets[active[s]]]_vars

\* Even if the process is killed between two writes, the index never names a ticket that
\* has no file: the file of a new ticket is written before the index that names it.
IndexNamesFiles ==
    \A s \in Sessions : index[s] # NoTicket => disk[index[s]] # Absent

\* A confirmed process config goes back to unconfirmed only through a PATCH that read
\* the ticket before the confirmation.
OnlyStalePatchUnconfirms ==
    [][\A t \in Tickets :
        tickets[t].confirmed /\ tickets'[t] # Absent /\ ~tickets'[t].confirmed =>
            requests[t].state = "pending"]_vars
=============================================================================
