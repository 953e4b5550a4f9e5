-------------------------- MODULE AgentTicketsProofs --------------------------
(***************************************************************************)
(* Proofs about AgentTickets, for every process, any number of sessions    *)
(* and tickets, and every way to stop.                                     *)
(*                                                                         *)
(* The proofs have two layers.  Good says what is true of one ticket       *)
(* wherever its record is kept, in memory, in its file or in a write still *)
(* to be made, and the operators on records keep it.  Plan says where the  *)
(* writes still to be made take the files: to what memory holds.           *)
(***************************************************************************)
EXTENDS AgentTickets, SequenceTheorems, WellFoundedInduction, TLAPS

Marks == {"pending", "active", "blocked", "completed"}

\* Nothing beyond the current step is done.
AheadPending(r) ==
    r.current # NoStep => \A i \in Steps : i > r.current => r.marks[i] = "pending"

At(r) == {r.current} \ {NoStep}

ShowsStep(r) ==
    /\ Marked(r, "active") = (IF r.status = "active" THEN At(r) ELSE {})
    /\ Marked(r, "blocked") = (IF r.status = "blocked" THEN At(r) ELSE {})

\* Some process has a config to confirm.
MayTemplate == TRUE \in Templating

\* A ticket: a record of one that exists.
Ticket(r) ==
    /\ r \in Records
    /\ r.session \in Sessions /\ r.status # "absent"
    /\ AheadPending(r)
    /\ r.templated \/ (r.confirmed /\ ShowsStep(r))
    /\ r.templated => MayTemplate
    /\ r.attempts > 0 => r.status = "active" /\ r.current # NoStep

Good(r) == r = Absent \/ Ticket(r)

\* q is the ticket r after a change.
Revises(q, r) == Ticket(q) /\ q.session = r.session /\ q.templated = r.templated

USE StepsAssumption DEF Steps, NoStep

\* Every set of steps but the empty one has a first.
LEMMA LeastStep ==
    ASSUME NEW S \in SUBSET Steps, S # {}
    PROVE  Least(S) \in S /\ \A i \in S : Least(S) <= i
<1>1. PICK x \in S : \A y \in S : ~(<<y, x>> \in OpToRel(<, Nat))
  <2>1. S \subseteq Nat
    OBVIOUS
  <2> QED
    BY <2>1, NatLessThanWellFounded, WFMin
<1>2. ASSUME NEW y \in S PROVE x <= y
  <2>1. x \in Nat /\ y \in Nat
    OBVIOUS
  <2>2. ~(y < x)
    BY <1>1, <2>1 DEF OpToRel
  <2> QED
    BY <2>1, <2>2
<1> QED
  BY <1>2 DEF Least

LEMMA AbsentType == Absent \in Records /\ ~Ticket(Absent)
BY DEF Absent, Records, NoMarks, Ticket

LEMMA GoodType == ASSUME NEW r, Good(r) PROVE r \in Records
BY AbsentType DEF Good, Ticket

LEMMA NewTicketIsTicket ==
    ASSUME NEW s \in Sessions, NEW templated \in Templating
    PROVE  Ticket(NewTicket(s, templated)) /\ NewTicket(s, templated).session = s
<1> DEFINE q == NewTicket(s, templated)
<1>0. templated \in BOOLEAN /\ (templated = TRUE => MayTemplate)
  BY TemplatingAssumption DEF MayTemplate
<1>1. NoMarks \in [Steps -> Marks] /\ FreshMarks \in [Steps -> Marks]
      /\ \A i \in Steps : FreshMarks[i] = IF i = 1 THEN "active" ELSE "pending"
  BY DEF NoMarks, FreshMarks, Marks
<1>2. /\ q \in Records /\ q.status = "active" /\ q.session = s /\ q.attempts = 0
      /\ q.templated = templated /\ q.confirmed = ~templated
      /\ ~templated => q.current = 1 /\ q.marks = FreshMarks
      /\ templated => q.current = 0
  BY <1>0, <1>1 DEF NewTicket, Records, Marks
<1> HIDE DEF q
<1>3. AheadPending(q)
  BY <1>1, <1>2 DEF AheadPending
<1>4. ~templated => ShowsStep(q)
  BY <1>1, <1>2 DEF ShowsStep, Marked, At
<1>5. (q.templated \/ (q.confirmed /\ ShowsStep(q))) /\ (q.templated => MayTemplate)
  <2>1. CASE templated = TRUE
    BY <1>0, <1>2, <2>1
  <2>2. CASE templated = FALSE
    BY <1>2, <1>4, <2>2
  <2> QED
    BY <1>0, <2>1, <2>2
<1>6. Ticket(q) /\ q.session = s
  BY <1>2, <1>3, <1>5 DEF Ticket
<1> QED
  BY <1>6 DEF q

\* A change of what the checklist does not show.
LEMMA SameStep ==
    ASSUME NEW r, Ticket(r), NEW q \in Records,
           q.session \in Sessions,
           q.status = r.status, q.current = r.current, q.marks = r.marks,
           q.templated = r.templated, q.confirmed = r.confirmed,
           q.attempts = 0 \/ q.attempts = r.attempts \/ (r.status = "active" /\ r.current # NoStep)
    PROVE  Ticket(q)
<1>1. AheadPending(q)
  BY DEF AheadPending, Ticket
<1>2. ShowsStep(r) => ShowsStep(q)
  BY DEF ShowsStep, Marked, At
<1> QED
  BY <1>1, <1>2 DEF Ticket, Records

LEMMA ResetIsTicket ==
    ASSUME NEW r, Ticket(r)
    PROVE  Revises([r EXCEPT !.attempts = 0], r)
<1> DEFINE q == [r EXCEPT !.attempts = 0]
<1>1. /\ q \in Records /\ q.attempts = 0
      /\ q.session = r.session /\ q.status = r.status /\ q.current = r.current /\ q.marks = r.marks
      /\ q.templated = r.templated /\ q.confirmed = r.confirmed
  BY DEF Ticket, Records
<1> QED
  BY <1>1, SameStep DEF Revises, Ticket

LEMMA MovedIsTicket ==
    ASSUME NEW r, Ticket(r), NEW s \in Sessions
    PROVE  /\ Ticket([r EXCEPT !.session = s])
           /\ [r EXCEPT !.session = s].session = s
           /\ [r EXCEPT !.session = s].templated = r.templated
<1> DEFINE q == [r EXCEPT !.session = s]
<1>1. /\ q \in Records /\ q.attempts = r.attempts
      /\ q.session = s /\ q.status = r.status /\ q.current = r.current /\ q.marks = r.marks
      /\ q.templated = r.templated /\ q.confirmed = r.confirmed
  BY DEF Ticket, Records
<1> QED
  BY <1>1, SameStep

LEMMA FinishIsTicket ==
    ASSUME NEW r, Ticket(r), NEW marks \in [Steps -> Marks],
           ~r.templated => \A j \in Steps : marks[j] \notin {"active", "blocked"}
    PROVE  Revises(Finish(r, marks), r)
<1> DEFINE q == Finish(r, marks)
<1>1. /\ q \in Records /\ q.attempts = 0
      /\ q.session = r.session /\ q.status = "completed" /\ q.current = NoStep /\ q.marks = marks
      /\ q.templated = r.templated /\ q.confirmed = r.confirmed
  BY DEF Ticket, Records, Finish, Marks
<1>2. AheadPending(q) /\ (~r.templated => ShowsStep(q))
  BY <1>1 DEF AheadPending, ShowsStep, Marked
<1> QED
  BY <1>1, <1>2 DEF Revises, Ticket

\* The step i is the one marked active, and what comes after it is pending.
LEMMA StepToIsTicket ==
    ASSUME NEW r, Ticket(r), NEW i \in Steps, NEW marks \in [Steps -> Marks],
           \A j \in Steps : j > i => marks[j] = "pending",
           ~r.templated => \A j \in Steps : (marks[j] = "active" <=> j = i) /\ marks[j] # "blocked"
    PROVE  Revises(StepTo(r, marks, i), r)
<1> DEFINE q == StepTo(r, marks, i)
<1>1. q \in Records /\ q.status = "active" /\ q.current = i /\ q.marks = marks
      /\ q.session = r.session /\ q.templated = r.templated /\ q.confirmed = r.confirmed
  BY DEF StepTo, Ticket, Records, Marks
<1>2. AheadPending(q) /\ (~r.templated => ShowsStep(q))
  BY <1>1 DEF ShowsStep, Marked, At, AheadPending
<1> QED
  BY <1>1, <1>2 DEF Revises, Ticket

\* The current step, if there is one, is marked anew, and the status follows.
LEMMA RemarkIsTicket ==
    ASSUME NEW r, Ticket(r), NEW status \in {"active", "blocked"}, NEW q \in Records,
           q.session = r.session, q.status = status, q.current = r.current, q.attempts = 0,
           q.marks = (IF r.current = NoStep THEN r.marks ELSE [r.marks EXCEPT ![r.current] = status]),
           q.templated = r.templated, q.confirmed = r.confirmed
    PROVE  Revises(q, r)
<1>1. r.marks \in [Steps -> Marks] /\ r.current \in Steps \union {NoStep}
      /\ r.status \in {"active", "blocked", "completed"}
  BY DEF Ticket, Records, Marks
<1>2. \A i \in Steps : q.marks[i] = IF i = r.current THEN status ELSE r.marks[i]
  BY <1>1
<1>3. AheadPending(q)
  BY <1>1, <1>2 DEF AheadPending, Ticket
<1>4. ASSUME ShowsStep(r) PROVE ShowsStep(q)
  <2>1. \A i \in Steps : i # r.current => r.marks[i] \notin {"active", "blocked"}
    BY <1>1, <1>4 DEF ShowsStep, Marked, At
  <2> QED
    BY <1>1, <1>2, <2>1 DEF ShowsStep, Marked, At
<1> QED
  BY <1>3, <1>4 DEF Ticket, Revises

LEMMA BlockIsTicket ==
    ASSUME NEW r, Ticket(r), NEW who \in {"agent", "system"}
    PROVE  Revises(BlockAt(r, who), r)
<1> DEFINE q == BlockAt(r, who)
<1>1. q \in Records
  BY DEF BlockAt, Ticket, Records
<1>2. /\ q.session = r.session /\ q.status = "blocked" /\ q.current = r.current /\ q.attempts = 0
      /\ q.marks = (IF r.current = NoStep THEN r.marks ELSE [r.marks EXCEPT ![r.current] = "blocked"])
      /\ q.templated = r.templated /\ q.confirmed = r.confirmed
  BY DEF BlockAt, Ticket, Records
<1> QED
  BY <1>1, <1>2, RemarkIsTicket

LEMMA ResumeIsTicket ==
    ASSUME NEW r, Ticket(r)
    PROVE  Revises(Resume(r), r)
<1> DEFINE q == Resume(r)
<1>1. q \in Records
  BY DEF Resume, Ticket, Records
<1>2. /\ q.session = r.session /\ q.status = "active" /\ q.current = r.current /\ q.attempts = 0
      /\ q.marks = (IF r.current = NoStep THEN r.marks ELSE [r.marks EXCEPT ![r.current] = "active"])
      /\ q.templated = r.templated /\ q.confirmed = r.confirmed
  BY DEF Resume, Ticket, Records
<1> QED
  BY <1>1, <1>2, RemarkIsTicket

LEMMA ActivatedIsTicket ==
    ASSUME NEW r, Ticket(r)
    PROVE  Revises(Activated(r), r)
BY ResumeIsTicket, ResetIsTicket DEF Activated

\* An active ticket whose current step is completed: what is left to do.
LEMMA StepDone ==
    ASSUME NEW r, Ticket(r), r.status = "active", r.current # NoStep,
           NEW marks, marks = [r.marks EXCEPT ![r.current] = "completed"]
    PROVE  /\ marks \in [Steps -> Marks]
           /\ \A j \in Steps : j > r.current => marks[j] = "pending"
           /\ ~r.templated => \A j \in Steps : marks[j] \notin {"active", "blocked"}
           /\ PendingAfter(marks, r.current) \in SUBSET Steps
           /\ \A j \in PendingAfter(marks, r.current) : j > r.current
<1>1. r.marks \in [Steps -> Marks] /\ r.current \in Steps
  BY DEF Ticket, Records, Marks
<1>2. \A j \in Steps : marks[j] = IF j = r.current THEN "completed" ELSE r.marks[j]
  BY <1>1
<1>3. ~r.templated => \A j \in Steps : j # r.current => r.marks[j] \notin {"active", "blocked"}
  BY <1>1 DEF Ticket, ShowsStep, Marked, At
<1> QED
  BY <1>1, <1>2, <1>3 DEF Ticket, AheadPending, Marks, PendingAfter

\* A later step becomes current.
LEMMA AdvanceIsTicket ==
    ASSUME NEW r, Ticket(r), r.status = "active", r.current # NoStep,
           NEW marks, marks = [r.marks EXCEPT ![r.current] = "completed"],
           NEW i \in Steps, i > r.current
    PROVE  Revises(StepTo(r, [marks EXCEPT ![i] = "active"], i), r)
<1> DEFINE next == [marks EXCEPT ![i] = "active"]
<1>1. /\ marks \in [Steps -> Marks] /\ r.current \in Steps
      /\ \A j \in Steps : j > r.current => marks[j] = "pending"
      /\ ~r.templated => \A j \in Steps : marks[j] \notin {"active", "blocked"}
  BY StepDone DEF Ticket, Records
<1>2. next \in [Steps -> Marks] /\ \A j \in Steps : next[j] = IF j = i THEN "active" ELSE marks[j]
  BY <1>1 DEF Marks
<1> HIDE DEF next
<1>3. \A j \in Steps : j > i => next[j] = "pending"
  BY <1>1, <1>2
<1>4. ~r.templated => \A j \in Steps : (next[j] = "active" <=> j = i) /\ next[j] # "blocked"
  BY <1>1, <1>2
<1>5. Revises(StepTo(r, next, i), r)
  BY <1>2, <1>3, <1>4, StepToIsTicket
<1> QED
  BY <1>5 DEF next

LEMMA CompleteIsTicket ==
    ASSUME NEW r, Ticket(r), r.status = "active", r.current # NoStep
    PROVE  Revises(Complete(r), r)
<1> DEFINE marks == [r.marks EXCEPT ![r.current] = "completed"]
           rest  == PendingAfter(marks, r.current)
           all   == [i \in Steps |-> "completed"]
<1>1. rest \in SUBSET Steps /\ \A j \in rest : j > r.current
  BY StepDone
<1>2. CASE rest = {}
  <2>1. all \in [Steps -> Marks] /\ \A j \in Steps : all[j] \notin {"active", "blocked"}
    BY DEF Marks
  <2>2. Revises(Finish(r, all), r)
    BY <2>1, FinishIsTicket
  <2> QED
    BY <1>2, <2>2 DEF Complete
<1>3. CASE rest # {}
  <2>1. Least(rest) \in Steps /\ Least(rest) > r.current
    BY <1>1, <1>3, LeastStep
  <2>2. Revises(StepTo(r, [marks EXCEPT ![Least(rest)] = "active"], Least(rest)), r)
    BY <2>1, AdvanceIsTicket
  <2> QED
    BY <1>3, <2>2 DEF Complete
<1> QED
  BY <1>2, <1>3

LEMMA RewindIsTicket ==
    ASSUME NEW r, Ticket(r), r.status = "active", r.current # NoStep,
           NEW marks, marks = [r.marks EXCEPT ![r.current] = "completed"],
           NEW i \in Steps
    PROVE  Revises(StepTo(r, Rewind(marks, i), i), r)
<1>1. /\ marks \in [Steps -> Marks]
      /\ ~r.templated => \A j \in Steps : marks[j] \notin {"active", "blocked"}
  BY StepDone
<1>2. Rewind(marks, i) \in [Steps -> Marks]
  BY <1>1 DEF Rewind, Marks
<1>3. \A j \in Steps : Rewind(marks, i)[j] = IF j = i THEN "active" ELSE IF j > i THEN "pending" ELSE marks[j]
  BY DEF Rewind
<1>4. \A j \in Steps : j > i => Rewind(marks, i)[j] = "pending"
  BY <1>3
<1>5. ~r.templated => \A j \in Steps : (Rewind(marks, i)[j] = "active" <=> j = i) /\ Rewind(marks, i)[j] # "blocked"
  BY <1>1, <1>3
<1> QED
  BY <1>2, <1>4, <1>5, StepToIsTicket

LEMMA ChooseIsTicket ==
    ASSUME NEW r, Ticket(r), r.status = "active", r.current # NoStep,
           NEW o \in Options, DecisionOf[o] = r.current
    PROVE  Revises(Choose(r, o), r)
<1> DEFINE marks == [r.marks EXCEPT ![r.current] = "completed"]
           rest  == PendingAfter(marks, r.current)
           first == Least(Branch[o])
<1>1. /\ marks \in [Steps -> Marks]
      /\ ~r.templated => \A j \in Steps : marks[j] \notin {"active", "blocked"}
      /\ rest \in SUBSET Steps /\ \A j \in rest : j > r.current
  BY StepDone
<1>2. Revises(BlockAt(r, "agent"), r)
  BY BlockIsTicket
<1>3. Revises(Finish(r, marks), r)
  BY <1>1, FinishIsTicket
<1>4. ASSUME Outcome[o] = "branch"
      PROVE  Revises(StepTo(r, [marks EXCEPT ![first] = "active"], first), r)
  <2>1. Branch[o] \in SUBSET Steps /\ Branch[o] # {} /\ \A i \in Branch[o] : i > r.current
    BY <1>4, OptionsAssumption
  <2>2. first \in Steps /\ first > r.current
    BY <2>1, LeastStep
  <2> QED
    BY <2>2, AdvanceIsTicket
<1>5. ASSUME Target[o] # NoStep
      PROVE  Revises(StepTo(r, Rewind(marks, Target[o]), Target[o]), r)
  <2>1. Target[o] \in Steps
    BY <1>5, OptionsAssumption
  <2> QED
    BY <2>1, RewindIsTicket
<1>6. ASSUME rest # {}
      PROVE  Revises(StepTo(r, [marks EXCEPT ![Least(rest)] = "active"], Least(rest)), r)
  <2>1. Least(rest) \in Steps /\ Least(rest) > r.current
    BY <1>1, <1>6, LeastStep
  <2> QED
    BY <2>1, AdvanceIsTicket
<1> QED
  BY <1>2, <1>3, <1>4, <1>5, <1>6 DEF Choose

LEMMA SelectIsTicket ==
    ASSUME NEW r, Ticket(r), NEW i \in Steps, NEW checked \in BOOLEAN
    PROVE  Revises(Select(r, i, checked), r)
<1> DEFINE upTo(n) == [j \in Steps |-> IF j < n THEN "completed" ELSE IF j = n THEN "active" ELSE "pending"]
           all == [j \in Steps |-> "completed"]
           n == IF checked THEN i + 1 ELSE i
<1>1. CASE n \in Steps
  <2>1. upTo(n) \in [Steps -> Marks] /\ \A j \in Steps : j > n => upTo(n)[j] = "pending"
    BY <1>1 DEF Marks
  <2>2. \A j \in Steps : (upTo(n)[j] = "active" <=> j = n) /\ upTo(n)[j] # "blocked"
    BY <1>1
  <2> DEFINE q == StepTo(r, upTo(n), n)
  <2>3. Revises(q, r)
    <3> HIDE DEF upTo, n
    <3> QED
      BY <1>1, <2>1, <2>2, StepToIsTicket
  <2> HIDE DEF q
  <2>4. Revises([q EXCEPT !.attempts = 0], r)
    BY <2>3, ResetIsTicket DEF Revises
  <2>5. Select(r, i, checked) = [q EXCEPT !.attempts = 0]
    BY <1>1 DEF Select, q
  <2> QED
    BY <2>4, <2>5
<1>2. CASE n \notin Steps
  <2>1. all \in [Steps -> Marks] /\ \A j \in Steps : all[j] \notin {"active", "blocked"}
    BY DEF Marks
  <2>2. Revises(Finish(r, all), r)
    BY <2>1, FinishIsTicket
  <2>3. Select(r, i, checked) = Finish(r, all)
    BY <1>2 DEF Select
  <2> QED
    BY <2>2, <2>3
<1> QED
  BY <1>1, <1>2

\* The checklist of a process with a config starts over.
LEMMA StartOverIsTicket ==
    ASSUME NEW r, Ticket(r), r.templated, NEW q \in Records,
           q.session = r.session, q.status = r.status, q.templated = r.templated, q.attempts = 0,
           q.current = NoStep \/ (q.current = 1 /\ q.marks = FreshMarks)
    PROVE  Revises(q, r)
<1>1. \A i \in Steps : i > 1 => FreshMarks[i] = "pending"
  BY DEF FreshMarks, NoMarks
<1> QED
  BY <1>1 DEF Revises, Ticket, AheadPending, Records

LEMMA ReconfigureIsTicket ==
    ASSUME NEW r, Ticket(r), r.templated, NEW confirmed \in BOOLEAN
    PROVE  Revises(Reconfigure(r, confirmed), r)
<1> DEFINE q == Reconfigure(r, confirmed)
<1>1. FreshMarks \in [Steps -> Marks] /\ NoMarks \in [Steps -> Marks] /\ 1 \in Steps
  BY DEF FreshMarks, NoMarks, Marks
<1>2. q \in Records
  BY <1>1 DEF Reconfigure, Ticket, Records, Marks
<1>3. /\ q.session = r.session /\ q.status = r.status /\ q.templated = r.templated /\ q.attempts = 0
      /\ q.current = NoStep \/ (q.current = 1 /\ q.marks = FreshMarks)
  BY DEF Reconfigure, Ticket, Records
<1> HIDE DEF q
<1>4. Revises(q, r)
  BY <1>2, <1>3, StartOverIsTicket
<1> QED
  BY <1>4 DEF q

\* Only a ticket with a config is ever unconfirmed.
LEMMA ConfirmIsTicket ==
    ASSUME NEW r, Ticket(r), ~r.confirmed
    PROVE  Revises(Confirm(r), r)
<1> DEFINE q == Confirm(r)
<1>1. FreshMarks \in [Steps -> Marks] /\ r.templated /\ 1 \in Steps
  BY DEF FreshMarks, NoMarks, Marks, Ticket
<1>2. q \in Records
  BY <1>1 DEF Confirm, Ticket, Records, Marks
<1>3. /\ q.session = r.session /\ q.status = r.status /\ q.templated = r.templated /\ q.attempts = 0
      /\ q.current = 1 /\ q.marks = FreshMarks
  BY DEF Confirm, Ticket, Records
<1> HIDE DEF q
<1>4. Revises(q, r)
  BY <1>1, <1>2, <1>3, StartOverIsTicket
<1> QED
  BY <1>4 DEF q

LEMMA NudgedIsTicket ==
    ASSUME NEW r, Ticket(r), r.status = "active", r.current # NoStep
    PROVE  Revises([r EXCEPT !.blockedBy = "none", !.attempts = @ + 1], r)
<1> DEFINE n == r.attempts + 1
           q == [r EXCEPT !.blockedBy = "none", !.attempts = n]
<1>0. n \in Nat
  BY DEF Ticket, Records
<1> HIDE DEF n
<1>1. /\ q \in Records
      /\ q.session = r.session /\ q.status = r.status /\ q.current = r.current /\ q.marks = r.marks
      /\ q.templated = r.templated /\ q.confirmed = r.confirmed
  BY <1>0 DEF Ticket, Records
<1> HIDE DEF q
<1>2. Revises(q, r)
  BY <1>1, SameStep DEF Revises, Ticket
<1> QED
  BY <1>2 DEF q, n

\* What a reply and a token make of the active ticket.
LEMMA AnsweredIsTicket ==
    ASSUME NEW r, Ticket(r), NEW reply \in Replies, Hears(r, reply), r.status = "active"
    PROVE  Revises(Answered(r, reply), r)
<1>1. r.current # NoStep /\ reply \in {"done", "blocked"} \union {o \in Options : DecisionOf[o] = r.current}
  BY DEF Hears
<1>2. reply = "done" => Revises(Answered(r, reply), r)
  BY <1>1, CompleteIsTicket DEF Answered
<1>3. reply = "blocked" => Revises(Answered(r, reply), r)
  BY BlockIsTicket DEF Answered
<1>4. reply \notin {"done", "blocked"} => Revises(Answered(r, reply), r)
  BY <1>1, ChooseIsTicket DEF Answered
<1> QED
  BY <1>2, <1>3, <1>4

LEMMA TerminalIsTicket ==
    ASSUME NEW r, Ticket(r), NEW procedural, NEW token
    PROVE  Revises(Terminal(r, procedural, token), r)
<1> DEFINE all == [i \in Steps |-> "completed"]
<1>1. all \in [Steps -> Marks] /\ \A j \in Steps : all[j] \notin {"active", "blocked"}
  BY DEF Marks
<1>2. Revises(Finish(r, all), r)
  BY <1>1, FinishIsTicket
<1>3. Revises(BlockAt(r, "agent"), r) /\ Revises(r, r)
  BY BlockIsTicket DEF Revises
<1> QED
  BY <1>2, <1>3 DEF Terminal
-----------------------------------------------------------------------------
(***************************************************************************)
(* The files.  A plan takes them, write by write, to the given records and *)
(* bindings; on the way the index never names a ticket without a file.     *)
(***************************************************************************)
Of(w, t) == w.kind = "ticket" /\ w.ticket = t

\* The last write of t's file writes r.
Brings(ws, t, r) ==
    \E k \in 1 .. Len(ws) : /\ Of(ws[k], t) /\ ws[k].record = r
                            /\ \A j \in 1 .. Len(ws) : j > k => ~Of(ws[j], t)

Spares(ws, t) == \A k \in 1 .. Len(ws) : ~Of(ws[k], t)

\* The last write of the index writes b.
Publishes(ws, b) ==
    \E k \in 1 .. Len(ws) : /\ ws[k].kind = "index" /\ ws[k].bindings = b
                            /\ \A j \in 1 .. Len(ws) : j > k => ws[j].kind # "index"

Silent(ws) == \A k \in 1 .. Len(ws) : ws[k].kind # "index"

\* An index names tickets that have a file by then.
Named(ws) ==
    \A k \in 1 .. Len(ws), s \in Sessions :
        ws[k].kind = "index" /\ ws[k].bindings[s] # NoTicket =>
            \/ disk[ws[k].bindings[s]] # Absent
            \/ \E j \in 1 .. Len(ws) : j < k /\ Of(ws[j], ws[k].bindings[s])

WritesTickets(ws) == \A k \in 1 .. Len(ws) : ws[k].kind = "ticket" => Ticket(ws[k].record)

Names(b, files) == \A s \in Sessions : b[s] # NoTicket => files[b[s]] # Absent

Plan(ws, files, b) ==
    /\ ws \in Seq(Writes) /\ WritesTickets(ws) /\ Named(ws)
    /\ files \in [Tickets -> Records] /\ \A t \in Tickets : Good(files[t])
    /\ b \in Bindings /\ Names(b, files)
    /\ \A t \in Tickets : files[t] # Absent =>
          Brings(ws, t, files[t]) \/ (Spares(ws, t) /\ disk[t] = files[t])
    /\ Publishes(ws, b) \/ (Silent(ws) /\ index = b)

LEMMA TicketWriteType ==
    ASSUME NEW t \in Tickets, NEW r, Ticket(r)
    PROVE  /\ TicketWrite(t, r) \in Writes /\ TicketWrite(t, r).kind = "ticket"
           /\ TicketWrite(t, r).record = r /\ TicketWrite(t, r).ticket = t
           /\ Of(TicketWrite(t, r), t) /\ \A u \in Tickets : Of(TicketWrite(t, r), u) => u = t
BY DEF TicketWrite, Writes, Of, Ticket

LEMMA IndexWriteType ==
    ASSUME NEW b \in Bindings
    PROVE  /\ IndexWrite(b) \in Writes /\ IndexWrite(b).kind = "index" /\ IndexWrite(b).bindings = b
           /\ \A u \in Tickets : ~Of(IndexWrite(b), u)
BY DEF IndexWrite, Writes, Of

\* One more write of a ticket's file.
LEMMA PlanTicket ==
    ASSUME NEW ws, NEW files, NEW b, Plan(ws, files, b), NEW t \in Tickets, NEW r, Ticket(r)
    PROVE  Plan(Append(ws, TicketWrite(t, r)), [files EXCEPT ![t] = r], b)
<1> DEFINE w == TicketWrite(t, r)
           vs == Append(ws, w)
           after == [files EXCEPT ![t] = r]
<1>1. /\ w \in Writes /\ w.kind = "ticket" /\ w.record = r
      /\ Of(w, t) /\ \A u \in Tickets : Of(w, u) => u = t
  BY TicketWriteType
<1>2. ws \in Seq(Writes)
  BY DEF Plan
<1> HIDE DEF w
<1>3. /\ vs \in Seq(Writes) /\ Len(vs) = Len(ws) + 1 /\ Len(ws) \in Nat
      /\ \A i \in 1 .. Len(ws) : vs[i] = ws[i]
      /\ vs[Len(ws) + 1] = w
  BY <1>1, <1>2
<1> HIDE DEF vs
<1>4. WritesTickets(vs)
  BY <1>1, <1>3 DEF Plan, WritesTickets
<1>5. Named(vs)
  BY <1>1, <1>3 DEF Plan, Named
<1>6. after \in [Tickets -> Records] /\ \A u \in Tickets : after[u] = IF u = t THEN r ELSE files[u]
  BY DEF Plan, Ticket
<1>7. \A u \in Tickets : Good(after[u])
  BY <1>6 DEF Plan, Good
<1>8. b \in Bindings /\ Names(b, after)
  BY <1>6, AbsentType DEF Plan, Names, Bindings
<1>9. ASSUME NEW u \in Tickets, after[u] # Absent
      PROVE  Brings(vs, u, after[u]) \/ (Spares(vs, u) /\ disk[u] = after[u])
  <2>1. CASE u = t
    BY <1>1, <1>3, <1>6, <2>1 DEF Brings
  <2>2. CASE u # t
    <3>1. ~Of(w, u) /\ after[u] = files[u]
      BY <1>1, <1>6, <2>2
    <3>2. CASE Brings(ws, u, files[u])
      BY <1>3, <3>1, <3>2 DEF Brings
    <3>3. CASE Spares(ws, u) /\ disk[u] = files[u]
      BY <1>3, <3>1, <3>3 DEF Spares
    <3> QED
      BY <1>9, <3>1, <3>2, <3>3 DEF Plan
  <2> QED
    BY <2>1, <2>2
<1>10. Publishes(vs, b) \/ (Silent(vs) /\ index = b)
  BY <1>1, <1>3 DEF Plan, Publishes, Silent
<1>11. Plan(vs, after, b)
  BY <1>3, <1>4, <1>5, <1>6, <1>7, <1>8, <1>9, <1>10 DEF Plan
<1> QED
  BY <1>11 DEF vs, w

\* One more write of the index, which names tickets that have a file by then.
LEMMA PlanIndex ==
    ASSUME NEW ws, NEW files, NEW b, Plan(ws, files, b), NEW after \in Bindings, Names(after, files)
    PROVE  Plan(Append(ws, IndexWrite(after)), files, after)
<1> DEFINE w == IndexWrite(after)
           vs == Append(ws, w)
<1>1. /\ w \in Writes /\ w.kind = "index" /\ w.bindings = after
      /\ \A u \in Tickets : ~Of(w, u)
  BY IndexWriteType
<1>2. ws \in Seq(Writes)
  BY DEF Plan
<1> HIDE DEF w
<1>3. /\ vs \in Seq(Writes) /\ Len(vs) = Len(ws) + 1 /\ Len(ws) \in Nat
      /\ \A i \in 1 .. Len(ws) : vs[i] = ws[i]
      /\ vs[Len(ws) + 1] = w
  BY <1>1, <1>2
<1> HIDE DEF vs
<1>4. WritesTickets(vs)
  BY <1>1, <1>3 DEF Plan, WritesTickets
<1>5. Named(vs)
  <2> SUFFICES ASSUME NEW k \in 1 .. Len(vs), NEW s \in Sessions,
                      vs[k].kind = "index", vs[k].bindings[s] # NoTicket
               PROVE  \/ disk[vs[k].bindings[s]] # Absent
                      \/ \E j \in 1 .. Len(vs) : j < k /\ Of(vs[j], vs[k].bindings[s])
    BY DEF Named
  <2>1. CASE k \in 1 .. Len(ws)
    BY <1>3, <2>1 DEF Plan, Named
  <2>2. CASE k = Len(ws) + 1
    <3> DEFINE u == after[s]
    <3>1. vs[k].bindings[s] = u /\ u \in Tickets /\ files[u] # Absent
      BY <1>1, <1>3, <2>2 DEF Names, Bindings
    <3>2. Brings(ws, u, files[u]) \/ disk[u] = files[u]
      BY <3>1 DEF Plan
    <3>3. CASE Brings(ws, u, files[u])
      BY <1>3, <2>2, <3>1, <3>3 DEF Brings
    <3> QED
      BY <3>1, <3>2, <3>3
  <2> QED
    BY <1>3, <2>1, <2>2
<1>6. ASSUME NEW u \in Tickets, files[u] # Absent
      PROVE  Brings(vs, u, files[u]) \/ (Spares(vs, u) /\ disk[u] = files[u])
  <2>1. CASE Brings(ws, u, files[u])
    BY <1>1, <1>3, <2>1 DEF Brings
  <2>2. CASE Spares(ws, u) /\ disk[u] = files[u]
    BY <1>1, <1>3, <2>2 DEF Spares
  <2> QED
    BY <1>6, <2>1, <2>2 DEF Plan
<1>7. Publishes(vs, after)
  BY <1>1, <1>3 DEF Publishes
<1>8. Plan(vs, files, after)
  BY <1>3, <1>4, <1>5, <1>6, <1>7 DEF Plan
<1> QED
  BY <1>8 DEF vs, w

\* persistTicket at the end of a plan.
LEMMA PlanSave ==
    ASSUME NEW ws, NEW files, NEW b, Plan(ws, files, b), NEW t \in Tickets, NEW r, Ticket(r),
           NEW after \in Bindings, Names(after, [files EXCEPT ![t] = r])
    PROVE  Plan(ws \o Save(t, r, after), [files EXCEPT ![t] = r], after)
<1> DEFINE w == TicketWrite(t, r)
           v == IndexWrite(after)
<1>1. Plan(Append(ws, w), [files EXCEPT ![t] = r], b)
  BY PlanTicket
<1>2. Plan(Append(Append(ws, w), v), [files EXCEPT ![t] = r], after)
  BY <1>1, PlanIndex
<1>3. w \in Writes /\ v \in Writes /\ ws \in Seq(Writes)
  BY TicketWriteType, IndexWriteType DEF Plan
<1>4. Append(Append(ws, w), v) = ws \o <<w, v>>
  <2> HIDE DEF w, v
  <2> QED
    BY <1>3
<1> QED
  BY <1>2, <1>4 DEF Save

\* The same where no write comes before.
LEMMA PlanFirstSave ==
    ASSUME NEW files, NEW b, Plan(<<>>, files, b), NEW t \in Tickets, NEW r, Ticket(r),
           NEW after \in Bindings, Names(after, [files EXCEPT ![t] = r])
    PROVE  Plan(Save(t, r, after), [files EXCEPT ![t] = r], after)
<1>1. Plan(<<>> \o Save(t, r, after), [files EXCEPT ![t] = r], after)
  BY PlanSave
<1>2. <<>> \o Save(t, r, after) = Save(t, r, after)
  BY TicketWriteType, IndexWriteType DEF Save
<1> QED
  BY <1>1, <1>2

LEMMA PlanFirstIndex ==
    ASSUME NEW files, NEW b, Plan(<<>>, files, b), NEW after \in Bindings, Names(after, files)
    PROVE  Plan(<<IndexWrite(after)>>, files, after)
<1>1. Plan(Append(<<>>, IndexWrite(after)), files, after)
  BY PlanIndex
<1>2. Append(<<>>, IndexWrite(after)) = <<IndexWrite(after)>>
  OBVIOUS
<1> QED
  BY <1>1, <1>2
-----------------------------------------------------------------------------
(***************************************************************************)
(* The inductive invariant: the pending writes take the files to what      *)
(* memory holds, and a request that awaits its body is about a ticket with *)
(* a process config.                                                       *)
(***************************************************************************)
FilesOK ==
    /\ disk \in [Tickets -> Records] /\ \A t \in Tickets : Good(disk[t])
    /\ index \in Bindings /\ IndexNamesFiles

RequestOK(q, r) ==
    q = NoRequest \/ (q.session \in Sessions /\ q.state \in {"pending", "confirmed"} /\ Ticket(r) /\ r.templated)

IInv ==
    /\ Plan(writes, tickets, active)
    /\ FilesOK
    /\ process \in [Sessions -> BOOLEAN]
    /\ requests \in [Tickets -> Requests] /\ \A t \in Tickets : RequestOK(requests[t], tickets[t])

USE NamesAssumption

LEMMA InitTickets == Init => IInv
<1> SUFFICES ASSUME Init PROVE IInv
  OBVIOUS
<1>1. tickets \in [Tickets -> Records] /\ \A t \in Tickets : tickets[t] = Absent /\ disk = tickets
  BY AbsentType DEF Init
<1>2. active \in Bindings /\ index = active /\ \A s \in Sessions : active[s] = NoTicket
  BY DEF Init, Bindings
<1>3. writes \in Seq(Writes) /\ writes = <<>> /\ Len(writes) = 0
  BY DEF Init
<1>4. Plan(writes, tickets, active)
  BY <1>1, <1>2, <1>3 DEF Plan, WritesTickets, Named, Names, Silent, Good
<1>5. FilesOK
  BY <1>1, <1>2, AbsentType DEF FilesOK, Good, IndexNamesFiles, Init
<1>6. requests \in [Tickets -> Requests] /\ \A t \in Tickets : requests[t] = NoRequest
  BY DEF Init, NoRequest, Requests
<1> QED
  BY <1>4, <1>5, <1>6 DEF IInv, Init, RequestOK

\* Between two handlers memory and files agree.
LEMMA IdlePlan ==
    ASSUME IInv, Idle
    PROVE  /\ Plan(<<>>, tickets, active) /\ index = active
           /\ \A t \in Tickets : tickets[t] # Absent => disk[t] = tickets[t]
<1>1. writes = <<>> /\ Len(writes) = 0
  BY DEF Idle
<1> QED
  BY <1>1 DEF IInv, Plan, Brings, Publishes

\* A ticket that is got, from memory or from its file.
LEMMA GotTicket ==
    ASSUME IInv, Idle, NEW t \in Tickets, GetTicket(t) # Absent
    PROVE  /\ Ticket(GetTicket(t))
           /\ GetTicket(t) = disk[t]
           /\ tickets[t] # Absent => GetTicket(t) = tickets[t]
           /\ Plan(<<>>, [tickets EXCEPT ![t] = GetTicket(t)], active)
<1>1. Good(tickets[t]) /\ Good(disk[t])
  BY DEF IInv, Plan, FilesOK
<1>2. Ticket(GetTicket(t)) /\ (tickets[t] # Absent => GetTicket(t) = tickets[t])
  BY <1>1 DEF GetTicket, Good
<1>3. GetTicket(t) = disk[t]
  BY IdlePlan DEF GetTicket
<1> DEFINE files == [tickets EXCEPT ![t] = GetTicket(t)]
<1>4. tickets \in [Tickets -> Records] /\ Plan(<<>>, tickets, active)
  BY IdlePlan DEF IInv, Plan
<1>5. files \in [Tickets -> Records] /\ \A u \in Tickets : files[u] = IF u = t THEN GetTicket(t) ELSE tickets[u]
  BY <1>2, <1>4 DEF Ticket
<1> HIDE DEF files
<1>6. \A u \in Tickets : Good(files[u])
  BY <1>2, <1>4, <1>5 DEF Plan, Good
<1>7. Names(active, files)
  BY <1>2, <1>4, <1>5, AbsentType DEF Plan, Names, Bindings
<1>8. \A u \in Tickets : files[u] # Absent => Spares(<<>>, u) /\ disk[u] = files[u]
  BY <1>3, <1>5, IdlePlan DEF Spares
<1>9. Plan(<<>>, files, active)
  BY <1>4, <1>5, <1>6, <1>7, <1>8 DEF Plan
<1> QED
  BY <1>2, <1>3, <1>9 DEF files

\* Saving a ticket never takes away what the bindings name.
LEMMA NamesKept ==
    ASSUME NEW files \in [Tickets -> Records], NEW b \in Bindings, Names(b, files),
           NEW t \in Tickets, NEW r, Ticket(r)
    PROVE  Names(b, [files EXCEPT ![t] = r])
BY AbsentType DEF Names, Bindings

\* The ticket a session points at is in memory.
LEMMA ActiveInMemory ==
    ASSUME IInv, NEW s \in Sessions, active[s] # NoTicket
    PROVE  /\ active[s] \in Tickets /\ Ticket(tickets[active[s]])
           /\ tickets[active[s]] \in Records /\ tickets[active[s]] # Absent
BY AbsentType DEF IInv, Plan, Names, Bindings, Good, Ticket

(***************************************************************************)
(* What a handler has to show: where its writes take the files, and that   *)
(* tickets in memory stay what they are.                                   *)
(***************************************************************************)
Lasting == \A t \in Tickets : tickets[t] # Absent =>
              tickets'[t] # Absent /\ tickets'[t].templated = tickets[t].templated

LEMMA HandlerKeeps ==
    ASSUME IInv, UNCHANGED <<disk, index>>, Plan(writes', tickets', active'), Lasting,
           process' \in [Sessions -> BOOLEAN],
           requests' = requests \/ \E t \in Tickets : requests' = [requests EXCEPT ![t] = NoRequest]
    PROVE  IInv'
<1>0. /\ requests' \in [Tickets -> Requests]
      /\ \A t \in Tickets : requests'[t] = requests[t] \/ requests'[t] = NoRequest
  BY DEF IInv, NoRequest, Requests
<1>1. Plan(writes, tickets, active)'
  BY DEF Plan, Named
<1>2. FilesOK'
  BY DEF IInv, FilesOK, IndexNamesFiles
<1>3. \A t \in Tickets : Good(tickets'[t])
  BY DEF Plan
<1>4. \A t \in Tickets : RequestOK(requests'[t], tickets'[t])
  BY <1>0, <1>3, AbsentType DEF IInv, RequestOK, Lasting, Good
<1> QED
  BY <1>0, <1>1, <1>2, <1>4 DEF IInv

\* A ticket revised and saved, the bindings untouched.
LEMMA UpdateKeeps ==
    ASSUME IInv, Idle, NEW t \in Tickets, GetTicket(t) # Absent, NEW r, Revises(r, GetTicket(t)), Update(t, r),
           UNCHANGED <<process, requests>>
    PROVE  IInv' /\ (ActiveTicketIsOwn => ActiveTicketIsOwn')
<1>1. Plan(<<>>, tickets, active) /\ Ticket(r) /\ tickets \in [Tickets -> Records]
  BY IdlePlan DEF Revises, IInv, Plan
<1>2. Names(active, [tickets EXCEPT ![t] = r]) /\ active \in Bindings
  BY <1>1, NamesKept DEF Plan
<1>3. Plan(writes', tickets', active')
  BY <1>1, <1>2, PlanFirstSave DEF Update
<1>4. Lasting
  BY <1>1, GotTicket, AbsentType DEF Lasting, Update, Revises
<1>5. IInv'
  BY <1>3, <1>4, HandlerKeeps DEF Update, IInv
<1>6. ActiveTicketIsOwn => ActiveTicketIsOwn'
  BY <1>1, ActiveInMemory, GotTicket DEF ActiveTicketIsOwn, Update, Revises
<1> QED
  BY <1>5, <1>6

\* One write is made.
LEMMA FlushKeeps ==
    ASSUME IInv, Flush
    PROVE  IInv'
<1> DEFINE w == writes[1]
<1>1. /\ writes \in Seq(Writes) /\ writes # <<>> /\ writes' \in Seq(Writes)
      /\ Len(writes) \in Nat /\ Len(writes) >= 1 /\ Len(writes') = Len(writes) - 1
      /\ \A i \in 1 .. Len(writes') : writes'[i] = writes[i + 1]
      /\ Head(writes) = w /\ w \in Writes
  BY DEF Flush, IInv, Plan
<1>2. UNCHANGED <<tickets, active, process, requests>>
  BY DEF Flush
<1>3. \/ /\ w.kind = "ticket" /\ w.ticket \in Tickets /\ Ticket(w.record)
         /\ disk' = [disk EXCEPT ![w.ticket] = w.record] /\ index' = index
      \/ /\ w.kind = "index" /\ w.bindings \in Bindings
         /\ index' = w.bindings /\ disk' = disk
  <2>1. w.kind = "ticket" => Ticket(w.record)
    BY <1>1 DEF IInv, Plan, WritesTickets
  <2>2. \/ w.kind = "ticket" /\ w.ticket \in Tickets
        \/ w.kind = "index" /\ w.bindings \in Bindings
    BY <1>1 DEF Writes
  <2> QED
    BY <1>1, <2>1, <2>2 DEF Flush
<1> HIDE DEF w
<1>4. \A j \in 1 .. Len(writes) : j # 1 => j - 1 \in 1 .. Len(writes') /\ writes'[j - 1] = writes[j]
  BY <1>1
<1>5. \A j \in 1 .. Len(writes') : j + 1 \in 1 .. Len(writes) /\ writes'[j] = writes[j + 1]
  BY <1>1
<1>6. \A t \in Tickets : disk'[t] = IF Of(w, t) THEN w.record ELSE disk[t]
  BY <1>3 DEF IInv, FilesOK, Of
<1>7. \A t \in Tickets : Of(w, t) => Ticket(w.record)
  BY <1>3 DEF Of
<1>8. \A t \in Tickets : disk[t] # Absent \/ Of(w, t) => disk'[t] # Absent
  BY <1>6, <1>7, AbsentType
<1>9. WritesTickets(writes')
  BY <1>5 DEF IInv, Plan, WritesTickets
<1>10. Named(writes)'
  <2> SUFFICES ASSUME NEW k \in 1 .. Len(writes'), NEW s \in Sessions,
                      writes'[k].kind = "index", writes'[k].bindings[s] # NoTicket
               PROVE  \/ disk'[writes'[k].bindings[s]] # Absent
                      \/ \E j \in 1 .. Len(writes') : j < k /\ Of(writes'[j], writes'[k].bindings[s])
    BY DEF Named, Of
  <2> DEFINE u == writes'[k].bindings[s]
  <2>1. k + 1 \in 1 .. Len(writes) /\ writes'[k] = writes[k + 1]
    BY <1>5
  <2>2. \/ disk[u] # Absent
        \/ \E j \in 1 .. Len(writes) : j < k + 1 /\ Of(writes[j], u)
    BY <2>1 DEF IInv, Plan, Named
  <2>3. u \in Tickets
    <3>1. writes'[k] \in Writes
      BY <1>1
    <3> QED
      BY <3>1 DEF Writes, Bindings
  <2>4. CASE disk[u] # Absent
    BY <1>8, <2>3, <2>4
  <2>5. ASSUME NEW j \in 1 .. Len(writes), j < k + 1, Of(writes[j], u)
        PROVE  disk'[u] # Absent \/ \E i \in 1 .. Len(writes') : i < k /\ Of(writes'[i], u)
    <3>1. CASE j = 1
      BY <1>8, <2>3, <2>5, <3>1 DEF w
    <3>2. CASE j # 1
      <4>1. j - 1 \in 1 .. Len(writes') /\ writes'[j - 1] = writes[j] /\ j - 1 < k
        BY <1>4, <2>5, <3>2
      <4>2. Of(writes'[j - 1], u)
        BY <2>5, <4>1
      <4> QED
        BY <4>1, <4>2
    <3> QED
      BY <3>1, <3>2
  <2> QED
    BY <2>2, <2>4, <2>5
<1>11. ASSUME NEW t \in Tickets, tickets[t] # Absent
       PROVE  Brings(writes', t, tickets[t]) \/ (Spares(writes', t) /\ disk'[t] = tickets[t])
  <2>1. CASE Brings(writes, t, tickets[t])
    <3>1. PICK k \in 1 .. Len(writes) :
            /\ Of(writes[k], t) /\ writes[k].record = tickets[t]
            /\ \A j \in 1 .. Len(writes) : j > k => ~Of(writes[j], t)
      BY <2>1 DEF Brings
    <3>2. CASE k = 1
      <4>1. \A j \in 1 .. Len(writes') : ~Of(writes'[j], t)
        BY <1>1, <1>5, <3>1, <3>2
      <4> QED
        BY <1>6, <3>1, <3>2, <4>1 DEF Spares, w
    <3>3. CASE k # 1
      <4>1. k - 1 \in 1 .. Len(writes') /\ writes'[k - 1] = writes[k]
        BY <1>4, <3>3
      <4>2. \A j \in 1 .. Len(writes') : j > k - 1 => ~Of(writes'[j], t)
        BY <1>1, <1>5, <3>1
      <4> QED
        BY <3>1, <4>1, <4>2 DEF Brings
    <3> QED
      BY <3>2, <3>3
  <2>2. CASE Spares(writes, t) /\ disk[t] = tickets[t]
    <3>1. ~Of(w, t) /\ \A j \in 1 .. Len(writes') : ~Of(writes'[j], t)
      BY <1>1, <1>5, <2>2 DEF Spares, w
    <3> QED
      BY <1>6, <2>2, <3>1 DEF Spares
  <2> QED
    BY <1>11, <2>1, <2>2 DEF IInv, Plan
<1>12. Publishes(writes', active) \/ (Silent(writes') /\ index' = active)
  <2>1. CASE Publishes(writes, active)
    <3>1. PICK k \in 1 .. Len(writes) :
            /\ writes[k].kind = "index" /\ writes[k].bindings = active
            /\ \A j \in 1 .. Len(writes) : j > k => writes[j].kind # "index"
      BY <2>1 DEF Publishes
    <3>2. CASE k = 1
      <4>1. Silent(writes')
        BY <1>1, <1>5, <3>1, <3>2 DEF Silent
      <4> QED
        BY <1>3, <3>1, <3>2, <4>1 DEF w
    <3>3. CASE k # 1
      <4>1. k - 1 \in 1 .. Len(writes') /\ writes'[k - 1] = writes[k]
        BY <1>4, <3>3
      <4>2. \A j \in 1 .. Len(writes') : j > k - 1 => writes'[j].kind # "index"
        BY <1>1, <1>5, <3>1
      <4> QED
        BY <3>1, <4>1, <4>2 DEF Publishes
    <3> QED
      BY <3>2, <3>3
  <2>2. CASE Silent(writes) /\ index = active
    <3>1. w.kind # "index" /\ Silent(writes')
      BY <1>1, <1>5, <2>2 DEF Silent, w
    <3> QED
      BY <1>3, <2>2, <3>1
  <2> QED
    BY <2>1, <2>2 DEF IInv, Plan
<1>13. FilesOK'
  <2>1. disk' \in [Tickets -> Records] /\ \A t \in Tickets : Good(disk'[t])
    BY <1>3, <1>6, <1>7 DEF IInv, FilesOK, Good, Ticket
  <2>2. CASE index' = index
    BY <1>8, <2>1, <2>2 DEF IInv, FilesOK, IndexNamesFiles, Bindings
  <2>3. CASE w.kind = "index" /\ index' = w.bindings /\ w.bindings \in Bindings
    <3>1. \A s \in Sessions : w.bindings[s] # NoTicket => disk[w.bindings[s]] # Absent
      BY <1>1, <2>3 DEF IInv, Plan, Named, w
    <3> QED
      BY <1>8, <2>1, <2>3, <3>1 DEF FilesOK, IndexNamesFiles, Bindings
  <2> QED
    BY <1>3, <2>2, <2>3
<1>14. Plan(writes, tickets, active)'
  BY <1>1, <1>2, <1>9, <1>10, <1>11, <1>12 DEF IInv, Plan, Brings, Spares, Publishes, Silent, WritesTickets
<1> QED
  BY <1>2, <1>13, <1>14 DEF IInv

\* The process dies, between two writes or between two handlers, and starts again.
LEMMA RestartKeeps ==
    ASSUME IInv, Restart
    PROVE  /\ IInv'
           /\ active' = index
           /\ \A t \in Tickets : tickets'[t] = disk[t] \/ tickets'[t] = Absent
           /\ \A s \in Sessions : active'[s] # NoTicket => tickets'[active'[s]] = disk[active'[s]]
<1> DEFINE bound == {index[s] : s \in {x \in Sessions : Bound(x)}}
<1>1. /\ index \in Bindings /\ \A s \in Sessions : index[s] # NoTicket => Bound(s)
      /\ disk \in [Tickets -> Records] /\ \A t \in Tickets : Good(disk[t])
  BY DEF IInv, FilesOK, IndexNamesFiles, Bound
<1>2. active' = index
  BY <1>1 DEF Restart, Bindings, Bound
<1>3. tickets' = [t \in Tickets |-> IF bound = {} \/ t \in bound THEN disk[t] ELSE Absent]
  BY DEF Restart
<1>4. \A s \in Sessions : index[s] # NoTicket => index[s] \in bound
  BY <1>1
<1> HIDE DEF bound
<1>5. tickets' \in [Tickets -> Records] /\ \A t \in Tickets : Good(tickets'[t])
  BY <1>1, <1>3, AbsentType DEF Good
<1>6. \A t \in Tickets : tickets'[t] = disk[t] \/ tickets'[t] = Absent
  BY <1>3
<1>7. \A s \in Sessions : active'[s] # NoTicket =>
        active'[s] \in Tickets /\ disk[active'[s]] # Absent /\ tickets'[active'[s]] = disk[active'[s]]
  BY <1>1, <1>2, <1>3, <1>4 DEF Bindings, Bound
<1>8. writes' = <<>> /\ Len(writes') = 0 /\ writes' \in Seq(Writes)
      /\ UNCHANGED <<process, disk, index>>
  BY DEF Restart
<1>9. Plan(writes, tickets, active)'
  BY <1>1, <1>2, <1>5, <1>6, <1>7, <1>8 DEF Plan, WritesTickets, Named, Names, Spares, Silent
<1>10. FilesOK'
  BY <1>8 DEF IInv, FilesOK, IndexNamesFiles
<1>11. requests' \in [Tickets -> Requests] /\ \A t \in Tickets : requests'[t] = NoRequest
  BY DEF Restart, Requests, NoRequest
<1>12. IInv'
  BY <1>8, <1>9, <1>10, <1>11 DEF IInv, RequestOK
<1> QED
  BY <1>2, <1>6, <1>7, <1>12

\* A session selects a process: its ticket is new.
LEMMA SelectProcessKeeps ==
    ASSUME IInv, NEW s \in Sessions, NEW t \in Tickets, NEW templated \in Templating, SelectProcess(s, t, templated)
    PROVE  IInv' /\ (ActiveTicketIsOwn => ActiveTicketIsOwn')
<1> DEFINE cleared == [active EXCEPT ![s] = NoTicket]
           bound == [active EXCEPT ![s] = t]
           r == NewTicket(s, templated)
           files == [tickets EXCEPT ![t] = r]
<1>1. /\ Plan(<<>>, tickets, active) /\ tickets \in [Tickets -> Records] /\ active \in Bindings
      /\ Names(active, tickets)
  BY IdlePlan DEF SelectProcess, Plan
<1>2. Ticket(r) /\ r.session = s /\ r # Absent
  BY NewTicketIsTicket, AbsentType
<1>3. /\ tickets' = files /\ active' = bound /\ tickets[t] = Absent
      /\ writes' = (IF active[s] = NoTicket THEN <<>> ELSE <<IndexWrite(cleared)>>) \o Save(t, r, bound)
      /\ UNCHANGED <<disk, index, requests>> /\ process' = [process EXCEPT ![s] = TRUE]
  BY DEF SelectProcess
<1> HIDE DEF r
<1>4. cleared \in Bindings /\ Names(cleared, tickets)
  BY <1>1 DEF Bindings, Names
<1>5. bound \in Bindings /\ Names(bound, files)
  BY <1>1, <1>2, NamesKept DEF Bindings, Names
<1>6. Plan(writes', files, bound)
  <2>1. CASE active[s] = NoTicket
    BY <1>1, <1>2, <1>3, <1>5, <2>1, PlanSave
  <2>2. CASE active[s] # NoTicket
    <3>1. Plan(<<IndexWrite(cleared)>>, tickets, cleared)
      BY <1>1, <1>4, PlanFirstIndex
    <3> QED
      BY <1>2, <1>3, <1>5, <2>2, <3>1, PlanSave
  <2> QED
    BY <2>1, <2>2
<1>7. Lasting
  BY <1>1, <1>3 DEF Lasting
<1>8. IInv'
  BY <1>3, <1>6, <1>7, HandlerKeeps DEF IInv
<1>9. ActiveTicketIsOwn => ActiveTicketIsOwn'
  BY <1>1, <1>2, <1>3 DEF ActiveTicketIsOwn, Bindings, Names
<1> QED
  BY <1>8, <1>9

LEMMA ClearProcessKeeps ==
    ASSUME IInv, NEW s \in Sessions, ClearProcess(s)
    PROVE  IInv' /\ (ActiveTicketIsOwn => ActiveTicketIsOwn')
<1> DEFINE cleared == [active EXCEPT ![s] = NoTicket]
<1>1. /\ Plan(<<>>, tickets, active) /\ tickets \in [Tickets -> Records] /\ active \in Bindings
      /\ Names(active, tickets)
  BY IdlePlan DEF ClearProcess, Plan
<1>2. /\ active' = cleared /\ UNCHANGED <<tickets, disk, index, requests>>
      /\ writes' = (IF active[s] = NoTicket THEN <<>> ELSE <<IndexWrite(cleared)>>)
      /\ process' = [process EXCEPT ![s] = FALSE]
  BY DEF ClearProcess, Clear
<1>3. cleared \in Bindings /\ Names(cleared, tickets)
  BY <1>1 DEF Bindings, Names
<1>4. Plan(writes', tickets, cleared)
  <2>1. CASE active[s] = NoTicket
    <3>1. cleared = active
      BY <1>1, <2>1 DEF Bindings
    <3> QED
      BY <1>1, <1>2, <2>1, <3>1
  <2>2. CASE active[s] # NoTicket
    BY <1>1, <1>2, <1>3, <2>2, PlanFirstIndex
  <2> QED
    BY <2>1, <2>2
<1>5. IInv'
  BY <1>2, <1>4, HandlerKeeps DEF IInv, Lasting
<1>6. ActiveTicketIsOwn => ActiveTicketIsOwn'
  BY <1>1, <1>2 DEF ActiveTicketIsOwn, Bindings
<1> QED
  BY <1>5, <1>6

LEMMA ActivateKeeps ==
    ASSUME IInv, NEW s \in Sessions, NEW t \in Tickets, Activate(s, t)
    PROVE  IInv' /\ (ActiveTicketIsOwn => ActiveTicketIsOwn')
<1> DEFINE got == GetTicket(t)
           r == Activated(got)
           bound == [active EXCEPT ![s] = t]
           files == [tickets EXCEPT ![t] = r]
<1>1. /\ Plan(<<>>, tickets, active) /\ tickets \in [Tickets -> Records] /\ active \in Bindings
      /\ Names(active, tickets)
  BY IdlePlan DEF Activate, Plan
<1>2. Idle /\ got # Absent /\ got.session = s
  BY DEF Activate, Absent
<1>3. Ticket(got) /\ (tickets[t] # Absent => got = tickets[t]) /\ Plan(<<>>, [tickets EXCEPT ![t] = got], active)
  BY <1>2, GotTicket
<1>4. Revises(r, got)
  BY <1>3, ActivatedIsTicket
<1>5. Ticket(r) /\ r # Absent /\ r.session = s /\ r.templated = got.templated
  BY <1>2, <1>4, AbsentType DEF Revises
<1>6. /\ tickets' = files /\ active' = bound
      /\ writes' = (IF tickets'[t] = got THEN <<IndexWrite(active')>> ELSE Save(t, tickets'[t], active'))
      /\ UNCHANGED <<process, disk, index, requests>>
  BY DEF Activate
<1> HIDE DEF r, got
<1>7. tickets'[t] = r
  BY <1>1, <1>6
<1>8. bound \in Bindings /\ Names(bound, files)
  BY <1>1, <1>5, NamesKept DEF Bindings, Names
<1>9. Plan(writes', files, bound)
  <2>1. CASE r = got
    BY <1>3, <1>6, <1>7, <1>8, <2>1, PlanFirstIndex
  <2>2. CASE r # got
    BY <1>1, <1>5, <1>6, <1>7, <1>8, <2>2, PlanFirstSave
  <2> QED
    BY <2>1, <2>2
<1>10. Lasting
  BY <1>1, <1>3, <1>5, <1>6 DEF Lasting
<1>11. IInv'
  BY <1>6, <1>9, <1>10, HandlerKeeps DEF IInv
<1>12. ActiveTicketIsOwn => ActiveTicketIsOwn'
  <2> SUFFICES ASSUME ActiveTicketIsOwn, NEW x \in Sessions, active'[x] # NoTicket
               PROVE  tickets'[active'[x]].session = x
    BY DEF ActiveTicketIsOwn
  <2>1. CASE x = s
    BY <1>1, <1>5, <1>6, <1>7, <2>1 DEF Bindings
  <2>2. CASE x # s
    <3>1. active'[x] = active[x] /\ active[x] \in Tickets /\ tickets[active[x]].session = x /\ tickets[active[x]] # Absent
      BY <1>1, <1>6, <2>2 DEF Bindings, ActiveTicketIsOwn, Names
    <3>2. active[x] # t
      BY <1>2, <1>3, <2>2, <3>1 DEF got
    <3> QED
      BY <1>1, <1>6, <3>1, <3>2
  <2> QED
    BY <2>1, <2>2
<1> QED
  BY <1>11, <1>12

\* A ticket moves to a session, which drops its own.
LEMMA ReassignKeeps ==
    ASSUME IInv, NEW t \in Tickets, NEW s \in Sessions, Reassign(t, s)
    PROVE  IInv' /\ (ActiveTicketIsOwn => ActiveTicketIsOwn')
<1> DEFINE got == GetTicket(t)
           rebound == [got EXCEPT !.session = s]
           r == Activated(rebound)
           bound == Rebinding(t, s)
           files == [tickets EXCEPT ![t] = r]
<1>1. /\ Plan(<<>>, tickets, active) /\ tickets \in [Tickets -> Records] /\ active \in Bindings
      /\ Names(active, tickets)
  BY IdlePlan DEF Reassign, Plan
<1>2. Idle /\ got # Absent
  BY DEF Reassign, Absent
<1>3. Ticket(got) /\ (tickets[t] # Absent => got = tickets[t])
  BY <1>2, GotTicket
<1>4. Ticket(rebound) /\ rebound.session = s /\ rebound.templated = got.templated
  BY <1>3, MovedIsTicket
<1>5. /\ tickets' = files /\ active' = bound
      /\ writes' = Save(t, rebound, active') \o (IF r = rebound THEN <<>> ELSE Save(t, r, active'))
      /\ UNCHANGED <<process, disk, index, requests>>
  BY DEF Reassign
<1> HIDE DEF rebound, got
<1>6. Revises(r, rebound)
  BY <1>4, ActivatedIsTicket
<1>7. Ticket(r) /\ r # Absent /\ r.session = s /\ r.templated = got.templated
  BY <1>4, <1>6, AbsentType DEF Revises
<1> HIDE DEF r
<1>8. bound \in Bindings /\ \A x \in Sessions : bound[x] = IF x = s THEN t ELSE IF active[x] = t THEN NoTicket ELSE active[x]
  BY <1>1 DEF Bindings, Rebinding
<1> DEFINE moved == [tickets EXCEPT ![t] = rebound]
<1>9. /\ moved \in [Tickets -> Records] /\ \A u \in Tickets : moved[u] = IF u = t THEN rebound ELSE tickets[u]
      /\ files = [moved EXCEPT ![t] = r]
      /\ \A u \in Tickets : files[u] = IF u = t THEN r ELSE tickets[u]
  BY <1>1, <1>4, <1>7 DEF Ticket
<1> HIDE DEF bound, moved, files
<1>10. Names(bound, moved) /\ Names(bound, files)
  BY <1>1, <1>4, <1>7, <1>8, <1>9, AbsentType DEF Names, Bindings
<1>11. Plan(Save(t, rebound, bound), moved, bound)
  BY <1>1, <1>4, <1>8, <1>10, PlanFirstSave DEF moved
<1>12. Plan(writes', files, bound)
  <2>1. CASE r = rebound
    <3>1. Save(t, rebound, bound) \in Seq(Writes) /\ files = moved
      BY <1>9, <1>11, <2>1 DEF Plan, files, moved
    <3>2. writes' = Save(t, rebound, bound)
      BY <1>5, <2>1, <3>1
    <3> QED
      BY <1>11, <3>1, <3>2
  <2>2. CASE r # rebound
    BY <1>5, <1>7, <1>8, <1>9, <1>10, <1>11, <2>2, PlanSave
  <2> QED
    BY <2>1, <2>2
<1>13. Lasting
  BY <1>3, <1>5, <1>7, <1>9 DEF Lasting
<1>14. IInv'
  BY <1>5, <1>12, <1>13, HandlerKeeps DEF IInv
<1>15. ActiveTicketIsOwn => ActiveTicketIsOwn'
  BY <1>1, <1>5, <1>7, <1>8, <1>9 DEF ActiveTicketIsOwn, Bindings
<1> QED
  BY <1>14, <1>15

\* A ticket is read into memory.
LEMMA ReadKeeps ==
    ASSUME IInv, Idle, NEW t \in Tickets, GetTicket(t) # Absent,
           tickets' = [tickets EXCEPT ![t] = GetTicket(t)], UNCHANGED <<active, process, disk, index, writes>>,
           requests' \in [Tickets -> Requests],
           \A u \in Tickets : requests'[u] = requests[u] \/ RequestOK(requests'[u], tickets'[u])
    PROVE  IInv' /\ (ActiveTicketIsOwn => ActiveTicketIsOwn')
<1>1. tickets \in [Tickets -> Records] /\ writes = <<>>
  BY DEF IInv, Plan, Idle
<1>2. Ticket(GetTicket(t)) /\ (tickets[t] # Absent => GetTicket(t) = tickets[t])
      /\ Plan(writes', tickets', active')
  BY <1>1, GotTicket
<1>3. \A u \in Tickets : tickets[u] # Absent => tickets'[u] = tickets[u]
  BY <1>1, <1>2
<1>4. \A u \in Tickets : RequestOK(requests'[u], tickets'[u])
  BY <1>3, AbsentType DEF IInv, RequestOK
<1>5. Plan(writes, tickets, active)' /\ FilesOK'
  BY <1>2 DEF IInv, Plan, Named, FilesOK, IndexNamesFiles
<1>6. IInv'
  BY <1>4, <1>5 DEF IInv
<1>7. ActiveTicketIsOwn => ActiveTicketIsOwn'
  BY <1>3, ActiveInMemory DEF ActiveTicketIsOwn
<1> QED
  BY <1>6, <1>7

LEMMA LookupKeeps ==
    ASSUME IInv, NEW t \in Tickets, Lookup(t)
    PROVE  IInv' /\ (ActiveTicketIsOwn => ActiveTicketIsOwn')
<1>1. Idle /\ GetTicket(t) = disk[t] /\ GetTicket(t) # Absent
  BY DEF Lookup, GetTicket
<1>2. requests' \in [Tickets -> Requests] /\ \A u \in Tickets : requests'[u] = requests[u]
  BY DEF Lookup, IInv
<1> QED
  BY <1>1, <1>2, ReadKeeps DEF Lookup

LEMMA ConfigRequestKeeps ==
    ASSUME IInv, NEW t \in Tickets, ConfigRequest(t)
    PROVE  IInv' /\ (ActiveTicketIsOwn => ActiveTicketIsOwn')
<1> DEFINE got == GetTicket(t)
           q == [session |-> got.session, state |-> IF got.confirmed THEN "confirmed" ELSE "pending"]
<1>1. Idle /\ got # Absent /\ got.templated
  BY DEF ConfigRequest, Absent
<1>2. Ticket(got)
  BY <1>1, GotTicket
<1>3. /\ tickets' = [tickets EXCEPT ![t] = got] /\ requests' = [requests EXCEPT ![t] = q]
      /\ UNCHANGED <<active, process, disk, index, writes>>
  BY DEF ConfigRequest
<1>4. /\ tickets \in [Tickets -> Records] /\ requests \in [Tickets -> Requests]
      /\ tickets'[t] = got
  BY <1>3 DEF IInv, Plan
<1>5. q \in Requests /\ RequestOK(q, got)
  BY <1>1, <1>2 DEF Requests, RequestOK, Ticket
<1> HIDE DEF q
<1>6. requests' \in [Tickets -> Requests]
      /\ \A u \in Tickets : requests'[u] = requests[u] \/ RequestOK(requests'[u], tickets'[u])
  BY <1>3, <1>4, <1>5
<1> QED
  BY <1>1, <1>3, <1>6, ReadKeeps

LEMMA SelectStepKeeps ==
    ASSUME IInv, NEW t \in Tickets, NEW i \in Steps, NEW checked \in BOOLEAN, SelectStep(t, i, checked)
    PROVE  IInv' /\ (ActiveTicketIsOwn => ActiveTicketIsOwn')
<1>1. Idle /\ GetTicket(t) # Absent
  BY DEF SelectStep, Absent
<1>2. Revises(Select(GetTicket(t), i, checked), GetTicket(t))
  BY <1>1, GotTicket, SelectIsTicket
<1> QED
  BY <1>1, <1>2, UpdateKeeps DEF SelectStep

\* The active ticket is got from memory.
LEMMA ActiveIsGot ==
    ASSUME IInv, NEW s \in Sessions, active[s] # NoTicket
    PROVE  /\ active[s] \in Tickets /\ GetTicket(active[s]) = tickets[active[s]]
           /\ Ticket(tickets[active[s]]) /\ tickets[active[s]] # Absent
BY ActiveInMemory DEF GetTicket

LEMMA HumanMessageKeeps ==
    ASSUME IInv, NEW s \in Sessions, HumanMessage(s)
    PROVE  IInv' /\ (ActiveTicketIsOwn => ActiveTicketIsOwn')
<1> DEFINE r == tickets[active[s]]
<1>1. Idle /\ active[s] \in Tickets /\ GetTicket(active[s]) = r /\ Ticket(r) /\ r # Absent
  BY ActiveIsGot DEF HumanMessage
<1>2. Revises(Resume(r), r) /\ Revises([r EXCEPT !.attempts = 0], r)
  BY <1>1, ResumeIsTicket, ResetIsTicket
<1>3. Update(active[s], Resume(r)) \/ Update(active[s], [r EXCEPT !.attempts = 0])
  BY DEF HumanMessage
<1>4. UNCHANGED <<process, requests>>
  BY DEF HumanMessage
<1> QED
  BY <1>1, <1>2, <1>3, <1>4, UpdateKeeps

\* The active ticket is revised, saved, and perhaps revised and saved once more.
LEMMA TwoUpdatesKeep ==
    ASSUME IInv, Idle, NEW t \in Tickets, Ticket(tickets[t]), tickets[t] # Absent,
           NEW q, Revises(q, tickets[t]), NEW r, Revises(r, tickets[t]),
           tickets' = [tickets EXCEPT ![t] = r],
           \/ writes' = Save(t, q, active) \o Save(t, r, active)
           \/ writes' = Save(t, q, active) \o <<>> /\ r = q
           \/ writes' = <<>> \o Save(t, r, active)
           \/ writes' = <<>> \o <<>> /\ r = tickets[t],
           UNCHANGED <<active, process, disk, index, requests>>
    PROVE  IInv' /\ (ActiveTicketIsOwn => ActiveTicketIsOwn')
<1>1. /\ Plan(<<>>, tickets, active) /\ tickets \in [Tickets -> Records] /\ active \in Bindings
      /\ Names(active, tickets)
  BY IdlePlan DEF Plan
<1>2. Ticket(q) /\ Ticket(r)
  BY DEF Revises
<1> DEFINE once == [tickets EXCEPT ![t] = q]
           twice == [tickets EXCEPT ![t] = r]
<1>3. once \in [Tickets -> Records] /\ twice = [once EXCEPT ![t] = r]
  BY <1>1, <1>2 DEF Ticket
<1>4. Names(active, once) /\ Names(active, twice)
  BY <1>1, <1>2, NamesKept
<1>5. Plan(Save(t, q, active), once, active) /\ Plan(Save(t, r, active), twice, active)
  BY <1>1, <1>2, <1>4, PlanFirstSave
<1>6. Plan(writes', twice, active)
  <2>1. CASE writes' = Save(t, q, active) \o Save(t, r, active)
    <3> HIDE DEF once
    <3> QED
      BY <1>1, <1>2, <1>3, <1>4, <1>5, <2>1, PlanSave
  <2>2. CASE writes' = Save(t, q, active) \o <<>> /\ r = q
    <3>1. writes' = Save(t, q, active)
      BY <1>5, <2>2 DEF Plan
    <3> QED
      BY <1>5, <2>2, <3>1
  <2>3. CASE writes' = <<>> \o Save(t, r, active)
    <3>1. writes' = Save(t, r, active)
      BY <1>5, <2>3 DEF Plan
    <3> QED
      BY <1>5, <3>1
  <2>4. CASE writes' = <<>> \o <<>> /\ r = tickets[t]
    <3>1. writes' = <<>> /\ twice = tickets
      BY <1>1, <2>4
    <3> QED
      BY <1>1, <3>1
  <2> QED
    BY <2>1, <2>2, <2>3, <2>4
<1>7. \A u \in Tickets : twice[u] = IF u = t THEN r ELSE tickets[u]
  BY <1>1
<1>8. Lasting
  BY <1>2, <1>7, AbsentType DEF Lasting, Revises
<1>9. IInv'
  BY <1>6, <1>8, HandlerKeeps DEF IInv
<1>10. ActiveTicketIsOwn => ActiveTicketIsOwn'
  BY <1>7, ActiveInMemory DEF ActiveTicketIsOwn, Revises
<1> QED
  BY <1>9, <1>10

LEMMA NudgeKeeps ==
    ASSUME IInv, NEW s \in Sessions, Nudge(s)
    PROVE  IInv' /\ (ActiveTicketIsOwn => ActiveTicketIsOwn')
<1> DEFINE t == active[s]
           r == tickets[t]
           nudged == [r EXCEPT !.blockedBy = "none", !.attempts = @ + 1]
           blocked == BlockAt(nudged, "system")
<1>1. Idle /\ t \in Tickets /\ GetTicket(t) = r /\ Ticket(r) /\ r # Absent
      /\ r.status = "active" /\ r.current # NoStep
  BY ActiveIsGot DEF Nudge
<1>2. Revises(nudged, r)
  BY <1>1, NudgedIsTicket
<1>3. UNCHANGED <<process, requests>>
      /\ \/ Update(t, nudged)
         \/ /\ tickets' = [tickets EXCEPT ![t] = blocked]
            /\ writes' = Save(t, nudged, active) \o Save(t, blocked, active)
            /\ UNCHANGED <<active, disk, index>>
  BY DEF Nudge
<1> HIDE DEF nudged
<1>4. Revises(blocked, r)
  BY <1>2, BlockIsTicket DEF Revises
<1> HIDE DEF blocked
<1>5. CASE Update(t, nudged)
  BY <1>1, <1>2, <1>3, <1>5, UpdateKeeps
<1>6. CASE /\ tickets' = [tickets EXCEPT ![t] = blocked]
           /\ writes' = Save(t, nudged, active) \o Save(t, blocked, active)
           /\ UNCHANGED <<active, disk, index>>
  BY <1>1, <1>2, <1>3, <1>4, <1>6, TwoUpdatesKeep
<1> QED
  BY <1>3, <1>5, <1>6

LEMMA TurnReplyKeeps ==
    ASSUME IInv, NEW s \in Sessions, NEW reply \in Replies, NEW token \in Tokens, TurnReply(s, reply, token)
    PROVE  IInv' /\ (ActiveTicketIsOwn => ActiveTicketIsOwn')
<1> DEFINE t == active[s]
           r == tickets[t]
           heard == Hears(r, reply) /\ r.status = "active" /\ r.confirmed
           after == IF heard THEN Answered(r, reply) ELSE r
           last == IF heard /\ after.status = "completed" THEN after ELSE Terminal(after, process[s], token)
<1>1. Idle /\ t \in Tickets /\ Ticket(r) /\ r # Absent
  BY ActiveInMemory DEF TurnReply
<1>2. Revises(after, r)
  BY <1>1, AnsweredIsTicket DEF Revises
<1>3. /\ tickets' = [tickets EXCEPT ![t] = last]
      /\ writes' = (IF heard THEN Save(t, after, active) ELSE <<>>)
                   \o (IF last = after THEN <<>> ELSE Save(t, last, active))
      /\ UNCHANGED <<active, process, disk, index, requests>>
  BY DEF TurnReply
<1>4. ~heard => after = r
  OBVIOUS
<1> HIDE DEF after
<1>5. Revises(last, r)
  BY <1>2, TerminalIsTicket DEF Revises
<1> HIDE DEF heard, last
<1> QED
  BY <1>1, <1>2, <1>3, <1>4, <1>5, TwoUpdatesKeep

\* The body of a process-config PATCH arrives.
LEMMA ConfigPatchKeeps ==
    ASSUME IInv, NEW t \in Tickets, NEW overrides \in BOOLEAN, NEW confirm \in BOOLEAN,
           ConfigPatch(t, overrides, confirm)
    PROVE  IInv' /\ (ActiveTicketIsOwn => ActiveTicketIsOwn')
<1> DEFINE seen == requests[t]
           r == tickets[t]
           refused == overrides /\ r.status = "completed"
           overridden == IF overrides /\ ~refused THEN Reconfigure(r, seen.state = "confirmed") ELSE r
           patched == [tickets EXCEPT ![t] = overridden]
           home == IF overrides THEN r.session ELSE seen.session
           u == active[home]
           confirms == /\ confirm /\ ~refused /\ seen.state = "pending"
                       /\ u # NoTicket /\ ~patched[u].confirmed
           saved == IF overrides /\ ~refused THEN Save(t, overridden, active) ELSE <<>>
           last == [patched EXCEPT ![u] = Confirm(@)]
<1>1. /\ Plan(<<>>, tickets, active) /\ tickets \in [Tickets -> Records] /\ active \in Bindings
      /\ Names(active, tickets)
  BY IdlePlan DEF ConfigPatch, Plan
<1>2. /\ tickets' = IF confirms THEN last ELSE patched
      /\ writes' = saved \o (IF confirms THEN Save(u, tickets'[u], active) ELSE <<>>)
      /\ requests' = [requests EXCEPT ![t] = NoRequest]
      /\ UNCHANGED <<active, process, disk, index>>
      /\ seen # NoRequest
  BY DEF ConfigPatch
<1>3. Ticket(r) /\ r.templated /\ seen.session \in Sessions /\ home \in Sessions
  BY <1>2 DEF IInv, RequestOK, Ticket
<1>4. Revises(Reconfigure(r, TRUE), r) /\ Revises(Reconfigure(r, FALSE), r) /\ Revises(r, r)
  BY <1>3, ReconfigureIsTicket DEF Revises
<1>5. Revises(overridden, r) /\ Ticket(overridden)
  <2>1. CASE seen.state = "confirmed"
    <3>1. (seen.state = "confirmed") = TRUE
      BY <2>1
    <3> QED
      BY <1>4, <3>1 DEF Revises
  <2>2. CASE seen.state # "confirmed"
    <3>1. (seen.state = "confirmed") = FALSE
      BY <2>2
    <3> QED
      BY <1>4, <3>1 DEF Revises
  <2> QED
    BY <2>1, <2>2
<1>6. ~(overrides /\ ~refused) => overridden = r /\ saved = <<>>
  OBVIOUS
<1>7. (overrides /\ ~refused) => saved = Save(t, overridden, active)
  OBVIOUS
<1> HIDE DEF overridden, refused, home
<1>8. /\ patched \in [Tickets -> Records]
      /\ \A x \in Tickets : patched[x] = IF x = t THEN overridden ELSE tickets[x]
  BY <1>1, <1>5 DEF Ticket
<1>9. Names(active, patched)
  BY <1>1, <1>5, NamesKept
<1>10. Plan(saved, patched, active)
  <2>1. CASE overrides /\ ~refused
    BY <1>1, <1>5, <1>7, <1>9, <2>1, PlanFirstSave
  <2>2. CASE ~(overrides /\ ~refused)
    <3>1. patched = tickets
      BY <1>1, <1>6, <2>2
    <3> QED
      BY <1>1, <1>6, <2>2, <3>1
  <2> QED
    BY <2>1, <2>2
<1> HIDE DEF patched, saved
<1>11. /\ Plan(writes', tickets', active)
       /\ \A x \in Tickets : patched[x] # Absent => tickets'[x] # Absent /\ Revises(tickets'[x], patched[x])
  <2>1. CASE confirms
    <3>1. u \in Tickets /\ patched[u] # Absent /\ ~patched[u].confirmed
      BY <1>1, <1>3, <1>9, <2>1 DEF Names, Bindings
    <3>2. Ticket(patched[u])
      BY <1>10, <3>1 DEF Plan, Good
    <3> DEFINE q == Confirm(patched[u])
    <3>3. Revises(q, patched[u]) /\ Ticket(q)
      BY <3>1, <3>2, ConfirmIsTicket DEF Revises
    <3>4. tickets' = [patched EXCEPT ![u] = q]
      BY <1>2, <2>1
    <3> HIDE DEF q
    <3>5. tickets'[u] = q /\ writes' = saved \o Save(u, q, active)
      BY <1>2, <1>8, <2>1, <3>1, <3>4
    <3> HIDE DEF u
    <3>6. Names(active, [patched EXCEPT ![u] = q])
      BY <1>1, <1>8, <1>9, <3>1, <3>3, NamesKept
    <3>7. Plan(saved \o Save(u, q, active), [patched EXCEPT ![u] = q], active)
      BY <1>1, <1>10, <3>1, <3>3, <3>6, PlanSave
    <3>8. ASSUME NEW x \in Tickets, patched[x] # Absent
          PROVE  tickets'[x] # Absent /\ Revises(tickets'[x], patched[x])
      <4>1. CASE x = u
        BY <3>3, <3>5, <4>1, AbsentType
      <4>2. CASE x # u
        <5>1. tickets'[x] = patched[x] /\ Ticket(patched[x])
          BY <1>8, <1>10, <3>4, <3>8, <4>2 DEF Plan, Good
        <5> QED
          BY <3>8, <5>1 DEF Revises
      <4> QED
        BY <4>1, <4>2
    <3> QED
      BY <3>4, <3>5, <3>7, <3>8
  <2>2. CASE ~confirms
    <3>1. tickets' = patched /\ writes' = saved \o <<>>
      BY <1>2, <2>2
    <3>2. saved \in Seq(Writes)
      BY <1>10 DEF Plan
    <3>3. writes' = saved
      BY <3>1, <3>2
    <3> QED
      BY <1>10, <3>1, <3>3 DEF Plan, Good, Revises
  <2> QED
    BY <2>1, <2>2
<1>12. \A x \in Tickets : tickets[x] # Absent => patched[x] # Absent /\ Revises(patched[x], tickets[x])
  <2> SUFFICES ASSUME NEW x \in Tickets, tickets[x] # Absent
               PROVE  patched[x] # Absent /\ Revises(patched[x], tickets[x])
    OBVIOUS
  <2>1. Ticket(tickets[x])
    BY <1>1 DEF Plan, Good
  <2> QED
    BY <1>5, <1>8, <2>1, AbsentType DEF Revises
<1>13. Lasting
  BY <1>11, <1>12 DEF Lasting, Revises
<1>14. IInv'
  BY <1>2, <1>11, <1>13, HandlerKeeps DEF IInv
<1>15. ActiveTicketIsOwn => ActiveTicketIsOwn'
  BY <1>2, <1>11, <1>12, ActiveInMemory DEF ActiveTicketIsOwn, Revises
<1> QED
  BY <1>14, <1>15

\* A step that leaves every variable alone.
LEMMA NothingKeeps == ASSUME IInv, UNCHANGED vars PROVE IInv' /\ (ActiveTicketIsOwn => ActiveTicketIsOwn')
<1>1. Plan(writes, tickets, active)' /\ FilesOK'
  BY DEF vars, IInv, Plan, Named, FilesOK, IndexNamesFiles
<1>2. IInv'
  BY <1>1 DEF vars, IInv
<1>3. ActiveTicketIsOwn => ActiveTicketIsOwn'
  BY DEF vars, ActiveTicketIsOwn
<1> QED
  BY <1>2, <1>3

\* A step of a handler, of any session and about any ticket.
LEMMA HandlersKeep ==
    ASSUME IInv, Next, ~Flush, ~Restart
    PROVE  IInv' /\ (ActiveTicketIsOwn => ActiveTicketIsOwn')
BY SelectProcessKeeps, ClearProcessKeeps, HumanMessageKeeps, NudgeKeeps, TurnReplyKeeps, ActivateKeeps,
   ReassignKeeps, SelectStepKeeps, LookupKeeps, ConfigRequestKeeps, ConfigPatchKeeps
   DEF Next

LEMMA StepKeeps == ASSUME IInv, [Next]_vars PROVE IInv'
BY HandlersKeep, FlushKeeps, RestartKeeps, NothingKeeps

\* Killed only between two handlers, the process finds in its files what it had in memory.
LEMMA IdleRestart ==
    ASSUME IInv, Restart, "crash" \notin Stops
    PROVE  /\ active' = active
           /\ \A t \in Tickets : tickets[t] # Absent => tickets'[t] = tickets[t] \/ tickets'[t] = Absent
           /\ \A s \in Sessions : active[s] # NoTicket => tickets'[active[s]] = tickets[active[s]]
<1>1. /\ index = active /\ \A t \in Tickets : tickets[t] # Absent => disk[t] = tickets[t]
  BY IdlePlan DEF Restart
<1> QED
  BY <1>1, RestartKeeps, ActiveInMemory

LEMMA OwnKept ==
    ASSUME IInv, [Next]_vars, "crash" \notin Stops, ActiveTicketIsOwn
    PROVE  ActiveTicketIsOwn'
<1>1. CASE Flush
  BY <1>1 DEF Flush, ActiveTicketIsOwn
<1>2. CASE Restart
  BY <1>2, IdleRestart DEF ActiveTicketIsOwn
<1> QED
  BY <1>1, <1>2, HandlersKeep, NothingKeeps
-----------------------------------------------------------------------------
\* The writes a handler has still to make take the files to what memory holds, whenever
\* the process is killed (persistTicket, writeTicket, writeIndex, loadCache).
THEOREM Invariance == Spec => []IInv
BY InitTickets, StepKeeps, PTL DEF Spec

\* Tickets, bindings, files and pending writes are what their types say.
THEOREM TypeCorrect == Spec => []TypeOK
<1>1. ASSUME IInv PROVE TypeOK
  BY <1>1, GoodType DEF IInv, Plan, FilesOK, TypeOK
<1> QED
  BY <1>1, Invariance, PTL

\* Whatever decisions, goto jumps and moves by hand happen, no step beyond the current
\* one counts as done.
THEOREM AheadIsPending == Spec => []StepsAheadArePending
<1>1. ASSUME IInv PROVE StepsAheadArePending
  <2>1. \A t \in Tickets : AheadPending(tickets[t])
    BY <1>1 DEF IInv, Plan, Good, Ticket, AheadPending, Absent
  <2> QED
    BY <2>1 DEF StepsAheadArePending, AheadPending
<1> QED
  BY <1>1, Invariance, PTL

\* Between handlers the files hold what memory holds, also after a process that was
\* killed between two writes has started again.
THEOREM FilesHoldMemory == Spec => []WrittenThrough
<1>1. ASSUME IInv PROVE WrittenThrough
  BY <1>1, IdlePlan DEF WrittenThrough
<1> QED
  BY <1>1, Invariance, PTL

\* At every moment the index on disk names only tickets that have a file.
THEOREM IndexHasFiles == Spec => []IndexNamesFiles
<1>1. IInv => IndexNamesFiles
  BY DEF IInv, FilesOK
<1> QED
  BY <1>1, Invariance, PTL

\* The checklist of a ticket without a process config marks exactly the step it is at,
\* whatever other tickets there are.
THEOREM PlainChecklistIsExact == Spec => [](\A t \in Tickets : ~tickets[t].templated => ShowsStep(tickets[t]))
<1>1. ASSUME IInv, NEW t \in Tickets, ~tickets[t].templated PROVE ShowsStep(tickets[t])
  <2>1. CASE tickets[t] = Absent
    BY <2>1 DEF Absent, NoMarks, ShowsStep, Marked, At
  <2>2. CASE Ticket(tickets[t])
    BY <1>1, <2>2 DEF Ticket
  <2> QED
    BY <1>1, <2>1, <2>2 DEF IInv, Plan, Good
<1>2. IInv => \A t \in Tickets : ~tickets[t].templated => ShowsStep(tickets[t])
  BY <1>1
<1> QED
  BY <1>2, Invariance, PTL

\* So where no process has a config to confirm, every checklist does.
THEOREM ChecklistIsExact == TRUE \notin Templating /\ Spec => []ChecklistShowsCurrentStep
<1>1. ASSUME IInv, TRUE \notin Templating, NEW t \in Tickets PROVE ~tickets[t].templated
  <2>1. ~MayTemplate
    BY <1>1 DEF MayTemplate
  <2> QED
    BY <1>1, <2>1 DEF IInv, Plan, Good, Ticket, Absent
<1>2. ASSUME TRUE \notin Templating PROVE Spec => []ChecklistShowsCurrentStep
  <2>1. /\ IInv
        /\ \A t \in Tickets : ~tickets[t].templated => ShowsStep(tickets[t])
        => ChecklistShowsCurrentStep
    BY <1>1, <1>2 DEF ChecklistShowsCurrentStep, ShowsStep, At
  <2> QED
    BY <2>1, Invariance, PlainChecklistIsExact, PTL
<1> QED
  BY <1>2

\* The ticket a session points at belongs to that session, as long as the process is not
\* killed between the writes of a move (reassignTicketToSession).
THEOREM ActiveIsOwn == "crash" \notin Stops /\ Spec => []ActiveTicketIsOwn
<1>1. ASSUME "crash" \notin Stops PROVE Spec => []ActiveTicketIsOwn
  <2>1. Init => ActiveTicketIsOwn
    BY DEF Init, ActiveTicketIsOwn
  <2>2. IInv /\ ActiveTicketIsOwn /\ [Next]_vars => ActiveTicketIsOwn'
    BY <1>1, OwnKept
  <2> QED
    BY <2>1, <2>2, Invariance, PTL DEF Spec
<1> QED
  BY <1>1

\* A restart between handlers leaves every session on the ticket and step it was at.
THEOREM FocusIsKept == "crash" \notin Stops /\ Spec => RestartKeepsFocus
<1>1. ASSUME "crash" \notin Stops PROVE Spec => RestartKeepsFocus
  <2>1. IInv /\ [Next]_vars =>
        [Restart => /\ active' = active
                    /\ \A s \in Sessions : active[s] # NoTicket => tickets'[active[s]] = tickets[active[s]]]_vars
    BY <1>1, IdleRestart
  <2> QED
    BY <2>1, Invariance, PTL DEF Spec, RestartKeepsFocus
<1> QED
  BY <1>1
-----------------------------------------------------------------------------
(***************************************************************************)
(* What a step does to one ticket: its attempts, its block and its         *)
(* confirmation.                                                           *)
(***************************************************************************)
\* Attempts may go on at the step they were made at, and a block by the system may last.
Continues(q, r) ==
    /\ q.attempts > 0 => q.current = r.current /\ q.status = "active" /\ q.attempts <= r.attempts
    /\ q.blockedBy = "system" => r.blockedBy = "system"

\* The same, and the confirmation is as it was.
Undisturbed(q, r) == Continues(q, r) /\ q.confirmed = r.confirmed

LEMMA SameUndisturbed == ASSUME NEW r, Ticket(r) PROVE Undisturbed(r, r)
BY DEF Undisturbed, Continues, Ticket, Records

LEMMA Through ==
    ASSUME NEW p, p \in Records, NEW q, q \in Records, NEW r, r \in Records, Continues(p, q), Continues(q, r)
    PROVE  Continues(p, r)
BY DEF Continues, Records

LEMMA ResetUndisturbed ==
    ASSUME NEW r, Ticket(r)
    PROVE  /\ Undisturbed([r EXCEPT !.attempts = 0], r) /\ Undisturbed(Resume(r), r)
           /\ Undisturbed(Activated(r), r) /\ Undisturbed(BlockAt(r, "agent"), r)
<1>1. Undisturbed([r EXCEPT !.attempts = 0], r)
  BY DEF Undisturbed, Continues, Ticket, Records
<1>2. Undisturbed(Resume(r), r)
  BY DEF Undisturbed, Continues, Ticket, Records, Resume
<1>3. Undisturbed(BlockAt(r, "agent"), r)
  BY DEF Undisturbed, Continues, Ticket, Records, BlockAt
<1> QED
  BY <1>1, <1>2, <1>3 DEF Activated

LEMMA MoveUndisturbed ==
    ASSUME NEW r, Ticket(r), NEW s \in Sessions
    PROVE  Undisturbed([r EXCEPT !.session = s], r)
BY DEF Undisturbed, Continues, Ticket, Records

LEMMA FinishUndisturbed == ASSUME NEW r, Ticket(r), NEW marks PROVE Undisturbed(Finish(r, marks), r)
BY DEF Undisturbed, Continues, Ticket, Records, Finish

\* Attempts made before the step became current are not counted (ticketWithNextStep).
LEMMA StepToUndisturbed == ASSUME NEW r, Ticket(r), NEW marks, NEW i PROVE Undisturbed(StepTo(r, marks, i), r)
BY DEF Undisturbed, Continues, Ticket, Records, StepTo

LEMMA ReplyUndisturbed ==
    ASSUME NEW r, Ticket(r), NEW reply
    PROVE  Undisturbed(Answered(r, reply), r)
<1>1. Undisturbed(Complete(r), r)
  BY FinishUndisturbed, StepToUndisturbed DEF Complete
<1>2. Undisturbed(BlockAt(r, "agent"), r)
  BY ResetUndisturbed
<1>3. Undisturbed(Choose(r, reply), r)
  BY <1>2, FinishUndisturbed, StepToUndisturbed DEF Choose
<1> QED
  BY <1>1, <1>2, <1>3 DEF Answered

LEMMA TerminalUndisturbed ==
    ASSUME NEW r, Ticket(r), NEW procedural, NEW token
    PROVE  Undisturbed(Terminal(r, procedural, token), r)
BY SameUndisturbed, FinishUndisturbed, ResetUndisturbed DEF Terminal

LEMMA SelectUndisturbed ==
    ASSUME NEW r, Ticket(r), NEW i \in Steps, NEW checked
    PROVE  Undisturbed(Select(r, i, checked), r)
<1>1. ASSUME NEW marks, NEW n PROVE Undisturbed([StepTo(r, marks, n) EXCEPT !.attempts = 0], r)
  BY DEF Undisturbed, Continues, Ticket, Records, StepTo
<1> QED
  BY <1>1, FinishUndisturbed DEF Select

LEMMA StartOverContinues ==
    ASSUME NEW r, Ticket(r), NEW confirmed
    PROVE  /\ Continues(Reconfigure(r, confirmed), r) /\ Reconfigure(r, confirmed).confirmed = confirmed
           /\ Continues(Confirm(r), r) /\ Confirm(r).confirmed = TRUE
BY DEF Continues, Ticket, Records, Reconfigure, Confirm

\* The three promises about a ticket x, of a step.
Counts(q, r) ==
    q.attempts > 0 => q.current = r.current /\ q.status = "active" /\ q.attempts <= r.attempts + 1

SystemBlocks(q, r) == r.blockedBy # "system" /\ q.blockedBy = "system" => r.attempts >= 2

Unconfirms(q, r, x) == r.confirmed /\ q # Absent /\ ~q.confirmed => requests[x].state = "pending"

Promised(x) ==
    /\ Counts(tickets'[x], tickets[x])
    /\ SystemBlocks(tickets'[x], tickets[x])
    /\ Unconfirms(tickets'[x], tickets[x], x)

\* A ticket that is undisturbed keeps them.
LEMMA UndisturbedPromised ==
    ASSUME NEW x \in Tickets, tickets[x] \in Records, tickets'[x] \in Records, Undisturbed(tickets'[x], tickets[x])
    PROVE  Promised(x)
BY DEF Undisturbed, Continues, Promised, Counts, SystemBlocks, Unconfirms, Records

\* So does every ticket when the one that is got is undisturbed and the others stay.
LEMMA GotPromised ==
    ASSUME IInv, Idle, NEW t \in Tickets, GetTicket(t) # Absent, NEW q, Undisturbed(q, GetTicket(t)), q \in Records,
           tickets' = [tickets EXCEPT ![t] = q],
           NEW x \in Tickets, tickets[x] # Absent
    PROVE  Promised(x)
<1>1. tickets \in [Tickets -> Records] /\ Ticket(tickets[x]) /\ tickets[x] \in Records
  BY DEF IInv, Plan, Good, Ticket
<1>2. Undisturbed(tickets'[x], tickets[x]) /\ tickets'[x] \in Records
  BY <1>1, GotTicket, SameUndisturbed
<1> QED
  BY <1>1, <1>2, UndisturbedPromised

LEMMA SamePromised ==
    ASSUME IInv, NEW x \in Tickets, tickets[x] # Absent, tickets'[x] = tickets[x]
    PROVE  Promised(x)
<1>1. Ticket(tickets[x]) /\ tickets[x] \in Records
  BY DEF IInv, Plan, Good, Ticket
<1> QED
  BY <1>1, SameUndisturbed, UndisturbedPromised

LEMMA NudgePromised ==
    ASSUME IInv, NEW s \in Sessions, Nudge(s), NEW x \in Tickets, tickets[x] # Absent
    PROVE  Promised(x)
<1> DEFINE t == active[s]
           r == tickets[t]
           nudged == [r EXCEPT !.blockedBy = "none", !.attempts = @ + 1]
           blocked == BlockAt(nudged, "system")
<1>1. /\ t \in Tickets /\ Ticket(r) /\ r \in Records /\ r.status = "active" /\ r.current # NoStep
      /\ tickets \in [Tickets -> Records]
  BY ActiveInMemory DEF Nudge, IInv, Plan
<1>2. CASE x # t
  BY <1>1, <1>2, SamePromised DEF Nudge, Update
<1>3. CASE x = t
  <2>1. /\ nudged.attempts = r.attempts + 1 /\ nudged.current = r.current /\ nudged.status = "active"
        /\ nudged.blockedBy = "none" /\ nudged.confirmed = r.confirmed
        /\ blocked.attempts = 0 /\ blocked.confirmed = r.confirmed /\ blocked.blockedBy = "system"
        /\ r.attempts \in Nat
    BY <1>1 DEF Records, BlockAt
  <2>2. CASE nudged.attempts < MaxAttempts
    <3>1. tickets'[t] = nudged
      BY <1>1, <2>2 DEF Nudge, Update
    <3> HIDE DEF nudged
    <3> QED
      BY <1>3, <2>1, <3>1 DEF Promised, Counts, SystemBlocks, Unconfirms
  <2>3. CASE ~(nudged.attempts < MaxAttempts)
    <3>1. tickets'[t] = blocked
      BY <1>1, <2>3 DEF Nudge
    <3>2. r.attempts >= 2
      BY <2>1, <2>3 DEF MaxAttempts
    <3> HIDE DEF nudged, blocked
    <3> QED
      BY <1>3, <2>1, <3>1, <3>2 DEF Promised, Counts, SystemBlocks, Unconfirms
  <2> QED
    BY <2>2, <2>3
<1> QED
  BY <1>2, <1>3

LEMMA TurnReplyPromised ==
    ASSUME IInv, NEW s \in Sessions, NEW reply \in Replies, NEW token \in Tokens, TurnReply(s, reply, token),
           NEW x \in Tickets, tickets[x] # Absent
    PROVE  Promised(x)
<1> DEFINE t == active[s]
           r == tickets[t]
           heard == Hears(r, reply) /\ r.status = "active" /\ r.confirmed
           after == IF heard THEN Answered(r, reply) ELSE r
           last == IF heard /\ after.status = "completed" THEN after ELSE Terminal(after, process[s], token)
<1>1. Idle /\ t \in Tickets /\ GetTicket(t) = r /\ Ticket(r) /\ r # Absent
  BY ActiveIsGot DEF TurnReply
<1>2. Revises(after, r)
  BY <1>1, AnsweredIsTicket DEF Revises
<1>3. Undisturbed(after, r)
  BY <1>1, ReplyUndisturbed, SameUndisturbed
<1>4. tickets' = [tickets EXCEPT ![t] = last]
  BY DEF TurnReply
<1> HIDE DEF after, heard
<1>5. Revises(last, r)
  BY <1>2, TerminalIsTicket DEF Revises
<1>6. Undisturbed(last, after)
  BY <1>2, TerminalUndisturbed, SameUndisturbed DEF Revises
<1> HIDE DEF last
<1>7. Undisturbed(last, r) /\ last \in Records
  BY <1>1, <1>2, <1>3, <1>5, <1>6, Through DEF Revises, Ticket, Undisturbed
<1> QED
  BY <1>1, <1>4, <1>7, GotPromised

LEMMA ConfigPatchPromised ==
    ASSUME IInv, NEW t \in Tickets, NEW overrides \in BOOLEAN, NEW confirm \in BOOLEAN,
           ConfigPatch(t, overrides, confirm), NEW x \in Tickets, tickets[x] # Absent
    PROVE  Promised(x)
<1> DEFINE seen == requests[t]
           r == tickets[t]
           refused == overrides /\ r.status = "completed"
           overridden == IF overrides /\ ~refused THEN Reconfigure(r, seen.state = "confirmed") ELSE r
           patched == [tickets EXCEPT ![t] = overridden]
           home == IF overrides THEN r.session ELSE seen.session
           u == active[home]
           confirms == /\ confirm /\ ~refused /\ seen.state = "pending"
                       /\ u # NoTicket /\ ~patched[u].confirmed
<1>1. tickets \in [Tickets -> Records] /\ Ticket(tickets[x]) /\ tickets[x] \in Records
  BY DEF IInv, Plan, Good, Ticket
<1>2. /\ tickets' = IF confirms THEN [patched EXCEPT ![u] = Confirm(@)] ELSE patched
      /\ seen # NoRequest
  BY DEF ConfigPatch
<1>3. Ticket(r) /\ r.templated /\ seen.state \in {"pending", "confirmed"}
  BY <1>2 DEF IInv, RequestOK
<1>4. overridden = r \/ overridden = Reconfigure(r, TRUE)
      \/ (overridden = Reconfigure(r, FALSE) /\ seen.state = "pending")
  <2>1. CASE seen.state = "confirmed"
    <3>1. (seen.state = "confirmed") = TRUE
      BY <2>1
    <3> QED
      BY <3>1
  <2>2. CASE seen.state = "pending"
    <3>1. (seen.state = "confirmed") = FALSE
      BY <2>2
    <3> QED
      BY <2>2, <3>1
  <2> QED
    BY <1>3, <2>1, <2>2
<1> HIDE DEF overridden
<1>5. /\ Ticket(overridden) /\ Continues(overridden, r)
      /\ overridden.confirmed = r.confirmed \/ overridden.confirmed = TRUE \/ seen.state = "pending"
  <2>1. CASE overridden = r
    BY <1>3, <2>1, SameUndisturbed DEF Undisturbed
  <2>2. CASE overridden = Reconfigure(r, TRUE)
    <3>1. Revises(overridden, r) /\ Continues(overridden, r) /\ overridden.confirmed = TRUE
      BY <1>3, <2>2, StartOverContinues, ReconfigureIsTicket
    <3> QED
      BY <3>1 DEF Revises
  <2>3. CASE overridden = Reconfigure(r, FALSE) /\ seen.state = "pending"
    <3>1. Revises(overridden, r) /\ Continues(overridden, r)
      BY <1>3, <2>3, StartOverContinues, ReconfigureIsTicket
    <3> QED
      BY <2>3, <3>1 DEF Revises
  <2> QED
    BY <1>4, <2>1, <2>2, <2>3
<1>6. patched[x] = (IF x = t THEN overridden ELSE tickets[x])
  BY <1>1
<1>7. tickets'[x] = patched[x] \/ (tickets'[x] = Confirm(patched[x]) /\ ~patched[x].confirmed)
  <2>1. patched \in [Tickets -> Records]
    BY <1>1, <1>5 DEF Ticket
  <2> HIDE DEF patched
  <2> QED
    BY <1>2, <2>1
<1> HIDE DEF patched
<1>8. /\ Ticket(patched[x]) /\ Continues(patched[x], tickets[x])
      /\ patched[x].confirmed = tickets[x].confirmed \/ patched[x].confirmed = TRUE \/ requests[x].state = "pending"
  BY <1>1, <1>5, <1>6, SameUndisturbed DEF Undisturbed
<1>9. /\ Continues(tickets'[x], tickets[x]) /\ tickets'[x] \in Records
      /\ tickets'[x].confirmed = tickets[x].confirmed \/ tickets'[x].confirmed = TRUE \/ requests[x].state = "pending"
  <2>1. CASE tickets'[x] = patched[x]
    BY <1>8, <2>1 DEF Ticket
  <2>2. CASE tickets'[x] = Confirm(patched[x]) /\ ~patched[x].confirmed
    <3> DEFINE q == Confirm(patched[x])
    <3>1. Continues(q, patched[x]) /\ q.confirmed = TRUE /\ Revises(q, patched[x])
      BY <1>8, <2>2, StartOverContinues, ConfirmIsTicket
    <3> HIDE DEF q
    <3>2. q \in Records /\ Continues(q, tickets[x])
      BY <1>1, <1>8, <3>1, Through DEF Revises, Ticket
    <3> QED
      BY <2>2, <3>1, <3>2 DEF q
  <2> QED
    BY <1>7, <2>1, <2>2
<1> QED
  BY <1>1, <1>9 DEF Continues, Promised, Counts, SystemBlocks, Unconfirms, Records

LEMMA StepPromised ==
    ASSUME IInv, [Next]_vars, "crash" \notin Stops, NEW x \in Tickets, tickets[x] # Absent
    PROVE  Promised(x)
<1>0. tickets \in [Tickets -> Records] /\ tickets[x] \in Records
  BY DEF IInv, Plan
<1>1. ASSUME NEW s \in Sessions, NEW t \in Tickets, NEW templated \in Templating, SelectProcess(s, t, templated)
      PROVE  Promised(x)
  BY <1>1, <1>0, SamePromised DEF SelectProcess
<1>2. ASSUME NEW s \in Sessions, ClearProcess(s) PROVE Promised(x)
  BY <1>2, SamePromised DEF ClearProcess, Clear
<1>3. ASSUME NEW s \in Sessions, HumanMessage(s) PROVE Promised(x)
  <2> DEFINE t == active[s]
             r == tickets[t]
  <2>1. Idle /\ t \in Tickets /\ GetTicket(t) = r /\ Ticket(r) /\ r # Absent
    BY <1>3, ActiveIsGot DEF HumanMessage
  <2>2. tickets' = [tickets EXCEPT ![t] = Resume(r)] \/ tickets' = [tickets EXCEPT ![t] = [r EXCEPT !.attempts = 0]]
    BY <1>3 DEF HumanMessage, Update
  <2>3. /\ Resume(r) \in Records /\ [r EXCEPT !.attempts = 0] \in Records
        /\ Undisturbed(Resume(r), r) /\ Undisturbed([r EXCEPT !.attempts = 0], r)
    BY <2>1, ResumeIsTicket, ResetIsTicket, ResetUndisturbed DEF Revises, Ticket
  <2> QED
    BY <2>1, <2>2, <2>3, GotPromised
<1>4. ASSUME NEW s \in Sessions, NEW t \in Tickets, Activate(s, t) PROVE Promised(x)
  <2> DEFINE got == GetTicket(t)
  <2>1. Idle /\ got.session = s /\ tickets' = [tickets EXCEPT ![t] = Activated(got)]
    BY <1>4 DEF Activate
  <2>2. got # Absent
    BY <2>1 DEF Absent
  <2>3. Ticket(got)
    BY <2>1, <2>2, GotTicket
  <2>4. Activated(got) \in Records /\ Undisturbed(Activated(got), got)
    BY <2>3, ActivatedIsTicket, ResetUndisturbed DEF Revises, Ticket
  <2> QED
    BY <2>1, <2>2, <2>4, GotPromised
<1>5. ASSUME NEW s \in Sessions, NEW t \in Tickets, Reassign(t, s) PROVE Promised(x)
  <2> DEFINE got == GetTicket(t)
             rebound == [got EXCEPT !.session = s]
  <2>1. Idle /\ got # Absent /\ tickets' = [tickets EXCEPT ![t] = Activated(rebound)]
    BY <1>5 DEF Reassign, Absent
  <2>2. Ticket(got)
    BY <2>1, GotTicket
  <2>3. Ticket(rebound) /\ Undisturbed(rebound, got)
    BY <2>2, MovedIsTicket, MoveUndisturbed
  <2> HIDE DEF rebound
  <2>4. Ticket(Activated(rebound)) /\ Undisturbed(Activated(rebound), rebound)
    BY <2>3, ActivatedIsTicket, ResetUndisturbed DEF Revises
  <2>5. Activated(rebound) \in Records /\ Undisturbed(Activated(rebound), got)
    BY <2>2, <2>3, <2>4, Through DEF Ticket, Undisturbed
  <2> QED
    BY <2>1, <2>5, GotPromised
<1>6. ASSUME NEW t \in Tickets, NEW i \in Steps, NEW checked \in BOOLEAN, SelectStep(t, i, checked)
      PROVE  Promised(x)
  <2> DEFINE got == GetTicket(t)
  <2>1. Idle /\ got # Absent /\ tickets' = [tickets EXCEPT ![t] = Select(got, i, checked)]
    BY <1>6 DEF SelectStep, Update, Absent
  <2>2. Ticket(got)
    BY <2>1, GotTicket
  <2>3. Select(got, i, checked) \in Records /\ Undisturbed(Select(got, i, checked), got)
    BY <2>2, SelectIsTicket, SelectUndisturbed DEF Revises, Ticket
  <2> QED
    BY <2>1, <2>3, GotPromised
<1>7. ASSUME NEW t \in Tickets, Lookup(t) PROVE Promised(x)
  BY <1>0, <1>7, SamePromised DEF Lookup
<1>8. ASSUME NEW t \in Tickets, ConfigRequest(t) PROVE Promised(x)
  BY <1>0, <1>8, SamePromised DEF ConfigRequest, GetTicket
<1>9. CASE Flush
  BY <1>9, SamePromised DEF Flush
<1>10. CASE Restart
  <2>1. CASE tickets'[x] = tickets[x]
    BY <2>1, SamePromised
  <2>2. CASE tickets'[x] = Absent
    BY <1>0, <2>2 DEF Promised, Counts, SystemBlocks, Unconfirms, Absent
  <2> QED
    BY <1>10, <2>1, <2>2, IdleRestart
<1>11. CASE UNCHANGED vars
  BY <1>11, SamePromised DEF vars
<1> QED
  BY <1>1, <1>2, <1>3, <1>4, <1>5, <1>6, <1>7, <1>8, <1>9, <1>10, <1>11,
     NudgePromised, TurnReplyPromised, ConfigPatchPromised DEF Next

\* The attempts counted are attempts at the current step, and rise one at a time
\* (ticketWithNextStep, maybeTriggerSessionWatchdog), unless a kill between two writes
\* brings back an older record.
THEOREM AttemptsAreCounted == "crash" \notin Stops /\ Spec => AttemptsAreAtThisStep
<1>1. ASSUME "crash" \notin Stops PROVE Spec => AttemptsAreAtThisStep
  <2>1. IInv /\ [Next]_vars =>
        [\A t \in Tickets : tickets[t] # Absent /\ tickets'[t].attempts > 0 =>
            /\ tickets'[t].current = tickets[t].current /\ tickets'[t].status = "active"
            /\ tickets'[t].attempts <= tickets[t].attempts + 1]_vars
    BY <1>1, StepPromised DEF Promised, Counts
  <2> QED
    BY <2>1, Invariance, PTL DEF Spec, AttemptsAreAtThisStep
<1> QED
  BY <1>1

\* The system blocks a ticket only at the third attempt in a row at one step
\* (maybeTriggerSessionWatchdog), under the same condition.
THEOREM SystemBlocksAtThird == "crash" \notin Stops /\ Spec => SystemBlocksOnlyTheThird
<1>1. ASSUME "crash" \notin Stops PROVE Spec => SystemBlocksOnlyTheThird
  <2>1. IInv /\ [Next]_vars =>
        [\A t \in Tickets :
            tickets[t] # Absent /\ tickets[t].blockedBy # "system" /\ tickets'[t].blockedBy = "system" =>
                tickets[t].attempts >= 2]_vars
    BY <1>1, StepPromised DEF Promised, SystemBlocks
  <2> QED
    BY <2>1, Invariance, PTL DEF Spec, SystemBlocksOnlyTheThird
<1> QED
  BY <1>1

\* A confirmation is lost only to a PATCH that read the ticket before it was confirmed,
\* under the same condition.
THEOREM ConfirmationIsKept == "crash" \notin Stops /\ Spec => OnlyStalePatchUnconfirms
<1>1. ASSUME "crash" \notin Stops PROVE Spec => OnlyStalePatchUnconfirms
  <2>1. ASSUME IInv, [Next]_vars, NEW t \in Tickets, tickets[t].confirmed, tickets'[t] # Absent,
               ~tickets'[t].confirmed
        PROVE  requests[t].state = "pending"
    <3>1. CASE tickets[t] # Absent
      BY <1>1, <2>1, <3>1, StepPromised DEF Promised, Unconfirms
    <3>2. CASE tickets[t] = Absent
      BY <2>1, <3>2 DEF Absent
    <3> QED
      BY <3>1, <3>2
  <2>2. IInv /\ [Next]_vars =>
        [\A t \in Tickets : tickets[t].confirmed /\ tickets'[t] # Absent /\ ~tickets'[t].confirmed =>
            requests[t].state = "pending"]_vars
    BY <2>1
  <2> QED
    BY <2>2, Invariance, PTL DEF Spec, OnlyStalePatchUnconfirms
<1> QED
  BY <1>1
=============================================================================
