-------------------------- MODULE SessionRunProofs --------------------------
(***************************************************************************)
(* Proofs about SessionRun, for every set of messages, settings, slots,    *)
(* requests, tags and faults.                                              *)
(***************************************************************************)
EXTENDS SessionRun, TLAPS

(***************************************************************************)
(* What makes the invariants inductive: a coroutine runs under settings    *)
(* the session had, and one that backs off has an attempt left.            *)
(***************************************************************************)
RunsWellFormed ==
    \A r \in Live(runs) :
        /\ runs[r].settings \in Settings
        /\ runs[r].phase = "backoff" => runs[r].attempt < MaxAttempts

IInv ==
    /\ TypeOK
    /\ OneTurnAtATime
    /\ StatusTracksTurn
    /\ ThreadMatchesSettings
    /\ TakenMessagesAreSeen
    /\ RunsWellFormed

\* What a drain leaves of the invariant.
Drained ==
    /\ mail' \in Mails /\ runs' \in Runs /\ runtime' \in Runtimes
    /\ active' \in BOOLEAN /\ asked' \in BOOLEAN /\ stopped' \in BOOLEAN
    /\ instructions' \subseteq Lines
    /\ OneTurnAtATime' /\ StatusTracksTurn' /\ TakenMessagesAreSeen' /\ RunsWellFormed'

-----------------------------------------------------------------------------
\* The kind of the session's settings is one of the two adapters.
LEMMA KindOfType == ASSUME NEW s \in Settings PROVE KindOf[s] \in Kinds
  BY SettingsAssumption

\* Appending a message yields a transcript.
LEMMA AppendType ==
  ASSUME settings \in Settings, NEW b \in Mails, NEW m \in Messages,
         NEW role \in Roles, NEW tags
  PROVE  AppendMessage(b, m, role, tags) \in Mails
  BY DEF AppendMessage, Mails, Deliveries

\* Marking messages seen yields a transcript.
LEMMA MarkSeenType ==
  ASSUME NEW b \in Mails, NEW S, NEW k \in Kinds
  PROVE  MarkMessagesSeen(b, S, k) \in Mails
  BY DEF MarkMessagesSeen, Mails, Deliveries

\* A waiting message of the marked set is seen afterwards.
LEMMA MarkedAreSeen ==
  ASSUME NEW b \in Mails, NEW S, NEW k \in Kinds, NEW m \in Messages,
         m \in S, b[m].delivery[k] = "pending"
  PROVE  MarkMessagesSeen(b, S, k)[m].delivery[k] = "seen"
  BY DEF MarkMessagesSeen, Mails, Deliveries

\* Seen messages stay seen whatever is marked.
LEMMA MarkSeenKeepsSeen ==
  ASSUME NEW b \in Mails, NEW S, NEW k \in Kinds, NEW m \in Messages, NEW j \in Kinds,
         b[m].delivery[j] = "seen"
  PROVE  MarkMessagesSeen(b, S, k)[m].delivery[j] = "seen"
  BY DEF MarkMessagesSeen, Mails, Deliveries
-----------------------------------------------------------------------------
(***************************************************************************)
(* The start of a turn, when the session has none, restores the invariant. *)
(***************************************************************************)
LEMMA BeginTurnDrains ==
  ASSUME settings \in Settings, instructions \subseteq Lines,
         NEW b \in Mails, NEW rs \in Runs, Live(rs) = {}, NEW r \in Slots, BeginTurn(b, rs, r)
  PROVE  Drained
<1> DEFINE k     == KindOf[settings]
           batch == QueuedUserMessages(b, k)
           taken == batch \cup QueuedInstructions(b, k)
           rec   == [phase |-> "starting", attempt |-> 1, settings |-> settings, batch |-> batch]
<1>1. k \in Kinds
  BY KindOfType
<1>2. batch \subseteq Messages /\ \A m \in batch : b[m].delivery[k] = "pending"
  BY DEF QueuedUserMessages, Pending
<1>3. mail' = MarkMessagesSeen(b, taken, k) /\ mail' \in Mails
  BY <1>1, MarkSeenType DEF BeginTurn
<1>4. runs' = [rs EXCEPT ![r] = rec] /\ runs' \in Runs
  BY <1>2 DEF BeginTurn, Runs, RunStates, MaxAttempts
<1>5. Live(runs') = {r} /\ runs'[r] = rec
  BY <1>4 DEF Live, Runs
<1>6. runtime' \in Runtimes /\ runtime'.status = "running" /\ active' = TRUE
      /\ asked' \in BOOLEAN /\ stopped' \in BOOLEAN
  BY <1>1 DEF BeginTurn, Runtimes
<1>7. instructions' \subseteq Lines
  BY DEF BeginTurn, ConsumeInstructions, Headers
<1>8. \A m \in batch : mail'[m].delivery[k] = "seen"
  <2> SUFFICES ASSUME NEW m \in batch PROVE mail'[m].delivery[k] = "seen"
    OBVIOUS
  <2>1. m \in Messages /\ m \in taken /\ b[m].delivery[k] = "pending"
    BY <1>2
  <2> QED
    BY <1>1, <1>3, <2>1, MarkedAreSeen
<1>9. TakenMessagesAreSeen'
  BY <1>5, <1>8 DEF TakenMessagesAreSeen
<1>10. OneTurnAtATime' /\ RunsWellFormed' /\ StatusTracksTurn'
  BY <1>5, <1>6 DEF OneTurnAtATime, RunsWellFormed, StatusTracksTurn
<1> QED
  BY <1>3, <1>4, <1>6, <1>7, <1>9, <1>10 DEF Drained

\* With nothing to run, the session is left without a turn.
LEMMA NothingToRunDrains ==
  ASSUME instructions \subseteq Lines, asked \in BOOLEAN, stopped \in BOOLEAN,
         NEW b \in Mails, NEW rs \in Runs, Live(rs) = {},
         NEW rt \in Runtimes, rt.status # "running", NothingToRun(b, rs, rt)
  PROVE  Drained
<1>1. runtime' \in Runtimes /\ runtime'.status \notin {"running", "queued"}
  BY DEF NothingToRun, Runtimes
<1>2. mail' = b /\ runs' = rs /\ active' = FALSE
  BY DEF NothingToRun
<1>3. Live(runs') = {}
  BY <1>2
<1>4. OneTurnAtATime' /\ StatusTracksTurn' /\ TakenMessagesAreSeen' /\ RunsWellFormed'
  BY <1>1, <1>2, <1>3 DEF OneTurnAtATime, StatusTracksTurn, TakenMessagesAreSeen, RunsWellFormed
<1> QED
  BY <1>1, <1>2, <1>4 DEF Drained, NothingToRun

\* processSessionQueue, called with no turn in progress.
LEMMA ProcessQueueDrains ==
  ASSUME settings \in Settings, instructions \subseteq Lines,
         asked \in BOOLEAN, stopped \in BOOLEAN,
         NEW b \in Mails, NEW rs \in Runs, Live(rs) = {},
         NEW rt \in Runtimes, rt.status # "running", ProcessQueue(FALSE, b, rs, rt)
  PROVE  Drained
  BY BeginTurnDrains, NothingToRunDrains DEF ProcessQueue

\* The end of a turn, which drains the queue, restores the invariant.
LEMMA EndTurnDrains ==
  ASSUME TypeOK, OneTurnAtATime, NEW r \in Slots, runs[r].phase # "none", NEW b \in Mails,
         NEW status \in {"idle", "interrupted", "error"}, EndTurn(r, b, FinalRuntime(status))
  PROVE  Drained
<1>1. [runs EXCEPT ![r] = NoRun] \in Runs
  BY DEF TypeOK, Runs, RunStates, NoRun, MaxAttempts
<1>2. Live([runs EXCEPT ![r] = NoRun]) = {}
  BY DEF TypeOK, Runs, NoRun, Live, OneTurnAtATime
<1>3. FinalRuntime(status) \in Runtimes /\ FinalRuntime(status).status # "running"
  BY DEF FinalRuntime, Runtimes
<1> QED
  BY <1>1, <1>2, <1>3, ProcessQueueDrains DEF EndTurn, TypeOK

-----------------------------------------------------------------------------
LEMMA InitIInv == Init => IInv
<1> SUFFICES ASSUME Init PROVE IInv
  OBVIOUS
<1>1. TypeOK
  <2>1. mail \in Mails /\ runtime \in Runtimes /\ interrupts \in [Requests -> [waiting : BOOLEAN, kind : Kinds]]
    BY DEF Init, Mails, Unsent, Deliveries, IdleRuntime, Runtimes, NoInterrupt, Kinds
  <2>2. NoRun \in RunStates
    BY DEF NoRun, RunStates, MaxAttempts
  <2>3. runs \in Runs
    BY <2>2 DEF Init, Runs
  <2> QED
    BY <2>1, <2>3 DEF Init, TypeOK
<1>2. Live(runs) = {}
  BY DEF Init, NoRun, Live
<1> QED
  BY <1>1, <1>2 DEF Init, IInv, OneTurnAtATime, StatusTracksTurn, ThreadMatchesSettings,
     TakenMessagesAreSeen, RunsWellFormed, IdleRuntime

\* A step that changes only the transcript, forgetting no "seen", keeps the invariant.
LEMMA StoreStep ==
  ASSUME IInv, mail' \in Mails, instructions' \subseteq Lines, process' \in Processes \cup {NoProcess},
         \A m \in Messages, k \in Kinds : mail[m].delivery[k] = "seen" => mail'[m].delivery[k] = "seen",
         UNCHANGED <<settings, thread, active, runtime, runs, interrupts, asked, stopped>>
  PROVE  IInv'
<1>1. TypeOK' /\ OneTurnAtATime' /\ StatusTracksTurn' /\ ThreadMatchesSettings' /\ RunsWellFormed'
  BY DEF IInv, TypeOK, OneTurnAtATime, StatusTracksTurn, ThreadMatchesSettings, RunsWellFormed, Live
<1>2. TakenMessagesAreSeen'
  <2> SUFFICES ASSUME NEW r \in Live(runs), NEW m \in runs[r].batch
               PROVE  mail'[m].delivery[KindOf[runs[r].settings]] = "seen"
    BY DEF TakenMessagesAreSeen, Live
  <2>1. m \in Messages /\ KindOf[runs[r].settings] \in Kinds
    BY KindOfType DEF IInv, TypeOK, Runs, RunStates, RunsWellFormed, Live
  <2> QED
    BY <2>1 DEF IInv, TakenMessagesAreSeen
<1> QED
  BY <1>1, <1>2 DEF IInv

\* A drain keeps the invariant when it leaves the settings and a matching thread.
LEMMA DrainStep ==
  ASSUME IInv, Drained, settings' = settings, thread' \in {settings, thread}, UNCHANGED <<process, interrupts>>
  PROVE  IInv'
  BY DEF IInv, Drained, TypeOK, ThreadMatchesSettings

\* An unsent message is seen by nobody.
LEMMA AppendKeepsSeen ==
  ASSUME NEW b \in Mails, NEW m \in Messages, b[m] = Unsent, NEW role, NEW tags
  PROVE  \A n \in Messages, k \in Kinds :
            b[n].delivery[k] = "seen" => AppendMessage(b, m, role, tags)[n].delivery[k] = "seen"
  BY DEF AppendMessage, Unsent, Mails

LEMMA PostMessageStep ==
  ASSUME IInv, NEW m \in Messages, NEW role \in PostedRoles, NEW tags \in Tags, PostMessage(m, role, tags)
  PROVE  IInv'
<1> DEFINE b == AppendMessage(mail, m, role, tags)
<1>1. b \in Mails
  BY AppendType, RolesAssumption DEF IInv, TypeOK, Roles
<1>2. CASE active
  <2>1. mail' = b /\ UNCHANGED <<instructions, settings, thread, process, active, runtime, runs, interrupts, asked, stopped>>
    BY <1>2 DEF PostMessage, ProcessQueue
  <2> QED
    BY <1>1, <2>1, StoreStep, AppendKeepsSeen DEF IInv, TypeOK, PostMessage
<1>3. CASE ~active
  <2> DEFINE rt == [runtime EXCEPT !.status = "queued"]
  <2>1. ProcessQueue(FALSE, b, runs, rt)
    BY <1>3 DEF PostMessage, IInv, TypeOK
  <2>2. rt \in Runtimes /\ rt.status # "running" /\ Live(runs) = {}
    BY <1>3 DEF IInv, TypeOK, Runtimes, OneTurnAtATime
  <2>3. Drained
    BY <1>1, <2>1, <2>2, ProcessQueueDrains DEF IInv, TypeOK
  <2> QED
    BY <2>3, DrainStep DEF PostMessage
<1> QED
  BY <1>2, <1>3

\* Dropping some notices and appending another forgets no "seen".
LEMMA ReplaceNotices ==
  ASSUME settings \in Settings, mail \in Mails, NEW S, NEW k \in Kinds,
         NEW m \in Messages, mail[m] = Unsent, NEW role \in Roles,
         mail' = AppendMessage(MarkMessagesSeen(mail, S, k), m, role, {})
  PROVE  /\ mail' \in Mails
         /\ \A n \in Messages, j \in Kinds : mail[n].delivery[j] = "seen" => mail'[n].delivery[j] = "seen"
<1> DEFINE b == MarkMessagesSeen(mail, S, k)
<1>1. b \in Mails
  BY MarkSeenType
<1>2. b[m] = Unsent
  BY DEF MarkMessagesSeen, Unsent
<1>3. mail' \in Mails
  BY <1>1, AppendType
<1>4. \A n \in Messages, j \in Kinds : mail[n].delivery[j] = "seen" => mail'[n].delivery[j] = "seen"
  BY <1>1, <1>2, MarkSeenKeepsSeen, AppendKeepsSeen
<1> QED
  BY <1>3, <1>4

\* The lines of a process, and what a step that adds lines keeps of their type.
LEMMA LinesType ==
  /\ SessionLine \in Lines
  /\ \A p \in Processes : ProcessLines(p) \subseteq Lines
  BY DEF Lines

LEMMA PatchSteps ==
  ASSUME IInv, NEW m \in Messages,
         PatchInstruction(m) \/ \E p \in Processes \cup {NoProcess} : ChangeProcess(m, p)
  PROVE  IInv'
<1> DEFINE k == KindOf[settings]
<1>1. k \in Kinds /\ mail \in Mails /\ settings \in Settings /\ mail[m] = Unsent
  BY KindOfType DEF IInv, TypeOK, PatchInstruction, ChangeProcess
<1>2. CASE PatchInstruction(m)
  <2>1. /\ mail' \in Mails
        /\ \A n \in Messages, j \in Kinds : mail[n].delivery[j] = "seen" => mail'[n].delivery[j] = "seen"
    BY <1>1, <1>2, ReplaceNotices DEF PatchInstruction, Roles
  <2>2. instructions' \subseteq Lines /\ process' \in Processes \cup {NoProcess}
    BY <1>2, LinesType DEF PatchInstruction, IInv, TypeOK
  <2> QED
    BY <1>2, <2>1, <2>2, StoreStep DEF PatchInstruction
<1>3. CASE \E p \in Processes \cup {NoProcess} : ChangeProcess(m, p)
  <2> PICK p \in Processes \cup {NoProcess} : ChangeProcess(m, p)
    BY <1>3
  <2>1. /\ mail' \in Mails
        /\ \A n \in Messages, j \in Kinds : mail[n].delivery[j] = "seen" => mail'[n].delivery[j] = "seen"
    BY <1>1, ReplaceNotices DEF ChangeProcess, Roles
  <2>2. instructions' \subseteq Lines /\ process' \in Processes \cup {NoProcess}
    BY LinesType DEF ChangeProcess, IInv, TypeOK
  <2> QED
    BY <2>1, <2>2, StoreStep DEF ChangeProcess
<1> QED
  BY <1>2, <1>3

LEMMA SwitchStep ==
  ASSUME IInv, NEW s \in Settings, SwitchProvider(s)
  PROVE  IInv'
  BY DEF IInv, SwitchProvider, TypeOK, OneTurnAtATime, StatusTracksTurn, ThreadMatchesSettings,
     TakenMessagesAreSeen, RunsWellFormed, Live

\* What becomes of a coroutine that only changes its phase and attempt.
LEMMA RunChange ==
  ASSUME runs \in Runs, NEW r \in Slots, NEW phase \in {"starting", "turn", "backoff"}, NEW attempt \in 0 .. MaxAttempts,
         runs' = [runs EXCEPT ![r].phase = phase, ![r].attempt = attempt]
  PROVE  /\ runs' \in Runs
         /\ \A x \in Slots : runs'[x].settings = runs[x].settings /\ runs'[x].batch = runs[x].batch
         /\ \A x \in Slots \ {r} : runs'[x] = runs[x]
         /\ runs'[r].phase = phase /\ runs'[r].attempt = attempt
<1>1. \A x \in Slots : runs[x] \in RunStates
  BY DEF Runs
<1> DEFINE one == [runs[r] EXCEPT !.phase = phase]
           two == [one EXCEPT !.attempt = attempt]
<1>2. one \in RunStates /\ one.settings = runs[r].settings /\ one.batch = runs[r].batch /\ one.phase = phase
  BY <1>1 DEF RunStates
<1>3. two \in RunStates /\ two.settings = runs[r].settings /\ two.batch = runs[r].batch
      /\ two.phase = phase /\ two.attempt = attempt
  <2> HIDE DEF one
  <2> QED
    BY <1>2 DEF RunStates
<1>4. runs' = [runs EXCEPT ![r] = two]
  BY DEF Runs
<1> HIDE DEF two
<1>5. \A x \in Slots : runs'[x] = IF x = r THEN two ELSE runs[x]
  BY <1>4 DEF Runs
<1>6. runs' \in Runs
  BY <1>1, <1>3, <1>4 DEF Runs
<1> QED
  BY <1>3, <1>5, <1>6

\* Such a change keeps the invariant.
LEMMA RunStep ==
  ASSUME IInv, NEW r \in Live(runs), NEW phase \in {"starting", "turn", "backoff"}, NEW attempt \in 0 .. MaxAttempts,
         phase = "backoff" => attempt < MaxAttempts,
         runs' = [runs EXCEPT ![r].phase = phase, ![r].attempt = attempt],
         runtime' \in Runtimes, runtime'.status = "running", stopped' \in BOOLEAN,
         UNCHANGED <<mail, settings, thread, process, instructions, active, interrupts, asked>>
  PROVE  IInv'
<1>1. r \in Slots /\ runs \in Runs
  BY DEF IInv, TypeOK, Live
<1>2. /\ runs' \in Runs
      /\ \A x \in Slots : runs'[x].settings = runs[x].settings /\ runs'[x].batch = runs[x].batch
      /\ \A x \in Slots \ {r} : runs'[x] = runs[x]
      /\ runs'[r].phase = phase /\ runs'[r].attempt = attempt
  BY <1>1, RunChange
<1>3. Live(runs') = Live(runs)
  BY <1>1, <1>2 DEF Live
<1>4. TypeOK'
  BY <1>2 DEF IInv, TypeOK
<1>5. TakenMessagesAreSeen'
  <2> SUFFICES ASSUME NEW x \in Live(runs), NEW m \in runs'[x].batch
               PROVE  mail[m].delivery[KindOf[runs'[x].settings]] = "seen"
    BY <1>3 DEF TakenMessagesAreSeen
  <2>1. runs'[x].settings = runs[x].settings /\ runs'[x].batch = runs[x].batch
    BY <1>2 DEF Live
  <2>2. m \in runs[x].batch
    BY <2>1
  <2> QED
    BY <2>1, <2>2 DEF IInv, TakenMessagesAreSeen
<1>6. RunsWellFormed'
  BY <1>2, <1>3 DEF IInv, RunsWellFormed, Live
<1>7. OneTurnAtATime' /\ StatusTracksTurn' /\ ThreadMatchesSettings'
  BY <1>1, <1>3 DEF IInv, OneTurnAtATime, StatusTracksTurn, ThreadMatchesSettings
<1> QED
  BY <1>4, <1>5, <1>6, <1>7 DEF IInv

LEMMA TurnStartedStep ==
  ASSUME IInv, NEW r \in Slots, TurnStarted(r)
  PROVE  IInv'
<1>1. r \in Live(runs) /\ runs[r].attempt \in 0 .. MaxAttempts
  BY DEF TurnStarted, Live, IInv, TypeOK, Runs, RunStates
<1>2. runs' = [runs EXCEPT ![r].phase = "turn", ![r].attempt = runs[r].attempt]
  BY DEF TurnStarted, IInv, TypeOK, Runs
<1>3. runtime' \in Runtimes /\ runtime'.status = "running"
  BY DEF TurnStarted, IInv, TypeOK, Runtimes
<1>4. stopped' \in BOOLEAN
  BY DEF TurnStarted, IInv, TypeOK, Runtimes
<1> QED
  BY <1>1, <1>2, <1>3, <1>4, RunStep DEF TurnStarted

LEMMA RetryStep ==
  ASSUME IInv, NEW r \in Slots, Retry(r)
  PROVE  IInv'
<1>1. r \in Live(runs) /\ runs[r].attempt \in 0 .. MaxAttempts /\ runs[r].attempt < MaxAttempts
  BY DEF Retry, Live, IInv, TypeOK, Runs, RunStates, RunsWellFormed
<1>2. runs[r].attempt + 1 \in 0 .. MaxAttempts
  BY <1>1 DEF MaxAttempts
<1>3. runs' = [runs EXCEPT ![r].phase = "starting", ![r].attempt = runs[r].attempt + 1]
  BY DEF Retry, IInv, TypeOK, Runs
<1>4. runtime' \in Runtimes /\ runtime'.status = "running" /\ stopped' \in BOOLEAN
  BY DEF Retry, IInv, TypeOK, Runtimes
<1> QED
  BY <1>1, <1>2, <1>3, <1>4, RunStep DEF Retry

LEMMA TurnSucceededStep ==
  ASSUME IInv, NEW r \in Slots, TurnSucceeded(r)
  PROVE  IInv'
<1>1. runs[r].phase # "none" /\ thread' \in {settings, thread}
  BY DEF TurnSucceeded, ThreadAfter
<1>2. PICK b \in Mails : EndTurn(r, b, FinalRuntime("idle"))
  BY AppendType DEF TurnSucceeded, IInv, TypeOK, Roles
<1>3. Drained
  BY <1>1, <1>2, EndTurnDrains DEF IInv
<1> QED
  BY <1>1, <1>2, <1>3, DrainStep DEF EndTurn

LEMMA TurnFailedStep ==
  ASSUME IInv, NEW r \in Slots, NEW retryable \in BOOLEAN, TurnFailed(r, retryable)
  PROVE  IInv'
<1>1. runs[r].phase # "none" /\ r \in Live(runs) /\ mail \in Mails /\ thread' = thread
  BY DEF TurnFailed, Live, IInv, TypeOK
<1>2. CASE \E status \in {"interrupted", "error"} : EndTurn(r, mail, FinalRuntime(status))
  <2>1. Drained
    BY <1>1, <1>2, EndTurnDrains DEF IInv
  <2> QED
    BY <1>1, <1>2, <2>1, DrainStep DEF EndTurn
<1>3. CASE /\ ShouldRetry(r, retryable)
           /\ runs' = [runs EXCEPT ![r].phase = "backoff"]
           /\ runtime' = [runtime EXCEPT !.status = "running"]
           /\ UNCHANGED <<mail, settings, process, instructions, active, interrupts, asked, stopped>>
  <2>1. runs' = [runs EXCEPT ![r].phase = "backoff", ![r].attempt = runs[r].attempt]
    BY <1>3 DEF IInv, TypeOK, Runs
  <2>2. runs[r].attempt \in 0 .. MaxAttempts /\ runs[r].attempt < MaxAttempts
    BY <1>3 DEF IInv, TypeOK, Runs, RunStates, ShouldRetry
  <2>3. runtime' \in Runtimes /\ runtime'.status = "running" /\ stopped' \in BOOLEAN
    BY <1>3 DEF IInv, TypeOK, Runtimes
  <2> QED
    BY <1>1, <1>3, <2>1, <2>2, <2>3, RunStep
<1> QED
  BY <1>2, <1>3 DEF TurnFailed

LEMMA InterruptStep ==
  ASSUME IInv, NEW q \in Requests, Interrupt(q)
  PROVE  IInv'
<1>1. runtime' \in Runtimes /\ runtime'.status = runtime.status
  BY DEF Interrupt, IInv, TypeOK, Runtimes
<1>2. [waiting |-> TRUE, kind |-> InterruptKind] \in [waiting : BOOLEAN, kind : Kinds]
  BY KindOfType DEF IInv, TypeOK, InterruptKind, Runtimes
<1>3. interrupts' \in [Requests -> [waiting : BOOLEAN, kind : Kinds]]
  BY <1>2 DEF Interrupt, IInv, TypeOK
<1>4. TypeOK'
  BY <1>1, <1>3 DEF Interrupt, IInv, TypeOK
<1> QED
  BY <1>1, <1>4 DEF Interrupt, IInv, OneTurnAtATime, StatusTracksTurn, ThreadMatchesSettings,
     TakenMessagesAreSeen, RunsWellFormed, Live

LEMMA InterruptAnsweredStep ==
  ASSUME IInv, NEW q \in Requests, NEW ok \in BOOLEAN, InterruptAnswered(q, ok)
  PROVE  IInv'
<1>1. runtime' \in Runtimes /\ runtime'.status \in {runtime.status, "interrupted"}
  BY DEF InterruptAnswered, RuntimeAfterInterrupt, IInv, TypeOK, Runtimes
<1>2. interrupts' \in [Requests -> [waiting : BOOLEAN, kind : Kinds]]
  BY DEF InterruptAnswered, IInv, TypeOK, NoInterrupt, Kinds
<1>3. TypeOK'
  BY <1>1, <1>2 DEF InterruptAnswered, IInv, TypeOK
<1> QED
  BY <1>1, <1>3 DEF InterruptAnswered, IInv, OneTurnAtATime, StatusTracksTurn, ThreadMatchesSettings,
     TakenMessagesAreSeen, RunsWellFormed, Live

LEMMA RestartStep ==
  ASSUME IInv, Restart
  PROVE  IInv'
<1>1. runs' \in Runs /\ Live(runs') = {}
  BY DEF Restart, NoRun, Runs, RunStates, Live, MaxAttempts
<1>2. runtime' \in Runtimes /\ interrupts' \in [Requests -> [waiting : BOOLEAN, kind : Kinds]]
  BY DEF Restart, IdleRuntime, Runtimes, NoInterrupt, Kinds
<1>3. TypeOK'
  BY <1>1, <1>2 DEF Restart, store, IInv, TypeOK
<1> QED
  BY <1>1, <1>3 DEF Restart, store, IdleRuntime, IInv, OneTurnAtATime, StatusTracksTurn,
     ThreadMatchesSettings, TakenMessagesAreSeen, RunsWellFormed

LEMMA StutterStep == IInv /\ UNCHANGED vars => IInv'
  BY DEF vars, IInv, TypeOK, OneTurnAtATime, StatusTracksTurn, ThreadMatchesSettings,
     TakenMessagesAreSeen, RunsWellFormed, Live

LEMMA StepIInv == IInv /\ [Next]_vars => IInv'
  BY PostMessageStep, PatchSteps, SwitchStep, TurnStartedStep, RetryStep, TurnSucceededStep,
     TurnFailedStep, InterruptStep, InterruptAnsweredStep, RestartStep, StutterStep
     DEF Next, ClientStep, TurnEnds

(***************************************************************************)
(* The inductive invariant holds in every reachable state.                 *)
(***************************************************************************)
THEOREM Invariance == Spec => []IInv
  BY InitIInv, StepIInv, PTL DEF Spec

(***************************************************************************)
(* Every variable keeps its type; "queued" is only seen inside a handler.  *)
(***************************************************************************)
THEOREM TypeCorrect == Spec => []TypeOK
<1>1. IInv => TypeOK
  BY DEF IInv
<1> QED
  BY <1>1, Invariance, PTL

(***************************************************************************)
(* A session never has two provider turns, whatever posts, interrupts,     *)
(* switches and restarts come in between.                                  *)
(***************************************************************************)
THEOREM SingleTurn == Spec => []OneTurnAtATime
<1>1. IInv => OneTurnAtATime
  BY DEF IInv
<1> QED
  BY <1>1, Invariance, PTL

(***************************************************************************)
(* "running" is shown only over a live turn, and a live turn is shown as   *)
(* running or interrupted.                                                 *)
(***************************************************************************)
THEOREM StatusIsTrue == Spec => []StatusTracksTurn
<1>1. IInv => StatusTracksTurn
  BY DEF IInv
<1> QED
  BY <1>1, Invariance, PTL

(***************************************************************************)
(* The stored provider thread belongs to the session's present settings.   *)
(***************************************************************************)
THEOREM ThreadIsOfSettings == Spec => []ThreadMatchesSettings
<1>1. IInv => ThreadMatchesSettings
  BY DEF IInv
<1> QED
  BY <1>1, Invariance, PTL

(***************************************************************************)
(* A message a live turn took is seen, so no later turn takes it again.    *)
(***************************************************************************)
THEOREM TakenOnce == Spec => []TakenMessagesAreSeen
<1>1. IInv => TakenMessagesAreSeen
  BY DEF IInv
<1> QED
  BY <1>1, Invariance, PTL
-----------------------------------------------------------------------------
\* A drain leaves no human message waiting without a turn.
LEMMA DrainStrandsNone ==
  ASSUME settings' = settings, NEW b, NEW rs, NEW rt, ProcessQueue(FALSE, b, rs, rt)
  PROVE  Stranded' = {}
<1>1. CASE QueuedUserMessages(b, KindOf[settings]) = {} /\ NothingToRun(b, rs, rt)
  <2>1. QueuedUserMessages(mail', KindOf[settings']) = {}
    BY <1>1 DEF NothingToRun
  <2> QED
    BY <2>1 DEF Stranded
<1>2. CASE \E r \in Slots : BeginTurn(b, rs, r)
  BY <1>2 DEF BeginTurn, Stranded
<1> QED
  BY <1>1, <1>2 DEF ProcessQueue

\* Nor does a step that leaves the queue, the settings and active alone strand one.
LEMMA SameStrandsNone ==
  ASSUME UNCHANGED <<mail, settings, active>>
  PROVE  Stranded' = Stranded
  BY DEF Stranded, QueuedUserMessages, Pending

\* The messages the server itself queues are not human ones.
LEMMA PatchStrandsNone ==
  ASSUME IInv, NEW m \in Messages,
         PatchInstruction(m) \/ \E p \in Processes \cup {NoProcess} : ChangeProcess(m, p)
  PROVE  Stranded' \subseteq Stranded
<1> DEFINE k == KindOf[settings]
<1>1. k \in Kinds /\ mail \in Mails /\ settings' = settings /\ active' = active
  BY KindOfType DEF IInv, TypeOK, PatchInstruction, ChangeProcess
<1>2. PICK S, role : /\ role # "user"
                     /\ mail' = AppendMessage(MarkMessagesSeen(mail, S, k), m, role, {})
  <2>1. CASE PatchInstruction(m)
    <3>1. mail' = AppendMessage(MarkMessagesSeen(mail, QueuedPatchMessages(mail, k), k), m, "patch", {})
      BY <2>1 DEF PatchInstruction
    <3> QED
      BY <3>1
  <2>2. CASE \E p \in Processes \cup {NoProcess} : ChangeProcess(m, p)
    <3>1. mail' = AppendMessage(MarkMessagesSeen(mail, QueuedSystemMessages(mail, k), k), m, "change", {})
      BY <2>2 DEF ChangeProcess
    <3> QED
      BY <3>1
  <2> QED
    BY <2>1, <2>2
<1> DEFINE b == MarkMessagesSeen(mail, S, k)
<1>3. b \in Mails
  BY <1>1, MarkSeenType
<1>4. mail'[m].role # "user" /\ \A n \in Messages \ {m} : mail'[n] = b[n]
  BY <1>2, <1>3 DEF AppendMessage, Mails
<1>5. \A n \in Messages : b[n].role = mail[n].role
                         /\ (b[n].delivery[k] = "pending" => mail[n].delivery[k] = "pending")
  BY <1>1 DEF MarkMessagesSeen, Mails, Deliveries
<1> QED
  BY <1>1, <1>4, <1>5 DEF Stranded, QueuedUserMessages, Pending

(***************************************************************************)
(* The wake-up theorem: only a restart or a change of provider leaves a    *)
(* human message waiting with no turn in progress.                         *)
(***************************************************************************)
THEOREM NoLostWakeup == Spec => OnlyRestartOrSwitchStrands
<1> DEFINE Keeps == (\E m \in Stranded' : m \notin Stranded) => (Restart \/ \E s \in Settings : SwitchProvider(s))
<1>1. ASSUME IInv, Next PROVE Keeps
  <2>1. CASE ClientStep
    <3>1. CASE \E m \in Messages, role \in PostedRoles, tags \in Tags : PostMessage(m, role, tags)
      <4> PICK m \in Messages, role \in PostedRoles, tags \in Tags : PostMessage(m, role, tags)
        BY <3>1
      <4>1. CASE active
        BY <4>1 DEF PostMessage, ProcessQueue, Stranded
      <4>2. CASE ~active
        <5>1. settings' = settings
              /\ ProcessQueue(FALSE, AppendMessage(mail, m, role, tags), runs, [runtime EXCEPT !.status = "queued"])
          BY <1>1, <4>2 DEF PostMessage, IInv, TypeOK
        <5>2. Stranded' = {}
          BY <5>1, DrainStrandsNone
        <5> QED
          BY <5>2
      <4> QED
        BY <4>1, <4>2
    <3>2. CASE \E m \in Messages : PatchInstruction(m) \/ \E p \in Processes \cup {NoProcess} : ChangeProcess(m, p)
      BY <1>1, <3>2, PatchStrandsNone
    <3> QED
      BY <2>1, <3>1, <3>2 DEF ClientStep
  <2>2. CASE \E r \in Slots : TurnStarted(r) \/ TurnEnds(r) \/ Retry(r)
    <3> PICK r \in Slots : TurnStarted(r) \/ TurnEnds(r) \/ Retry(r)
      BY <2>2
    <3>1. CASE \E b, rt : EndTurn(r, b, rt)
      BY <3>1, DrainStrandsNone DEF EndTurn
    <3>2. CASE UNCHANGED <<mail, settings, active>>
      BY <3>2, SameStrandsNone
    <3> QED
      BY <3>1, <3>2 DEF TurnStarted, TurnEnds, Retry, TurnSucceeded, TurnFailed
  <2>3. CASE \E q \in Requests : Interrupt(q) \/ \E ok \in BOOLEAN : InterruptAnswered(q, ok)
    BY <2>3, SameStrandsNone DEF Interrupt, InterruptAnswered
  <2> QED
    BY <1>1, <2>1, <2>2, <2>3 DEF Next
<1> QED
  BY <1>1, Invariance, PTL DEF Spec, OnlyRestartOrSwitchStrands
-----------------------------------------------------------------------------
(***************************************************************************)
(* A drain that consumes the last prefixed line begins a turn with a human *)
(* message: not one of the turn that ended, whose messages were seen.      *)
(***************************************************************************)
LEMMA DrainConsumes ==
  ASSUME IInv, NEW b \in Mails, NEW rs \in Runs, NEW rt, ProcessQueue(FALSE, b, rs, rt),
         \A m \in Messages, k \in Kinds : mail[m].delivery[k] = "seen" => b[m].delivery[k] = "seen",
         Headers(instructions) # {}, Headers(instructions') = {}
  PROVE  HumanTurnBegins
<1> DEFINE k     == KindOf[settings]
           batch == QueuedUserMessages(b, k)
           taken == batch \cup QueuedInstructions(b, k)
           rec   == [phase |-> "starting", attempt |-> 1, settings |-> settings, batch |-> batch]
<1>1. PICK r \in Slots : BeginTurn(b, rs, r)
  BY DEF ProcessQueue, NothingToRun
<1>2. k \in Kinds /\ batch \subseteq Messages /\ \A m \in batch : b[m].delivery[k] = "pending"
  BY KindOfType DEF IInv, TypeOK, QueuedUserMessages, Pending
<1>3. PICK m \in batch : b[m].role = "user"
  <2>1. instructions' = ConsumeInstructions(b, batch)
    BY <1>1 DEF BeginTurn
  <2> QED
    BY <2>1 DEF ConsumeInstructions, Headers
<1>4. mail'[m].role = "user"
  <2>1. mail' = MarkMessagesSeen(b, taken, k)
    BY <1>1 DEF BeginTurn
  <2> QED
    BY <1>2, <1>3, <2>1 DEF MarkMessagesSeen, Mails
<1>5. runs'[r] = rec /\ r \in Live(runs') /\ m \in runs'[r].batch
  BY <1>1, <1>3 DEF BeginTurn, Runs, Live
<1>6. runs'[r] # runs[r]
  <2>1. SUFFICES ASSUME runs[r] = rec PROVE FALSE
    BY <1>5
  <2>2. r \in Live(runs) /\ m \in runs[r].batch /\ runs[r].settings = settings
    BY <2>1, <1>3 DEF Live
  <2>3. mail[m].delivery[k] = "seen"
    BY <2>2 DEF IInv, TakenMessagesAreSeen
  <2> QED
    BY <1>2, <1>3, <2>3
<1> QED
  BY <1>4, <1>5, <1>6 DEF HumanTurnBegins

LEMMA StepConsumes ==
  ASSUME IInv, Next, Headers(instructions) # {}, Headers(instructions') = {}
  PROVE  HumanTurnBegins
<1> USE DEF IInv, TypeOK
<1>1. ASSUME NEW m \in Messages, NEW role \in PostedRoles, NEW tags \in Tags, PostMessage(m, role, tags)
      PROVE  HumanTurnBegins
  <2>1. AppendMessage(mail, m, role, tags) \in Mails
    BY AppendType, RolesAssumption DEF Roles
  <2>2. CASE active
    BY <1>1, <2>2 DEF PostMessage, ProcessQueue
  <2>3. CASE ~active
    <3> DEFINE b  == AppendMessage(mail, m, role, tags)
               rt == [runtime EXCEPT !.status = "queued"]
    <3>1. ProcessQueue(FALSE, b, runs, rt)
      BY <1>1, <2>3 DEF PostMessage
    <3>2. \A n \in Messages, k \in Kinds : mail[n].delivery[k] = "seen" => b[n].delivery[k] = "seen"
      BY <1>1, AppendKeepsSeen DEF PostMessage
    <3>3. b \in Mails /\ runs \in Runs /\ IInv
      BY <2>1
    <3> HIDE DEF IInv, TypeOK, b, rt
    <3> QED
      BY <3>1, <3>2, <3>3, DrainConsumes
  <2> QED
    BY <2>2, <2>3
<1>2. ASSUME NEW m \in Messages, PatchInstruction(m)
      PROVE  HumanTurnBegins
  BY <1>2 DEF PatchInstruction, Headers
<1>3. ASSUME NEW m \in Messages, NEW p \in Processes \cup {NoProcess}, ChangeProcess(m, p)
      PROVE  HumanTurnBegins
  <2>1. CASE p = NoProcess
    BY <1>3, <2>1 DEF ChangeProcess
  <2>2. CASE p # NoProcess
    <3>1. Line("header", p) \in instructions' /\ Line("header", p).kind = "header"
      BY <1>3, <2>2 DEF ChangeProcess, ProcessLines, Line
    <3> QED
      BY <3>1 DEF Headers
  <2> QED
    BY <2>1, <2>2
<1>4. ASSUME NEW r \in Slots, runs[r].phase # "none", NEW b \in Mails, NEW rt, EndTurn(r, b, rt),
             \A m \in Messages, k \in Kinds : mail[m].delivery[k] = "seen" => b[m].delivery[k] = "seen"
      PROVE  HumanTurnBegins
  <2>1. [runs EXCEPT ![r] = NoRun] \in Runs
    BY DEF Runs, RunStates, NoRun, MaxAttempts
  <2> QED
    BY <1>4, <2>1, DrainConsumes DEF EndTurn
<1>5. ASSUME NEW r \in Slots, TurnSucceeded(r)
      PROVE  HumanTurnBegins
  <2>1. CASE EndTurn(r, mail, FinalRuntime("idle"))
    BY <1>4, <1>5, <2>1 DEF TurnSucceeded
  <2>2. CASE \E m \in Messages : mail[m] = Unsent /\ EndTurn(r, AppendMessage(mail, m, "step", {}), FinalRuntime("idle"))
    BY <1>4, <1>5, <2>2, AppendType, AppendKeepsSeen DEF TurnSucceeded, Roles
  <2> QED
    BY <1>5, <2>1, <2>2 DEF TurnSucceeded
<1>6. ASSUME NEW r \in Slots, NEW retryable \in BOOLEAN, TurnFailed(r, retryable)
      PROVE  HumanTurnBegins
  BY <1>4, <1>6 DEF TurnFailed
<1> QED
  BY <1>1, <1>2, <1>3, <1>5, <1>6 DEF Next, ClientStep, TurnEnds, SwitchProvider, TurnStarted, Retry,
     Interrupt, InterruptAnswered, Restart, store

(***************************************************************************)
(* Turns that ticket events start never consume the prefixed line of a     *)
(* queued process: only a turn with a human message does.                  *)
(***************************************************************************)
THEOREM InstructionWaits == Spec => ProcessInstructionWaitsForHuman
<1>1. ASSUME IInv, [Next]_vars
      PROVE  Headers(instructions) # {} /\ Headers(instructions') = {} => HumanTurnBegins
  BY <1>1, StepConsumes DEF vars
<1> QED
  BY <1>1, Invariance, PTL DEF Spec, ProcessInstructionWaitsForHuman
-----------------------------------------------------------------------------
(***************************************************************************)
(* The turn engine implements the abstract queue, for every value of the   *)
(* constants: every step of SessionRun is a step of TurnQueue under the    *)
(* mapping Delivery.                                                       *)
(***************************************************************************)
\* From transcript b to c no delivery goes back: what waits stays or is seen, what is
\* seen stays so.
Ahead(b, c) ==
    \A m \in Messages, k \in Kinds :
        /\ b[m].delivery[k] = "pending" => c[m].delivery[k] \in {"pending", "seen"}
        /\ b[m].delivery[k] = "seen" => c[m].delivery[k] = "seen"

Forward == Ahead(mail, mail')

\* The deliveries of a turn are given up, or are all of messages not seen before.
TakesUnseen ==
    \/ Taken' \subseteq Taken
    \/ \A d \in Taken' : mail[d[1]].delivery[d[2]] # "seen"
-----------------------------------------------------------------------------
\* The deliveries of the live turn are of one participant and seen.
LEMMA TakenType ==
  ASSUME IInv
  PROVE  /\ Taken \subseteq Messages \X Kinds
         /\ \A d \in Taken : mail[d[1]].delivery[d[2]] = "seen"
         /\ \A d, e \in Taken : d[2] = e[2]
<1>1. ASSUME NEW r \in Live(runs), NEW d \in runs[r].batch \X {KindOf[runs[r].settings]}
      PROVE  d \in Messages \X Kinds /\ mail[d[1]].delivery[d[2]] = "seen" /\ d[2] = KindOf[runs[r].settings]
  <2>1. d[1] \in runs[r].batch /\ d[2] = KindOf[runs[r].settings] /\ d = <<d[1], d[2]>>
    OBVIOUS
  <2>2. d[1] \in Messages /\ d[2] \in Kinds
    BY <2>1, KindOfType DEF IInv, TypeOK, Runs, RunStates, RunsWellFormed, Live
  <2> QED
    BY <2>1, <2>2 DEF IInv, TakenMessagesAreSeen
<1>2. \A r1, r2 \in Live(runs) : r1 = r2
  BY DEF IInv, OneTurnAtATime
<1> QED
  BY <1>1, <1>2 DEF Taken

\* The same after a step.
LEMMA TakenTypeNext ==
  ASSUME IInv'
  PROVE  /\ Taken' \subseteq Messages \X Kinds
         /\ \A d \in Taken' : mail'[d[1]].delivery[d[2]] = "seen"
         /\ \A d, e \in Taken' : d[2] = e[2]
<1>1. ASSUME NEW r \in Live(runs'), NEW d \in runs'[r].batch \X {KindOf[runs'[r].settings]}
      PROVE  d \in Messages \X Kinds /\ mail'[d[1]].delivery[d[2]] = "seen" /\ d[2] = KindOf[runs'[r].settings]
  <2>1. d[1] \in runs'[r].batch /\ d[2] = KindOf[runs'[r].settings] /\ d = <<d[1], d[2]>>
    OBVIOUS
  <2>2. d[1] \in Messages /\ d[2] \in Kinds
    BY <2>1, KindOfType DEF IInv, TypeOK, Runs, RunStates, RunsWellFormed, Live
  <2> QED
    BY <2>1, <2>2 DEF IInv, TakenMessagesAreSeen
<1>2. \A r1, r2 \in Live(runs') : r1 = r2
  BY DEF IInv, OneTurnAtATime
<1> QED
  BY <1>1, <1>2 DEF Taken

(***************************************************************************)
(* A step that only moves deliveries forward, and whose turn, if it begins *)
(* one, takes unseen messages, is a step of the queue.                     *)
(***************************************************************************)
LEMMA ForwardStep ==
  ASSUME IInv, IInv', Forward, TakesUnseen
  PROVE  Queue!Step
<1> DEFINE now(d)  == mail[d[1]].delivery[d[2]]
           next(d) == mail'[d[1]].delivery[d[2]]
<1>1. /\ Delivery = [d \in Messages \X Kinds |-> DeliveryStatus(now(d), d \in Taken)]
      /\ Delivery' = [d \in Messages \X Kinds |-> DeliveryStatus(next(d), d \in Taken')]
  BY DEF Delivery
<1>2. ASSUME NEW d \in Messages \X Kinds
      PROVE  /\ now(d) \in {"none", "pending", "seen"} /\ next(d) \in {"none", "pending", "seen"}
             /\ now(d) = "pending" => next(d) \in {"pending", "seen"}
             /\ now(d) = "seen" => next(d) = "seen"
  BY DEF IInv, TypeOK, Mails, Deliveries, Forward, Ahead
<1>3. ASSUME NEW d \in Messages \X Kinds
      PROVE  /\ now(d) = "none" => Delivery[d] = "new"
             /\ now(d) = "pending" => Delivery[d] = "waiting"
             /\ now(d) = "seen" => Delivery[d] = IF d \in Taken THEN "running" ELSE "done"
             /\ next(d) = "none" => Delivery'[d] = "new"
             /\ next(d) = "pending" => Delivery'[d] = "waiting"
             /\ next(d) = "seen" => Delivery'[d] = IF d \in Taken' THEN "running" ELSE "done"
  <2>1. Delivery[d] = DeliveryStatus(now(d), d \in Taken) /\ Delivery'[d] = DeliveryStatus(next(d), d \in Taken')
    BY <1>1
  <2> HIDE DEF now, next
  <2> QED
    BY <2>1 DEF DeliveryStatus
<1>4. /\ Taken \subseteq Messages \X Kinds /\ \A d \in Taken : now(d) = "seen"
      /\ Taken' \subseteq Messages \X Kinds /\ \A d \in Taken' : next(d) = "seen"
      /\ \A d, e \in Taken' : d[2] = e[2]
  BY TakenType, TakenTypeNext
<1>5. ASSUME NEW d \in Messages \X Kinds
      PROVE  /\ Delivery[d] = "running" <=> d \in Taken
             /\ Delivery'[d] = "running" <=> d \in Taken'
  BY <1>2, <1>3, <1>4
<1>6. \A d \in Messages \X Kinds : now(d) = "seen" /\ d \notin Taken => d \notin Taken'
  BY DEF TakesUnseen
<1> HIDE DEF now, next
<1>7. ASSUME NEW d \in Messages \X Kinds
      PROVE  Delivery'[d] \in Queue!Later[Delivery[d]]
  <2>1. CASE now(d) = "none"
    BY <2>1, <1>2, <1>3 DEF Queue!Later
  <2>2. CASE now(d) = "pending"
    BY <2>2, <1>2, <1>3 DEF Queue!Later
  <2>3. CASE now(d) = "seen"
    BY <2>3, <1>2, <1>3, <1>6 DEF Queue!Later
  <2> QED
    BY <1>2, <2>1, <2>2, <2>3
<1>8. Delivery' \in [Messages \X Kinds -> {"new", "waiting", "running", "done"}]
  <2>1. Delivery' = [d \in Messages \X Kinds |-> Delivery'[d]]
    BY <1>1
  <2>2. \A d \in Messages \X Kinds : Delivery'[d] \in {"new", "waiting", "running", "done"}
    BY <1>2, <1>3
  <2> HIDE DEF Delivery
  <2> QED
    BY <2>1, <2>2
<1>9. ASSUME NEW d \in Messages \X Kinds, NEW e \in Messages \X Kinds,
             Delivery[d] # "running", Delivery'[d] = "running", Delivery[e] = "running"
      PROVE  Delivery'[e] = "done"
  <2>1. d \in Taken' /\ d \notin Taken /\ e \in Taken
    BY <1>5, <1>9
  <2>2. e \notin Taken'
    BY <1>4, <2>1 DEF TakesUnseen, now
  <2> QED
    BY <1>2, <1>3, <1>4, <2>1, <2>2
<1>10. ASSUME NEW d \in Messages \X Kinds, NEW e \in Messages \X Kinds,
              Delivery'[d] = "running", Delivery'[e] = "running"
       PROVE  d[2] = e[2]
  BY <1>4, <1>5, <1>10
<1> QED
  <2> HIDE DEF Delivery
  <2> QED
    BY <1>7, <1>8, <1>9, <1>10 DEF Queue!Step, Queue!Deliveries
-----------------------------------------------------------------------------
\* Appending and marking move deliveries forward.
LEMMA AppendAhead ==
  ASSUME NEW b \in Mails, NEW m \in Messages, b[m] = Unsent, NEW role, NEW tags
  PROVE  Ahead(b, AppendMessage(b, m, role, tags))
  BY DEF Ahead, AppendMessage, Unsent, Mails

LEMMA MarkAhead ==
  ASSUME NEW b \in Mails, NEW S, NEW k \in Kinds
  PROVE  Ahead(b, MarkMessagesSeen(b, S, k))
  BY DEF Ahead, MarkMessagesSeen, Mails, Deliveries

LEMMA AheadSame == ASSUME NEW b PROVE Ahead(b, b)
  BY DEF Ahead

LEMMA AheadTransitive ==
  ASSUME NEW b, NEW c, NEW d, Ahead(b, c), Ahead(c, d)
  PROVE  Ahead(b, d)
  BY DEF Ahead

\* A step that leaves the coroutines alone, or lets one go on, takes nothing.
LEMMA SameRunsTake == ASSUME UNCHANGED runs PROVE TakesUnseen
  BY DEF TakesUnseen, Taken, Live

LEMMA ContinuedRunTakes ==
  ASSUME runs \in Runs, NEW r \in Live(runs), NEW phase \in {"starting", "turn", "backoff"}, NEW attempt \in 0 .. MaxAttempts,
         runs' = [runs EXCEPT ![r].phase = phase, ![r].attempt = attempt]
  PROVE  TakesUnseen
<1>1. r \in Slots
  BY DEF Live
<1>2. /\ \A x \in Slots : runs'[x].settings = runs[x].settings /\ runs'[x].batch = runs[x].batch
      /\ \A x \in Slots \ {r} : runs'[x] = runs[x]
      /\ runs'[r].phase = phase
  BY <1>1, RunChange
<1>3. Live(runs') \subseteq Live(runs)
  BY <1>2 DEF Live
<1>4. \A x \in Live(runs') : runs'[x].settings = runs[x].settings /\ runs'[x].batch = runs[x].batch
  BY <1>2 DEF Live
<1>5. ASSUME NEW d \in Taken' PROVE d \in Taken
  <2>1. PICK x \in Live(runs') : d \in runs'[x].batch \X {KindOf[runs'[x].settings]}
    BY DEF Taken
  <2>2. x \in Live(runs) /\ d \in runs[x].batch \X {KindOf[runs[x].settings]}
    BY <1>3, <1>4, <2>1
  <2> QED
    BY <2>2 DEF Taken
<1> QED
  BY <1>5 DEF TakesUnseen

(***************************************************************************)
(* A drain, found with no turn in progress, takes what waited in b.        *)
(***************************************************************************)
LEMMA DrainTakes ==
  ASSUME settings \in Settings, NEW b \in Mails, Ahead(mail, b), NEW rs \in Runs, Live(rs) = {},
         NEW rt, ProcessQueue(FALSE, b, rs, rt)
  PROVE  Forward /\ TakesUnseen
<1>1. CASE NothingToRun(b, rs, rt)
  <2>1. mail' = b /\ Live(runs') = {}
    BY <1>1 DEF NothingToRun
  <2> QED
    BY <2>1 DEF Forward, TakesUnseen, Taken
<1>2. CASE \E r \in Slots : BeginTurn(b, rs, r)
  <2> DEFINE k     == KindOf[settings]
             batch == QueuedUserMessages(b, k)
             seen  == batch \cup QueuedInstructions(b, k)
             rec   == [phase |-> "starting", attempt |-> 1, settings |-> settings, batch |-> batch]
  <2> PICK r \in Slots : BeginTurn(b, rs, r)
    BY <1>2
  <2>1. k \in Kinds /\ batch \subseteq Messages /\ \A m \in batch : b[m].delivery[k] = "pending"
    BY KindOfType DEF QueuedUserMessages, Pending
  <2>2. Forward
    <3>1. mail' = MarkMessagesSeen(b, seen, k)
      BY DEF BeginTurn
    <3> QED
      BY <2>1, <3>1, MarkAhead, AheadTransitive DEF Forward
  <2>3. runs' = [rs EXCEPT ![r] = rec]
    BY DEF BeginTurn
  <2>4. Live(runs') = {r} /\ runs'[r].batch = batch /\ runs'[r].settings = settings
    BY <2>3 DEF Live, Runs
  <2>5. Taken' = batch \X {k}
    BY <2>4 DEF Taken
  <2>6. ASSUME NEW d \in Taken'
        PROVE  mail[d[1]].delivery[d[2]] # "seen"
    <3>1. d[1] \in batch /\ d[2] = k
      BY <2>5
    <3> QED
      BY <2>1, <3>1 DEF Ahead
  <2> QED
    BY <2>2, <2>6 DEF TakesUnseen
<1> QED
  BY <1>1, <1>2 DEF ProcessQueue

LEMMA EndTurnTakes ==
  ASSUME IInv, NEW r \in Slots, runs[r].phase # "none", NEW b \in Mails, Ahead(mail, b), NEW rt, EndTurn(r, b, rt)
  PROVE  Forward /\ TakesUnseen
<1>1. [runs EXCEPT ![r] = NoRun] \in Runs
  BY DEF IInv, TypeOK, Runs, RunStates, NoRun, MaxAttempts
<1>2. Live([runs EXCEPT ![r] = NoRun]) = {}
  BY DEF IInv, TypeOK, Runs, NoRun, Live, OneTurnAtATime
<1> QED
  BY <1>1, <1>2, DrainTakes DEF EndTurn, IInv, TypeOK
-----------------------------------------------------------------------------
\* The steps of the clients.
LEMMA ClientTakes ==
  ASSUME IInv, ClientStep
  PROVE  Forward /\ TakesUnseen
<1> USE DEF IInv, TypeOK
<1>1. ASSUME NEW m \in Messages, NEW role \in PostedRoles, NEW tags \in Tags, PostMessage(m, role, tags)
      PROVE  Forward /\ TakesUnseen
  <2> DEFINE b == AppendMessage(mail, m, role, tags)
  <2>1. b \in Mails /\ Ahead(mail, b)
    BY <1>1, AppendType, AppendAhead, RolesAssumption DEF Roles, PostMessage
  <2>2. CASE active
    <3>1. mail' = b /\ UNCHANGED runs
      BY <1>1, <2>2 DEF PostMessage, ProcessQueue
    <3> QED
      BY <2>1, <3>1, SameRunsTake DEF Forward
  <2>3. CASE ~active
    <3>1. ProcessQueue(FALSE, b, runs, [runtime EXCEPT !.status = "queued"])
      BY <1>1, <2>3 DEF PostMessage
    <3>2. Live(runs) = {}
      BY <2>3 DEF OneTurnAtATime
    <3> QED
      BY <2>1, <3>1, <3>2, DrainTakes
  <2> QED
    BY <2>2, <2>3
<1>2. ASSUME NEW m \in Messages, NEW S, NEW role \in Roles, mail[m] = Unsent, UNCHANGED runs,
             mail' = AppendMessage(MarkMessagesSeen(mail, S, KindOf[settings]), m, role, {})
      PROVE  Forward /\ TakesUnseen
  <2> DEFINE b == MarkMessagesSeen(mail, S, KindOf[settings])
  <2>1. b \in Mails /\ Ahead(mail, b)
    BY KindOfType, MarkSeenType, MarkAhead
  <2>2. b[m] = Unsent
    BY <1>2 DEF MarkMessagesSeen, Unsent
  <2>3. Ahead(b, mail')
    BY <1>2, <2>1, <2>2, AppendAhead
  <2> QED
    BY <1>2, <2>1, <2>3, AheadTransitive, SameRunsTake DEF Forward
<1>3. ASSUME NEW m \in Messages, PatchInstruction(m)
      PROVE  Forward /\ TakesUnseen
  BY <1>2, <1>3 DEF PatchInstruction, Roles
<1>4. ASSUME NEW m \in Messages, NEW p, ChangeProcess(m, p)
      PROVE  Forward /\ TakesUnseen
  BY <1>2, <1>4 DEF ChangeProcess, Roles
<1> QED
  BY <1>1, <1>3, <1>4 DEF ClientStep

\* The steps of a provider turn.
LEMMA TurnTakes ==
  ASSUME IInv, NEW r \in Slots, TurnStarted(r) \/ TurnEnds(r) \/ Retry(r)
  PROVE  Forward /\ TakesUnseen
<1> USE DEF IInv, TypeOK
<1>1. ASSUME r \in Live(runs), UNCHANGED mail,
             NEW phase \in {"starting", "turn", "backoff"}, NEW attempt \in 0 .. MaxAttempts,
             runs' = [runs EXCEPT ![r].phase = phase, ![r].attempt = attempt]
      PROVE  Forward /\ TakesUnseen
  BY <1>1, ContinuedRunTakes, AheadSame DEF Forward
<1>2. runs[r].attempt \in 0 .. MaxAttempts
  BY DEF Runs, RunStates
<1>3. CASE TurnStarted(r)
  <2>1. runs' = [runs EXCEPT ![r].phase = "turn", ![r].attempt = runs[r].attempt]
    BY <1>3 DEF TurnStarted, Runs
  <2> QED
    BY <1>1, <1>2, <1>3, <2>1 DEF TurnStarted, Live
<1>4. CASE Retry(r)
  <2>1. runs[r].attempt < MaxAttempts
    BY <1>4 DEF Retry, RunsWellFormed, Live
  <2>2. runs[r].attempt + 1 \in 0 .. MaxAttempts
    BY <1>2, <2>1 DEF MaxAttempts
  <2>3. runs' = [runs EXCEPT ![r].phase = "starting", ![r].attempt = runs[r].attempt + 1]
    BY <1>4 DEF Retry, Runs
  <2> QED
    BY <1>1, <1>4, <2>2, <2>3 DEF Retry, Live
<1>5. CASE TurnSucceeded(r)
  <2>1. PICK b : (b = mail \/ \E m \in Messages : mail[m] = Unsent /\ b = AppendMessage(mail, m, "step", {}))
                 /\ EndTurn(r, b, FinalRuntime("idle"))
    BY <1>5 DEF TurnSucceeded
  <2>2. b \in Mails /\ Ahead(mail, b)
    BY <2>1, AppendType, AppendAhead, AheadSame DEF Roles
  <2> QED
    BY <1>5, <2>1, <2>2, EndTurnTakes DEF TurnSucceeded
<1>6. CASE \E retryable \in BOOLEAN : TurnFailed(r, retryable)
  <2>1. CASE \E status : EndTurn(r, mail, FinalRuntime(status))
    BY <1>6, <2>1, EndTurnTakes, AheadSame DEF TurnFailed
  <2>2. CASE runs' = [runs EXCEPT ![r].phase = "backoff"] /\ UNCHANGED mail
    <3>1. runs' = [runs EXCEPT ![r].phase = "backoff", ![r].attempt = runs[r].attempt]
      BY <2>2 DEF Runs
    <3> QED
      BY <1>1, <1>2, <1>6, <2>2, <3>1 DEF TurnFailed, Live
  <2> QED
    BY <1>6, <2>1, <2>2 DEF TurnFailed
<1> QED
  BY <1>3, <1>4, <1>5, <1>6 DEF TurnEnds

LEMMA RestartTakes == ASSUME Restart PROVE Forward /\ TakesUnseen
<1>1. Live(runs') = {} /\ UNCHANGED mail
  BY DEF Restart, store, NoRun, Live
<1> QED
  BY <1>1, AheadSame DEF Forward, TakesUnseen, Taken

LEMMA StepTakes == ASSUME IInv, [Next]_vars PROVE Forward /\ TakesUnseen
<1>1. ASSUME UNCHANGED <<mail, runs>> PROVE Forward /\ TakesUnseen
  BY <1>1, SameRunsTake, AheadSame DEF Forward
<1>2. CASE \E s \in Settings : SwitchProvider(s)
  BY <1>1, <1>2 DEF SwitchProvider
<1>3. CASE \E q \in Requests : Interrupt(q) \/ \E ok \in BOOLEAN : InterruptAnswered(q, ok)
  BY <1>1, <1>3 DEF Interrupt, InterruptAnswered
<1>4. CASE UNCHANGED vars
  BY <1>1, <1>4 DEF vars
<1> QED
  BY <1>2, <1>3, <1>4, ClientTakes, TurnTakes, RestartTakes DEF Next

\* Nothing was sent and no turn runs at first.
LEMMA InitQueue == Init => Queue!Init
<1> SUFFICES ASSUME Init PROVE Queue!Init
  OBVIOUS
<1>1. Delivery = [d \in Messages \X Kinds |-> DeliveryStatus(mail[d[1]].delivery[d[2]], d \in Taken)]
  BY DEF Delivery
<1>2. ASSUME NEW d \in Messages \X Kinds
      PROVE  DeliveryStatus(mail[d[1]].delivery[d[2]], d \in Taken) = "new"
  <2>1. mail[d[1]].delivery[d[2]] = "none"
    BY DEF Init, Unsent
  <2> QED
    BY <2>1 DEF DeliveryStatus
<1> HIDE DEF Delivery
<1> QED
  BY <1>1, <1>2 DEF Queue!Init, Queue!Deliveries

(***************************************************************************)
(* Every behaviour of the engine is one of the abstract queue: deliveries  *)
(* go forward only, a turn takes those of one participant, and none until  *)
(* the turn before it has ended, across retries, stops, switches of the    *)
(* provider in the middle of a turn, and restarts.                         *)
(***************************************************************************)
THEOREM Refinement == Spec => ImplementsTurnQueue
<1>1. IInv /\ [Next]_vars => Queue!Step
  BY StepIInv, StepTakes, ForwardStep
<1> QED
  BY <1>1, InitQueue, Invariance, PTL DEF Spec, ImplementsTurnQueue, Queue!Spec
=============================================================================
