----------------------------- MODULE SessionRun -----------------------------
(***************************************************************************)
(* The turn engine of one agent-chat session (packages/agent-chat-server): *)
(* messages wait in the transcript until a provider turn takes every one   *)
(* that is queued for the active provider participant, the turn is started, *)
(* retried with back-off, stopped by an operator or finished, and its end  *)
(* drains the queue again.  Sessions share nothing the engine depends on,   *)
(* so one session is modelled.                                             *)
(*                                                                         *)
(* JavaScript runs a handler to its next await without interleaving, so    *)
(* each action is one such stretch: the synchronous call to                *)
(* processSessionQueue at the end of a handler is a part of that action.   *)
(***************************************************************************)
EXTENDS Naturals, FiniteSets

CONSTANTS
    Messages,   \* transcript messages that may ever be appended
    Settings,   \* provider settings a session can select (provider, model, profile)
    KindOf,     \* Settings -> Kinds: the provider adapter of a setting
    Tags,       \* the sets of participants that visibility tags may add
    PostedRoles, \* the roles clients post messages with
    Processes,  \* process blueprints a session can select
    Outlined,   \* those with a checklist, whose expectation has outline lines
    Slots,      \* coroutines of runProviderTurnForQueuedMessages
    Requests,   \* interrupt requests that may be in flight together
    Faults      \* which of "switch" and "restart" may happen

\* The two provider adapters; each has one agent participant on the manager.
Kinds == {"codex", "claude"}

NoSettings == "no settings"
NoProcess  == "no process"

ASSUME SettingsAssumption == NoSettings \notin Settings /\ KindOf \in [Settings -> Kinds]
ASSUME TagsAssumption == Tags \subseteq SUBSET Kinds
ASSUME ProcessesAssumption == NoProcess \notin Processes /\ Outlined \subseteq Processes
ASSUME RolesAssumption == PostedRoles \subseteq {"user", "system"}

\* retryBackoffMs has three delays: a turn is attempted at most four times.
MaxAttempts == 4

VARIABLES
    \* the canonical store, which survives a restart
    mail,         \* message -> its role and its delivery status per participant
    settings,     \* the session's provider settings
    thread,       \* the settings under which the stored provider thread was made
    process,      \* the selected process blueprint
    instructions, \* the lines of pendingSystemInstruction
    \* the memory of the server process
    active,       \* the session is in activeSessionRuns
    runtime,      \* its SessionRuntimeState
    runs,         \* slot -> the local state of a running coroutine
    interrupts,   \* request -> the provider interrupt it awaits
    \* history, read by properties only
    asked,        \* an operator asked to stop the turn that is now running
    stopped       \* the provider was told to interrupt the turn now running

store == <<mail, settings, thread, process, instructions>>
vars == <<mail, settings, thread, process, instructions, active, runtime, runs, interrupts, asked, stopped>>

\* user and system: posted; patch: a new title; step and change: ticket events.
Roles == {"user", "system", "patch", "step", "change"}
NoInterrupt == [waiting |-> FALSE, kind |-> "codex"]
NoRun == [phase |-> "none", attempt |-> 0, settings |-> NoSettings, batch |-> {}]
IdleRuntime == [status |-> "idle", turnId |-> FALSE, interruptRequested |-> FALSE, providerKind |-> "none"]
Unsent == [role |-> "unsent", delivery |-> [k \in Kinds |-> "none"]]

(***************************************************************************)
(* A queued instruction is text: one line for a new title or directory; a  *)
(* process gives a line with the process prefix and, when it has a          *)
(* checklist, outline lines that lack the prefix.                          *)
(***************************************************************************)
Line(kind, p) == [kind |-> kind, process |-> p]
SessionLine == Line("session", NoProcess)
ProcessLines(p) == {Line("header", p)} \cup (IF p \in Outlined THEN {Line("outline", p)} ELSE {})
Lines == {SessionLine} \cup UNION {ProcessLines(p) : p \in Processes}
Headers(lines) == {l \in lines : l.kind = "header"}

Live(rs) == {r \in Slots : rs[r].phase # "none"}
-----------------------------------------------------------------------------
(***************************************************************************)
(* Queries on the transcript: b is a value of mail, k a participant.       *)
(***************************************************************************)
Pending(b, k) == {m \in Messages : b[m].delivery[k] = "pending"}

\* listQueuedUserMessages: the waiting messages that start a provider turn.
QueuedUserMessages(b, k) == {m \in Pending(b, k) : b[m].role \in {"user", "step", "change"}}

\* The waiting system messages a turn also takes: only those no participant has seen.
QueuedInstructions(b, k) ==
    {m \in Pending(b, k) : b[m].role \in {"system", "patch"} /\ \A j \in Kinds : b[m].delivery[j] # "seen"}

QueuedSystemMessages(b, k) == {m \in Pending(b, k) : b[m].role # "user"}

\* Mutant: marks only the messages a human wrote.
MarkUserMessagesSeen(b, S, k) ==
    [m \in Messages |->
        IF m \in S /\ b[m].role = "user" THEN [b[m] EXCEPT !.delivery[k] = "seen"] ELSE b[m]]

MarkMessagesSeen(b, S, k) ==
    [m \in Messages |->
        IF m \in S /\ b[m].delivery[k] = "pending" THEN [b[m] EXCEPT !.delivery[k] = "seen"] ELSE b[m]]

\* A default-visibility message goes to the active participant, tags add others.
AppendMessage(b, m, role, tags) ==
    [b EXCEPT ![m] = [role |-> role,
                      delivery |-> [k \in Kinds |-> IF k = KindOf[settings] \/ k \in tags
                                                    THEN "pending" ELSE "none"]]]

QueuedPatchMessages(b, k) == {m \in Pending(b, k) : b[m].role = "patch"}

\* Mutant: any turn consumes every line.
ConsumeAllInstructions(b, batch) == {}

\* consumePendingSystemInstruction: without a human message, prefixed process lines stay.
ConsumeInstructions(b, batch) ==
    IF \E m \in batch : b[m].role = "user" THEN {} ELSE Headers(instructions)
-----------------------------------------------------------------------------
(***************************************************************************)
(* The synchronous start of runProviderTurnForQueuedMessages in slot r: b  *)
(* is the transcript and rs the coroutines it finds.                       *)
(***************************************************************************)
BeginTurn(b, rs, r) ==
    LET k     == KindOf[settings]
        batch == QueuedUserMessages(b, k)
    IN  /\ rs[r] = NoRun
        /\ active' = TRUE
        /\ runs' = [rs EXCEPT ![r] = [phase |-> "starting", attempt |-> 1,
                                      settings |-> settings, batch |-> batch]]
        /\ runtime' = [status |-> "running", turnId |-> FALSE,
                       interruptRequested |-> FALSE, providerKind |-> k]
        /\ mail' = MarkMessagesSeen(b, batch \cup QueuedInstructions(b, k), k)
        /\ instructions' = ConsumeInstructions(b, batch)
        /\ asked' = FALSE
        /\ stopped' = FALSE

NothingToRun(b, rs, rt) ==
    /\ runtime' = IF rt.status = "queued" THEN [rt EXCEPT !.status = "idle"] ELSE rt
    /\ active' = FALSE
    /\ mail' = b
    /\ runs' = rs
    /\ UNCHANGED <<instructions, asked, stopped>>

\* Mutant: starts a turn over the one in progress.
ProcessQueueUnguarded(busy, b, rs, rt) ==
    \/ QueuedUserMessages(b, KindOf[settings]) = {} /\ NothingToRun(b, rs, rt)
    \/ QueuedUserMessages(b, KindOf[settings]) # {} /\ \E r \in Slots : BeginTurn(b, rs, r)

(***************************************************************************)
(* processSessionQueue: busy says whether the session is in                *)
(* activeSessionRuns, rt is the runtime state it finds.                    *)
(***************************************************************************)
ProcessQueue(busy, b, rs, rt) ==
    \/ /\ busy
       /\ mail' = b /\ runs' = rs /\ runtime' = rt
       /\ UNCHANGED <<instructions, active, asked, stopped>>
    \/ /\ ~busy
       /\ QueuedUserMessages(b, KindOf[settings]) = {}
       /\ NothingToRun(b, rs, rt)
    \/ /\ ~busy
       /\ QueuedUserMessages(b, KindOf[settings]) # {}
       /\ \E r \in Slots : BeginTurn(b, rs, r)

(***************************************************************************)
(* POST .../messages: append, then start a turn unless one is running.     *)
(***************************************************************************)
PostMessage(m, role, tags) ==
    /\ mail[m] = Unsent
    /\ ProcessQueue(active, AppendMessage(mail, m, role, tags), runs,
                    IF active THEN runtime ELSE [runtime EXCEPT !.status = "queued"])
    /\ UNCHANGED <<settings, thread, process, interrupts>>

(***************************************************************************)
(* PATCH .../sessions/:id with a new title (or, with its own prefix, a new *)
(* working directory): the queued notice of an earlier title is dropped,   *)
(* and a system message and an instruction line wait for the next turn.    *)
(***************************************************************************)
PatchInstruction(m) ==
    /\ mail[m] = Unsent
    /\ LET k == KindOf[settings]
       IN  mail' = AppendMessage(MarkMessagesSeen(mail, QueuedPatchMessages(mail, k), k), m, "patch", {})
    /\ instructions' = instructions \cup {SessionLine}
    /\ UNCHANGED <<settings, thread, process, active, runtime, runs, interrupts, asked, stopped>>

(***************************************************************************)
(* PATCH .../sessions/:id with process blueprint p, or none: the system    *)
(* messages that wait are dropped and m, standing for the ticket events    *)
(* and the notice queued together, is appended.  The lines of p replace    *)
(* only a line with the process prefix, and none replaces nothing.  No     *)
(* turn is asked for.  Creating a session with p amounts to this step.     *)
(***************************************************************************)
ChangeProcess(m, p) ==
    /\ mail[m] = Unsent
    /\ LET k == KindOf[settings]
       IN  mail' = AppendMessage(MarkMessagesSeen(mail, QueuedSystemMessages(mail, k), k), m, "change", {})
    /\ process' = p
    /\ instructions' = IF p = NoProcess THEN instructions
                       ELSE (instructions \ Headers(instructions)) \cup ProcessLines(p)
    /\ UNCHANGED <<settings, thread, active, runtime, runs, interrupts, asked, stopped>>

(***************************************************************************)
(* PATCH .../sessions/:id with other provider settings: the provider       *)
(* thread is dropped and later messages go to the new participant.         *)
(***************************************************************************)
SwitchProvider(s) ==
    /\ "switch" \in Faults
    /\ s # settings
    /\ settings' = s
    /\ thread' = NoSettings
    /\ UNCHANGED <<mail, process, instructions, active, runtime, runs, interrupts, asked, stopped>>
-----------------------------------------------------------------------------
(***************************************************************************)
(* onRunStarted: the provider reports the turn.  If a stop was requested   *)
(* meanwhile, the provider is told to interrupt this turn at once.         *)
(***************************************************************************)
TurnStarted(r) ==
    /\ runs[r].phase = "starting"
    /\ runs' = [runs EXCEPT ![r].phase = "turn"]
    /\ runtime' = [runtime EXCEPT !.status = "running", !.turnId = TRUE]
    /\ stopped' = (stopped \/ runtime.interruptRequested)
    /\ UNCHANGED <<mail, settings, thread, process, instructions, active, interrupts, asked>>

FinalRuntime(status) == [status |-> status, turnId |-> FALSE, interruptRequested |-> FALSE, providerKind |-> "none"]

\* Mutant: a turn that failed or was stopped leaves the queue alone.
EndTurnDrainsOnSuccess(r, b, rt) ==
    /\ \/ rt.status = "idle" /\ ProcessQueue(FALSE, b, [runs EXCEPT ![r] = NoRun], rt)
       \/ rt.status # "idle" /\ NothingToRun(b, [runs EXCEPT ![r] = NoRun], rt)
    /\ UNCHANGED <<settings, process, interrupts>>

\* finally: leave activeSessionRuns and drain the queue.
EndTurn(r, b, rt) ==
    /\ ProcessQueue(FALSE, b, [runs EXCEPT ![r] = NoRun], rt)
    /\ UNCHANGED <<settings, process, interrupts>>

\* Mutant: keeps the thread of the turn whatever the settings are by now.
ThreadAlwaysKept(r) == runs[r].settings

\* shouldPersistProviderThread: not when the settings changed during the turn.
ThreadAfter(r) == IF settings = runs[r].settings THEN settings ELSE thread

(***************************************************************************)
(* The provider turn completes.  Its thread is kept only if the settings   *)
(* are still those of the turn; a ticket step it completed may append the  *)
(* event of the next step, which continues the ticket.                     *)
(***************************************************************************)
TurnSucceeded(r) ==
    /\ runs[r].phase \in {"starting", "turn"}
    /\ thread' = ThreadAfter(r)
    /\ \/ EndTurn(r, mail, FinalRuntime("idle"))
       \/ \E m \in Messages : /\ mail[m] = Unsent
                              /\ EndTurn(r, AppendMessage(mail, m, "step", {}), FinalRuntime("idle"))

\* Mutant: one attempt too many.
RetryOnceMore(r, retryable) == retryable /\ runs[r].attempt <= MaxAttempts

\* shouldRetryProviderError
ShouldRetry(r, retryable) == retryable /\ runs[r].attempt < MaxAttempts

(***************************************************************************)
(* The provider turn throws: an operator's stop ends it as interrupted, a  *)
(* retryable error backs off while attempts are left, any other ends it.   *)
(***************************************************************************)
TurnFailed(r, retryable) ==
    /\ runs[r].phase \in {"starting", "turn"}
    /\ UNCHANGED thread
    /\ \/ /\ runtime.interruptRequested
          /\ EndTurn(r, mail, FinalRuntime("interrupted"))
       \/ /\ ~runtime.interruptRequested /\ ShouldRetry(r, retryable)
          /\ runs' = [runs EXCEPT ![r].phase = "backoff"]
          /\ runtime' = [runtime EXCEPT !.status = "running"]
          /\ UNCHANGED <<mail, settings, process, instructions, active, interrupts, asked, stopped>>
       \/ /\ ~runtime.interruptRequested /\ ~ShouldRetry(r, retryable)
          /\ EndTurn(r, mail, FinalRuntime("error"))

\* Mutant: the attempts are not counted.
RetryUncounted(r) ==
    /\ runs[r].phase = "backoff"
    /\ runs' = [runs EXCEPT ![r].phase = "starting"]
    /\ runtime' = [runtime EXCEPT !.status = "running"]
    /\ UNCHANGED <<mail, settings, thread, process, instructions, active, interrupts, asked, stopped>>

\* Mutant: the messages of the failed attempt are queued again.
RetryRequeues(r) ==
    /\ runs[r].phase = "backoff"
    /\ mail' = [m \in Messages |-> IF m \in runs[r].batch
                                   THEN [mail[m] EXCEPT !.delivery[KindOf[runs[r].settings]] = "pending"]
                                   ELSE mail[m]]
    /\ runs' = [runs EXCEPT ![r].phase = "starting", ![r].attempt = @ + 1]
    /\ runtime' = [runtime EXCEPT !.status = "running"]
    /\ UNCHANGED <<settings, thread, process, instructions, active, interrupts, asked, stopped>>

\* The back-off sleep is over and the next attempt starts, whatever was asked meanwhile.
Retry(r) ==
    /\ runs[r].phase = "backoff"
    /\ runs' = [runs EXCEPT ![r].phase = "starting", ![r].attempt = @ + 1]
    /\ runtime' = [runtime EXCEPT !.status = "running"]
    /\ UNCHANGED <<mail, settings, thread, process, instructions, active, interrupts, asked, stopped>>
-----------------------------------------------------------------------------
InterruptKind == IF runtime.providerKind = "none" THEN KindOf[settings] ELSE runtime.providerKind

\* activeClaudeQueries has the session while a Claude turn is being consumed.
ClaudeQueryActive ==
    \E r \in Slots : runs[r].phase \in {"starting", "turn"} /\ KindOf[runs[r].settings] = "claude"

(***************************************************************************)
(* POST .../interrupt.  A codex turn that has not reported its id is only  *)
(* flagged; otherwise the provider is asked, and the handler awaits it.    *)
(***************************************************************************)
Interrupt(q) ==
    /\ runtime.status = "running"
    /\ ~interrupts[q].waiting
    /\ \/ /\ InterruptKind = "codex" /\ ~runtime.turnId
          /\ runtime' = [runtime EXCEPT !.interruptRequested = TRUE]
          /\ UNCHANGED interrupts
       \/ /\ InterruptKind = "codex" => runtime.turnId
          /\ InterruptKind = "claude" => ClaudeQueryActive
          /\ interrupts' = [interrupts EXCEPT ![q] = [waiting |-> TRUE, kind |-> InterruptKind]]
          /\ UNCHANGED runtime
    /\ asked' = TRUE
    /\ UNCHANGED <<mail, settings, thread, process, instructions, active, runs, stopped>>

\* Mutant: a failed interrupt puts the status back to running.
RuntimeRolledBack(q, ok) ==
    IF ok THEN [runtime EXCEPT !.status = "interrupted", !.interruptRequested = TRUE,
                               !.providerKind = interrupts[q].kind]
    ELSE [runtime EXCEPT !.status = "running"]

RuntimeAfterInterrupt(q, ok) ==
    IF ok THEN [runtime EXCEPT !.status = "interrupted", !.interruptRequested = TRUE,
                               !.providerKind = interrupts[q].kind]
    ELSE runtime

(***************************************************************************)
(* The awaited provider interrupt settles.  Whatever run the session has   *)
(* by then, success marks the session interrupted; failure changes nothing. *)
(***************************************************************************)
InterruptAnswered(q, ok) ==
    /\ interrupts[q].waiting
    /\ interrupts' = [interrupts EXCEPT ![q] = NoInterrupt]
    /\ runtime' = RuntimeAfterInterrupt(q, ok)
    /\ UNCHANGED <<mail, settings, thread, process, instructions, active, runs, asked, stopped>>

(***************************************************************************)
(* The server dies and comes back with the canonical store only; nothing   *)
(* processes the queue at start-up.                                        *)
(***************************************************************************)
Restart ==
    /\ "restart" \in Faults
    /\ active' = FALSE
    /\ runtime' = IdleRuntime
    /\ runs' = [r \in Slots |-> NoRun]
    /\ interrupts' = [q \in Requests |-> NoInterrupt]
    /\ asked' = FALSE
    /\ stopped' = FALSE
    /\ UNCHANGED store
-----------------------------------------------------------------------------
Init ==
    /\ mail = [m \in Messages |-> Unsent]
    /\ settings \in Settings
    /\ thread = NoSettings
    /\ process = NoProcess
    /\ instructions = {}
    /\ active = FALSE
    /\ runtime = IdleRuntime
    /\ runs = [r \in Slots |-> NoRun]
    /\ interrupts = [q \in Requests |-> NoInterrupt]
    /\ asked = FALSE
    /\ stopped = FALSE

ClientStep ==
    \E m \in Messages :
        \/ \E role \in PostedRoles, tags \in Tags : PostMessage(m, role, tags)
        \/ PatchInstruction(m)
        \/ \E p \in Processes \cup {NoProcess} : ChangeProcess(m, p)

TurnEnds(r) == TurnSucceeded(r) \/ \E retryable \in BOOLEAN : TurnFailed(r, retryable)

Next ==
    \/ ClientStep
    \/ \E s \in Settings : SwitchProvider(s)
    \/ \E r \in Slots : TurnStarted(r) \/ TurnEnds(r) \/ Retry(r)
    \/ \E q \in Requests : Interrupt(q) \/ \E ok \in BOOLEAN : InterruptAnswered(q, ok)
    \/ Restart

Spec == Init /\ [][Next]_vars
-----------------------------------------------------------------------------
Deliveries == [Kinds -> {"none", "pending", "seen"}]
Mails == [Messages -> [role : Roles \cup {"unsent"}, delivery : Deliveries]]
Runtimes == [status : {"idle", "queued", "running", "interrupted", "error"}, turnId : BOOLEAN,
             interruptRequested : BOOLEAN, providerKind : Kinds \cup {"none"}]
RunStates == [phase : {"none", "starting", "turn", "backoff"}, attempt : 0 .. MaxAttempts,
              settings : Settings \cup {NoSettings}, batch : SUBSET Messages]
Runs == [Slots -> RunStates]

TypeOK ==
    /\ mail \in Mails
    /\ settings \in Settings
    /\ thread \in Settings \cup {NoSettings}
    /\ process \in Processes \cup {NoProcess}
    /\ instructions \subseteq Lines
    /\ active \in BOOLEAN
    /\ runtime \in Runtimes
    /\ runs \in Runs
    /\ interrupts \in [Requests -> [waiting : BOOLEAN, kind : Kinds]]
    /\ asked \in BOOLEAN
    /\ stopped \in BOOLEAN

(***************************************************************************)
(* A session never has two provider turns, and activeSessionRuns holds it  *)
(* exactly while it has one: a post, the end of a turn and a restart       *)
(* compete to start the next.                                              *)
(***************************************************************************)
OneTurnAtATime ==
    /\ \A r1, r2 \in Live(runs) : r1 = r2
    /\ active <=> Live(runs) # {}

(***************************************************************************)
(* The status an operator sees tracks the turn: "running" is shown only    *)
(* over a live turn, a live turn shows as running or as interrupted, and    *)
(* "queued" never outlasts the handler that set it.                        *)
(***************************************************************************)
StatusTracksTurn ==
    /\ runtime.status = "running" => active
    /\ active => runtime.status \in {"running", "interrupted"}
    /\ runtime.status # "queued"

(***************************************************************************)
(* The stored provider thread was always made under the session's present  *)
(* settings: a turn that outlives a switch must not store its thread.      *)
(***************************************************************************)
ThreadMatchesSettings == thread \in {settings, NoSettings}

(***************************************************************************)
(* What a turn took is seen by its participant for good, so neither a      *)
(* retry, nor the drain after it, nor a restart can deliver it twice.      *)
(***************************************************************************)
TakenMessagesAreSeen ==
    \A r \in Live(runs) : \A m \in runs[r].batch : mail[m].delivery[KindOf[runs[r].settings]] = "seen"

\* The human messages that wait for the active provider with no turn to take them.
Stranded ==
    {m \in QueuedUserMessages(mail, KindOf[settings]) : mail[m].role = "user" /\ ~active}

(***************************************************************************)
(* Only a restart or a change of provider leaves a human message waiting   *)
(* with no turn in progress: neither the end of a turn, in error or        *)
(* interrupted, nor a message posted while one ends loses the wake-up.     *)
(***************************************************************************)
OnlyRestartOrSwitchStrands ==
    [][(\E m \in Stranded' : m \notin Stranded) => (Restart \/ \E s \in Settings : SwitchProvider(s))]_vars

\* A turn takes a human message in this step.
HumanTurnBegins ==
    \E r \in Live(runs') : runs'[r] # runs[r] /\ \E m \in runs'[r].batch : mail'[m].role = "user"

(***************************************************************************)
(* The prefixed line of a process is replaced by another process or        *)
(* consumed by a turn with a human message: never by the turns that ticket *)
(* events start meanwhile, whatever else they consume.                     *)
(***************************************************************************)
ProcessInstructionWaitsForHuman ==
    [][Headers(instructions) # {} /\ Headers(instructions') = {} => HumanTurnBegins]_vars

(***************************************************************************)
(* The engine implements the queue of TurnQueue: deliveries go forward     *)
(* only and turns do not overlap, across retries, stops, switches of the   *)
(* provider in the middle of a turn, and restarts.                         *)
(***************************************************************************)
Taken == UNION {runs[r].batch \X {KindOf[runs[r].settings]} : r \in Live(runs)}

DeliveryStatus(status, taken) ==
    CASE status = "none"    -> "new"
      [] status = "pending" -> "waiting"
      [] status = "seen"    -> IF taken THEN "running" ELSE "done"

Delivery ==
    LET taken == Taken
    IN  [d \in Messages \X Kinds |-> DeliveryStatus(mail[d[1]].delivery[d[2]], d \in taken)]

Queue == INSTANCE TurnQueue WITH delivery <- Delivery

ImplementsTurnQueue == Queue!Spec
-----------------------------------------------------------------------------
(***************************************************************************)
(* What the blueprint says and the code does not keep: a stop interrupts   *)
(* the turn the operator stopped, not the one that catches up after it.    *)
(***************************************************************************)
StopHitsOnlyItsTurn == stopped => asked
=============================================================================
