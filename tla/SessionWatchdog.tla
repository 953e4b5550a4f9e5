--------------------------- MODULE SessionWatchdog ---------------------------
(***************************************************************************)
(* The watchdog of one agent-chat session with a process (index.ts of      *)
(* agent-chat-server): a timer, armed by whatever changes the runtime      *)
(* state, prompts the agent to continue an idle session or a stalled turn, *)
(* waits while the operator types, blocks a step after three attempts, and *)
(* is armed anew when the server starts.                                   *)
(*                                                                         *)
(* Time passes in ticks.  A timer fires on the tick at which it is due;    *)
(* ages stop counting at the idle time-out.  Every process has a checklist *)
(* and an enabled watchdog, and is known by its limit of nudges.           *)
(***************************************************************************)
EXTENDS Integers

CONSTANTS
    IdleTimeout,   \* ticks of watchdog.idleTimeoutSeconds
    TypingGrace,   \* ticks of typingGraceMs
    Limits,        \* maxNudgesPerIdleEpisode of the processes; 0 is no limit
    NudgeBound     \* nudges are counted up to here

ASSUME TimesAssumption == IdleTimeout \in Nat \ {0} /\ TypingGrace \in Nat \ {0}
ASSUME LimitsAssumption == Limits \subseteq 0..NudgeBound /\ NudgeBound \in Nat \ {0}

None == -1
MaxAttempts == 3

VARIABLES
    process,   \* the selected process, or None
    header,    \* its expectation waits in pendingSystemInstruction
    human,     \* messages of the operator wait for a turn
    prompts,   \* ticket events or watchdog prompts wait for a turn
    ticket,    \* the bound ticket: its status, whether it has a current step, whether its
               \* process config waits for a confirmation, and its sameStepAttemptCount
    watchdog,  \* session.watchdogState; ago is the age of lastNudgedAtMs
    runtime,   \* the SessionRuntimeState; silence is the age of lastVisibleActivityAtMs
    running,   \* the session is in activeSessionRuns
    stopping,  \* the provider was asked to interrupt and has not answered
    age,       \* the age of session.updatedAtMs
    timer,     \* what is left of the session's timer, or None
    \* history, read by properties only
    grace,     \* the timer was armed to wait for the end of typing
    lapsed,    \* the watch of a running turn was dropped and not taken up again
    early,     \* a step was prompted or selected under a timer armed before
    forgotten  \* a session was given something to watch by a handler that arms no timer

session == <<process, header, ticket, watchdog>>
queue == <<human, prompts>>
history == <<grace, lapsed, early, forgotten>>
vars == <<session, queue, runtime, running, stopping, age, timer, history>>

NoTicket == [status |-> "none", step |-> FALSE, pending |-> FALSE, attempts |-> 0]
\* A process whose config has to be confirmed gives no step before it is.
FreshTicket(pending) == [status |-> "active", step |-> ~pending, pending |-> pending, attempts |-> 0]
ActiveStep(t) == t.status = "active" /\ t.step
FreshWatchdog == [status |-> "unresolved", nudges |-> 0, ago |-> 0]
Prompted(w) == [w EXCEPT !.status = "nudged", !.ago = 0]
Runtime(status, typing, idle) == [status |-> status, silence |-> 0, typing |-> typing, providerIdle |-> idle]

Init ==
    /\ process = None /\ header = FALSE
    /\ human = FALSE /\ prompts = FALSE
    /\ ticket = NoTicket /\ watchdog = FreshWatchdog
    /\ runtime = Runtime("idle", 0, FALSE)
    /\ running = FALSE /\ stopping = FALSE
    /\ age = 0 /\ timer = None
    /\ grace = FALSE /\ lapsed = FALSE /\ early = FALSE /\ forgotten = FALSE
-----------------------------------------------------------------------------
(***************************************************************************)
(* maybeScheduleSessionWatchdog, in the state a handler leaves.            *)
(***************************************************************************)
LimitReached(p, w) == p > 0 /\ w.nudges >= p
AwaitsHuman(h, q) == h /\ ~q
Unresolved(p, h, q, w) ==
    p # None /\ w.status # "completed" /\ ~LimitReached(p, w) /\ ~AwaitsHuman(h, q)

\* Mutant: the time of the last nudge is not considered.
IdleDelayAtOnce(r, t, w, a) ==
    IF ActiveStep(t) \/ (r.providerIdle /\ w.nudges = 0) THEN 0 ELSE IdleTimeout - a

IdleDelay(r, t, w, a) ==
    IF ActiveStep(t) THEN IF w.status = "nudged" THEN IdleTimeout - w.ago ELSE 0
    ELSE IF r.providerIdle /\ w.nudges = 0 THEN 0
    ELSE IdleTimeout - a

Delay(r, t, w, a) ==
    CASE r.typing > 0 -> r.typing
      [] r.typing = 0 /\ r.status = "idle" -> IdleDelay(r, t, w, a)
      [] r.typing = 0 /\ r.status = "running" -> IdleTimeout - r.silence
      [] OTHER -> None

SetTimer(d) ==
    /\ timer' = d
    /\ grace' = (d # None /\ runtime'.typing > 0)
    /\ lapsed' = (d = None /\ lapsed)
    /\ early' = FALSE /\ forgotten' = FALSE

Schedule ==
    SetTimer(IF Unresolved(process', header', human', watchdog')
             THEN Delay(runtime', ticket', watchdog', age') ELSE None)

\* Mutant: only an idle session is watched.
WatchIdle == IF runtime'.status = "idle" THEN Schedule ELSE SetTimer(None)

\* setRuntimeState: every change of the runtime arms the timer anew or cancels it.
RuntimeChanged == IF runtime'.status \in {"idle", "running"} THEN Schedule ELSE SetTimer(None)

Watchable == Unresolved(process, header, human, watchdog) /\ ticket.status # "blocked"

\* A handler of the session or its ticket that leaves the timer as it was.
KeepTimer ==
    /\ UNCHANGED <<timer, grace, lapsed>>
    /\ early' = (early \/ (timer # None /\ ActiveStep(ticket')
                            /\ (~ActiveStep(ticket) \/ watchdog' # watchdog)))
    /\ forgotten' = (forgotten \/ (timer = None /\ ~Watchable /\ Watchable'))
-----------------------------------------------------------------------------
(***************************************************************************)
(* Turns.  What waits starts one, unless one runs (processSessionQueue).   *)
(***************************************************************************)
\* A turn takes everything that waits; an expectation only together with a human message.
StartTurn(h, q) ==
    /\ running' = TRUE
    /\ runtime' = Runtime("running", runtime.typing, FALSE)
    /\ human' = FALSE /\ prompts' = FALSE
    /\ header' = (h /\ ~q)

\* A turn is over in runtime r, with the prompts q waiting.
Drain(r, q) ==
    \/ /\ human \/ q
       /\ StartTurn(header, human)
    \/ /\ ~human /\ ~q
       /\ running' = FALSE
       /\ runtime' = r
       /\ UNCHANGED <<header, human>> /\ prompts' = q

\* A message of the operator, of another participant, or one the provider need not see.
Post(from) ==
    /\ watchdog' = FreshWatchdog
    /\ ticket' = [ticket EXCEPT !.status = IF @ = "blocked" /\ ticket.step THEN "active" ELSE @, !.attempts = 0]
    /\ age' = 0
    /\ UNCHANGED <<process, stopping>>
    /\ IF running
       THEN /\ human' = (human \/ from = "operator")
            /\ prompts' = (prompts \/ from = "participant")
            /\ lapsed' = (timer = None)
            /\ UNCHANGED <<header, runtime, running, timer, grace, early, forgotten>>
       ELSE /\ IF from # "seen" \/ human \/ prompts
               THEN StartTurn(header, human \/ from = "operator")
               ELSE /\ runtime' = Runtime("idle", runtime.typing, FALSE)
                    /\ UNCHANGED <<header, queue, running>>
            /\ RuntimeChanged

\* A callback of the adapter with visible activity; the start of a run also shows the turn as running.
Activity ==
    /\ running
    /\ \E status \in {"running", runtime.status} : runtime' = Runtime(status, runtime.typing, FALSE)
    /\ age' = 0
    /\ UNCHANGED <<session, queue, running, stopping>>
    /\ RuntimeChanged

\* A callback that shows nothing new: token usage, an unchanged count or flag.
Report ==
    /\ running
    /\ UNCHANGED <<session, queue, runtime, running, stopping, age>>
    /\ RuntimeChanged

\* A reply moves a confirmed ticket by its step, and any other by the tokens of the process.
Heard(signal) ==
    \/ signal = "none"
    \/ ActiveStep(ticket) /\ ~ticket.pending
    \/ signal # "step" /\ process # None /\ ticket.status # "active"

\* The turn succeeds; its reply carries no signal, or one that changes the ticket.
TurnSucceeds(signal) ==
    /\ running
    /\ Heard(signal)
    /\ ticket' = CASE signal = "step" -> FreshTicket(FALSE)
                   [] signal \in {"completed", "blocked"} /\ ticket.status # "none" ->
                        [ticket EXCEPT !.status = signal, !.step = @ /\ signal = "blocked", !.attempts = 0]
                   [] OTHER -> ticket
    /\ watchdog' = CASE signal = "step" -> Prompted(watchdog)
                     [] signal \in {"completed", "blocked"} -> [watchdog EXCEPT !.status = signal]
                     [] signal = "none" -> watchdog
    /\ age' = 0
    /\ Drain(Runtime("idle", runtime.typing, TRUE), prompts \/ signal = "step")
    /\ UNCHANGED <<process, stopping>>
    /\ RuntimeChanged

\* The turn fails for good, or ends because it was asked to.
TurnFails ==
    /\ running
    /\ age' = 0
    /\ \E status \in {"interrupted", "error"} : Drain(Runtime(status, runtime.typing, FALSE), prompts)
    /\ UNCHANGED <<process, ticket, watchdog, stopping>>
    /\ RuntimeChanged

\* The provider is asked to interrupt, or will be when it reports the turn.
Stop ==
    /\ running /\ runtime.status = "running"
    /\ UNCHANGED <<session, queue, running, age>>
    /\ \/ stopping' = TRUE /\ UNCHANGED <<runtime, timer, history>>
       \/ runtime' = Runtime("running", runtime.typing, FALSE) /\ RuntimeChanged /\ UNCHANGED stopping

\* The answer may come after its turn has ended, or never.
StopAnswered ==
    /\ stopping
    /\ stopping' = FALSE
    /\ UNCHANGED <<session, queue, running, age>>
    /\ \/ runtime' = Runtime("interrupted", runtime.typing, FALSE) /\ RuntimeChanged
       \/ UNCHANGED <<runtime, timer, history>>
-----------------------------------------------------------------------------
(***************************************************************************)
(* The operator.                                                           *)
(***************************************************************************)
SetUserTyping(t) ==
    /\ t # runtime.typing
    /\ runtime' = [runtime EXCEPT !.typing = t]
    /\ UNCHANGED <<session, queue, running, stopping, age>>
    /\ RuntimeChanged

\* PATCH of the process: another one, or the same again; a ticket is created for it.
SelectProcess(p) ==
    /\ process' = p
    /\ header' = TRUE /\ prompts' = TRUE
    /\ \E pending \in BOOLEAN : ticket' = FreshTicket(pending)
    /\ watchdog' = Prompted(FreshWatchdog)
    /\ age' = 0
    /\ UNCHANGED <<human, runtime, running, stopping>>
    /\ Schedule

\* The pending instruction stays; only the event of the change waits.
ClearProcess ==
    /\ process # None
    /\ process' = None
    /\ prompts' = TRUE
    /\ ticket' = NoTicket
    /\ watchdog' = FreshWatchdog
    /\ age' = 0
    /\ UNCHANGED <<header, human, runtime, running, stopping>>
    /\ Schedule

\* PATCH of anything else, or of the process to the one selected, which arms the timer anew.
EditSession ==
    /\ age' \in {0, age}
    /\ UNCHANGED <<session, queue, runtime, running, stopping>>
    /\ Schedule \/ KeepTimer

\* A saved or blocked ticket, or one of another session, becomes the active one, its attempts counted anew.
ActivateTicket ==
    /\ \E step, pending \in BOOLEAN :
         /\ step \/ pending
         /\ ticket' = [status |-> "active", step |-> step, pending |-> pending, attempts |-> 0]
    /\ watchdog' = FreshWatchdog
    /\ age' = 0
    /\ UNCHANGED <<process, header, queue, runtime, running, stopping>>
    /\ Schedule

Unfinished == ticket.status \in {"active", "blocked"}

\* A step of the ticket is selected, or its last one checked: the ticket alone changes.
SelectStep ==
    /\ Unfinished
    /\ \E last \in BOOLEAN :
         ticket' = [ticket EXCEPT !.status = IF last THEN "completed" ELSE "active", !.step = ~last, !.attempts = 0]
    /\ UNCHANGED <<process, header, watchdog, queue, runtime, running, stopping, age>>
    /\ KeepTimer

\* The ticket is given to another session: only that one is armed.
ReassignAway ==
    /\ Unfinished
    /\ ticket' = NoTicket
    /\ UNCHANGED <<process, header, watchdog, queue, runtime, running, stopping, age>>
    /\ KeepTimer

\* The checklist starts over, or waits for a confirmation.
Configured(pending) == [ticket EXCEPT !.step = ~pending, !.pending = pending, !.attempts = 0]

\* PATCH of a process config, by a reading from before its body was awaited.  It overrides this ticket
\* or another one of the session; or it confirms this one; or it confirms this one for another and is refused.
PatchConfig ==
    /\ \E event \in BOOLEAN :
         /\ prompts' = (prompts \/ event)
         /\ age' = IF event THEN 0 ELSE age
         /\ \/ /\ event
               /\ \/ UNCHANGED ticket
                  \/ Unfinished /\ \E pending \in BOOLEAN : ticket' = Configured(pending)
               /\ UNCHANGED watchdog
            \/ /\ event
               /\ Unfinished \/ ticket.pending
               /\ ticket' = Configured(FALSE)
               /\ watchdog' = Prompted(watchdog)
            \/ /\ ticket.pending
               /\ ticket' = Configured(FALSE)
               /\ UNCHANGED watchdog
    /\ UNCHANGED <<process, header, human, runtime, running, stopping>>
    /\ KeepTimer
-----------------------------------------------------------------------------
(***************************************************************************)
(* maybeTriggerSessionWatchdog: the timer fires.                           *)
(***************************************************************************)
Fires == timer = 0
Stalled == runtime.status = "running" /\ runtime.silence >= IdleTimeout
MayNudge ==
    /\ runtime.status = "idle" \/ Stalled
    /\ Watchable
    /\ runtime.typing = 0

\* An early return, which does not arm the timer again.
TurnAway ==
    /\ Fires /\ ~MayNudge
    /\ timer' = None /\ grace' = FALSE /\ early' = FALSE
    /\ lapsed' = (runtime.status = "running")
    /\ UNCHANGED <<session, queue, runtime, running, stopping, age, forgotten>>

Attempts == ticket.attempts + 1

BlockTicket ==
    /\ Fires /\ MayNudge
    /\ ActiveStep(ticket) /\ Attempts >= MaxAttempts
    /\ ticket' = [ticket EXCEPT !.status = "blocked", !.attempts = 0]
    /\ watchdog' = [watchdog EXCEPT !.status = "blocked"]
    /\ age' = 0
    /\ timer' = None /\ grace' = FALSE /\ early' = FALSE
    /\ UNCHANGED <<process, header, queue, runtime, running, stopping, lapsed, forgotten>>

\* Mutant: an attempt is only counted when the session is idle.
CountIdleAttempt == IF runtime.status = "idle" THEN [ticket EXCEPT !.attempts = Attempts] ELSE ticket

CountAttempt == [ticket EXCEPT !.attempts = Attempts]

Nudge ==
    /\ Fires /\ MayNudge
    /\ ActiveStep(ticket) => Attempts < MaxAttempts
    /\ ticket' = IF ActiveStep(ticket) THEN CountAttempt ELSE ticket
    /\ watchdog' = [status |-> "nudged", ago |-> 0,
                    nudges |-> IF watchdog.nudges < NudgeBound THEN watchdog.nudges + 1 ELSE NudgeBound]
    /\ age' = 0
    /\ UNCHANGED <<process, stopping>>
    /\ IF running
       THEN /\ prompts' = TRUE
            /\ runtime' = [runtime EXCEPT !.silence = 0, !.providerIdle = FALSE]
            /\ UNCHANGED <<header, human, running>>
       ELSE StartTurn(header, human)
    /\ RuntimeChanged
-----------------------------------------------------------------------------
\* The process ends and starts again: the store is read, and every session armed anew.
Restart ==
    /\ running' = FALSE /\ stopping' = FALSE
    /\ runtime' = Runtime("idle", 0, FALSE)
    /\ UNCHANGED <<session, queue, age>>
    /\ Schedule

Older(n) == IF n < IdleTimeout THEN n + 1 ELSE n

Tick ==
    /\ ~Fires
    /\ timer' = IF timer = None THEN None ELSE timer - 1
    /\ runtime' = [runtime EXCEPT !.silence = IF runtime.status = "running" THEN Older(@) ELSE @,
                                  !.typing = IF @ = 0 THEN 0 ELSE @ - 1]
    /\ watchdog' = [watchdog EXCEPT !.ago = IF watchdog.status = "nudged" THEN Older(@) ELSE @]
    /\ age' = Older(age)
    /\ UNCHANGED <<process, header, queue, ticket, running, stopping, history>>

Operator ==
    \/ \E from \in {"operator", "participant", "seen"} : Post(from)
    \/ Stop
    \/ SetUserTyping(TypingGrace) \/ SetUserTyping(0)
    \/ \E p \in Limits : SelectProcess(p)
    \/ ClearProcess \/ EditSession
    \/ ActivateTicket \/ SelectStep \/ ReassignAway \/ PatchConfig
Watchdog == TurnAway \/ BlockTicket \/ Nudge

Next ==
    \/ Operator
    \/ StopAnswered
    \/ Activity
    \/ Report
    \/ \E signal \in {"none", "step", "completed", "blocked"} : TurnSucceeds(signal)
    \/ TurnFails
    \/ Watchdog
    \/ Restart
    \/ Tick

Spec == Init /\ [][Next]_vars

\* Only time passes: no turn need ever end.
FairSpec == Spec /\ WF_vars(Tick) /\ WF_vars(Watchdog)
-----------------------------------------------------------------------------
TypeOK ==
    /\ process \in Limits \cup {None}
    /\ header \in BOOLEAN /\ human \in BOOLEAN /\ prompts \in BOOLEAN
    /\ ticket \in [status : {"none", "active", "blocked", "completed"}, step : BOOLEAN, pending : BOOLEAN,
                   attempts : 0..MaxAttempts - 1]
    /\ watchdog \in [status : {"unresolved", "nudged", "completed", "blocked"},
                     nudges : 0..NudgeBound, ago : 0..IdleTimeout]
    /\ runtime \in [status : {"idle", "running", "interrupted", "error"}, silence : 0..IdleTimeout,
                    typing : 0..TypingGrace, providerIdle : BOOLEAN]
    /\ running \in BOOLEAN /\ stopping \in BOOLEAN
    /\ age \in 0..IdleTimeout
    /\ timer \in Int
    /\ grace \in BOOLEAN /\ lapsed \in BOOLEAN /\ early \in BOOLEAN /\ forgotten \in BOOLEAN

(***************************************************************************)
(* An idle session and a running turn that are watchable have a timer,     *)
(* whichever handler ran last and across restarts: no early return and no  *)
(* change of the runtime loses it.  It is not so for every handler: a      *)
(* selection of a step, a reassignment to another session and a patch of   *)
(* the config arm nothing, so what they make watchable is forgotten until  *)
(* something else arms the timer; and a running turn loses it when a timer *)
(* that waited for the end of typing finds it not yet stalled, or when a   *)
(* message is posted to a turn that was not watched (lapsed).              *)
(***************************************************************************)
NobodyIsForgotten ==
    Watchable /\ runtime.status \in {"idle", "running"}
    => timer # None \/ forgotten \/ (lapsed /\ runtime.status = "running")

(***************************************************************************)
(* An idle session whose step was prompted is not prompted again before    *)
(* the idle time-out has passed, through turns that end without progress,  *)
(* restarts and switches, unless the operator typed, as the end of typing  *)
(* nudges at once, or the step was confirmed or selected under a timer     *)
(* armed for something else, which is left running (early).                *)
(***************************************************************************)
PromptsKeepApart ==
    [][Nudge /\ ~running /\ ActiveStep(ticket) /\ watchdog.status = "nudged"
        => watchdog.ago >= IdleTimeout \/ grace \/ early]_vars

(***************************************************************************)
(* A step that makes no progress does not go on for ever: when the         *)
(* operator, the server and the provider are quiet, it is blocked or its   *)
(* nudges run out, even if the turn never ends, unless the turn failed or  *)
(* was stopped, the expectation awaits the operator, the watch lapsed, or  *)
(* the step was selected or confirmed with no timer armed (forgotten).     *)
(***************************************************************************)
Stirs == Operator \/ Activity \/ TurnSucceeds("step") \/ Restart
Quiet == <>[][~Stirs]_vars
GivenUp == \/ ~ActiveStep(ticket)
           \/ ~Unresolved(process, header, human, watchdog)
           \/ runtime.status \in {"interrupted", "error"}
           \/ lapsed \/ forgotten
StuckStepIsBlocked == Quiet => <>[]GivenUp
=============================================================================
