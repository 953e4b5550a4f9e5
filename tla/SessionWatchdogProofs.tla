------------------------ MODULE SessionWatchdogProofs ------------------------
(***************************************************************************)
(* Proofs about SessionWatchdog, for every time-out, typing grace, set of  *)
(* processes and bound on nudges: no session is forgotten, and prompts of  *)
(* a step keep apart.  Both rest on how the timer is related to what it    *)
(* was armed for while time passes.                                        *)
(***************************************************************************)
EXTENDS SessionWatchdog, TLAPS

Typed ==
    /\ TypeOK
    /\ timer \in Nat \cup {None}

\* A turn and the state shown for it.
RunIsShown ==
    /\ running => runtime.status \in {"running", "interrupted"}
    /\ runtime.status = "running" => running

\* A timer does not fire before the operator has stopped typing ...
WaitsForTyping == timer # None => timer >= runtime.typing

\* ... nor, at an idle session, before the time-out since its step was prompted, unless it was armed before.
WaitsForTimeout ==
    /\ timer # None /\ ~grace /\ ~early
    /\ runtime.status = "idle" /\ ActiveStep(ticket) /\ watchdog.status = "nudged"
    => timer >= IdleTimeout - watchdog.ago

Watched == WaitsForTyping /\ WaitsForTimeout /\ NobodyIsForgotten

IInv == Typed /\ RunIsShown /\ Watched

USE TimesAssumption, LimitsAssumption DEF None, MaxAttempts
-----------------------------------------------------------------------------
(***************************************************************************)
(* Arming the timer.                                                       *)
(***************************************************************************)
Runtimes == [status : {"idle", "running", "interrupted", "error"}, silence : 0..IdleTimeout,
             typing : 0..TypingGrace, providerIdle : BOOLEAN]
Watchdogs == [status : {"unresolved", "nudged", "completed", "blocked"}, nudges : 0..NudgeBound,
              ago : 0..IdleTimeout]
TicketStates == [status : {"none", "active", "blocked", "completed"}, step : BOOLEAN, pending : BOOLEAN,
                 attempts : 0..MaxAttempts - 1]

\* The delay is counted from what happened last.
LEMMA DelayType ==
    ASSUME NEW r \in Runtimes, NEW t \in TicketStates, NEW w \in Watchdogs, NEW a \in 0..IdleTimeout
    PROVE  /\ Delay(r, t, w, a) \in Nat \cup {None}
           /\ Delay(r, t, w, a) # None => Delay(r, t, w, a) >= r.typing
           /\ r.status \in {"idle", "running"} => Delay(r, t, w, a) # None
           /\ r.typing = 0 /\ r.status = "idle" /\ ActiveStep(t) /\ w.status = "nudged" =>
                Delay(r, t, w, a) = IdleTimeout - w.ago
<1>1. r.typing \in Nat /\ r.silence \in 0..IdleTimeout /\ w.ago \in 0..IdleTimeout
  BY DEF Runtimes, Watchdogs
<1>2. IdleDelay(r, t, w, a) \in Nat
  BY <1>1 DEF IdleDelay
<1>3. CASE r.typing > 0
  BY <1>1, <1>3 DEF Delay
<1>4. CASE r.typing = 0
  BY <1>1, <1>2, <1>4 DEF Delay, IdleDelay
<1> QED
  BY <1>1, <1>3, <1>4

\* What a handler may leave when it arms the timer anew.
Armable ==
    /\ runtime' \in Runtimes /\ ticket' \in TicketStates /\ watchdog' \in Watchdogs /\ age' \in 0..IdleTimeout

LEMMA ScheduleWatches ==
    ASSUME Armable, Schedule
    PROVE  /\ timer' \in Nat \cup {None} /\ grace' \in BOOLEAN /\ (lapsed \in BOOLEAN => lapsed' \in BOOLEAN)
           /\ early' \in BOOLEAN /\ forgotten' \in BOOLEAN
           /\ Watched'
<1> DEFINE d == Delay(runtime', ticket', watchdog', age')
           u == Unresolved(process', header', human', watchdog')
<1>1. /\ timer' = IF u THEN d ELSE None
      /\ grace' = (timer' # None /\ runtime'.typing > 0)
      /\ lapsed' = (timer' = None /\ lapsed)
      /\ early' = FALSE /\ forgotten' = FALSE
  BY DEF Schedule, SetTimer
<1>2. /\ d \in Nat \cup {None}
      /\ d # None => d >= runtime'.typing
      /\ runtime'.status \in {"idle", "running"} => d # None
      /\ runtime'.typing = 0 /\ runtime'.status = "idle" /\ ActiveStep(ticket') /\ watchdog'.status = "nudged" =>
            d = IdleTimeout - watchdog'.ago
  BY DelayType DEF Armable
<1>3. runtime'.typing \in Nat
  BY DEF Armable, Runtimes
<1>4. WaitsForTyping'
  BY <1>1, <1>2 DEF WaitsForTyping
<1>5. WaitsForTimeout'
  <2> SUFFICES ASSUME timer' # None, ~grace', ~early', runtime'.status = "idle", ActiveStep(ticket'),
                      watchdog'.status = "nudged"
               PROVE  timer' >= IdleTimeout - watchdog'.ago
    BY DEF WaitsForTimeout
  <2>1. ~(timer' # None /\ runtime'.typing > 0)
    BY <1>1
  <2>2. runtime'.typing = 0 /\ timer' = d
    BY <1>1, <1>3, <2>1
  <2>3. timer' = IdleTimeout - watchdog'.ago /\ watchdog'.ago \in 0..IdleTimeout
    BY <1>2, <2>2 DEF Armable, Watchdogs
  <2> HIDE DEF d
  <2> QED
    BY <2>3
<1>6. NobodyIsForgotten'
  BY <1>1, <1>2 DEF NobodyIsForgotten, Watchable
<1> QED
  BY <1>1, <1>2, <1>4, <1>5, <1>6 DEF Watched

LEMMA ChangeWatches ==
    ASSUME Armable, RuntimeChanged
    PROVE  /\ timer' \in Nat \cup {None} /\ grace' \in BOOLEAN /\ (lapsed \in BOOLEAN => lapsed' \in BOOLEAN)
           /\ early' \in BOOLEAN /\ forgotten' \in BOOLEAN
           /\ Watched'
<1>1. CASE runtime'.status \in {"idle", "running"}
  BY <1>1, ScheduleWatches DEF RuntimeChanged
<1>2. CASE runtime'.status \notin {"idle", "running"}
  BY <1>2 DEF RuntimeChanged, SetTimer, Watched, WaitsForTyping, WaitsForTimeout, NobodyIsForgotten
<1> QED
  BY <1>1, <1>2
-----------------------------------------------------------------------------
(***************************************************************************)
(* The handlers.                                                           *)
(***************************************************************************)
\* What a handler that arms the timer has to show beside.
Sound ==
    /\ process' \in Limits \cup {None} /\ header' \in BOOLEAN /\ human' \in BOOLEAN /\ prompts' \in BOOLEAN
    /\ Armable /\ running' \in BOOLEAN /\ stopping' \in BOOLEAN
    /\ RunIsShown'

LEMMA ArmedKeeps ==
    ASSUME IInv, Sound, Schedule \/ RuntimeChanged
    PROVE  IInv'
<1>1. /\ timer' \in Nat \cup {None} /\ grace' \in BOOLEAN /\ lapsed' \in BOOLEAN
      /\ early' \in BOOLEAN /\ forgotten' \in BOOLEAN /\ Watched'
  BY ScheduleWatches, ChangeWatches DEF IInv, Typed, TypeOK, Sound
<1>2. timer' \in Int
  BY <1>1
<1> QED
  BY <1>1, <1>2 DEF IInv, Typed, TypeOK, Sound, Armable, Runtimes, Watchdogs, TicketStates

\* A handler that leaves the timer as it was says so in early or forgotten.
LEMMA KeptKeeps ==
    ASSUME IInv, Sound, KeepTimer, UNCHANGED runtime
    PROVE  IInv'
<1>1. /\ UNCHANGED <<timer, grace, lapsed>>
      /\ early \/ (timer # None /\ ActiveStep(ticket') /\ (~ActiveStep(ticket) \/ watchdog' # watchdog)) => early'
      /\ forgotten \/ (timer = None /\ ~Watchable /\ Watchable') => forgotten'
  BY DEF KeepTimer
<1>2. early' \in BOOLEAN /\ forgotten' \in BOOLEAN
  BY DEF KeepTimer
<1>3. WaitsForTyping'
  BY <1>1 DEF IInv, Watched, WaitsForTyping
<1>4. WaitsForTimeout'
  BY <1>1 DEF IInv, Watched, WaitsForTimeout
<1>5. NobodyIsForgotten'
  BY <1>1 DEF IInv, Watched, NobodyIsForgotten
<1> QED
  BY <1>1, <1>2, <1>3, <1>4, <1>5
  DEF IInv, Typed, TypeOK, Watched, Sound, Armable, Runtimes, Watchdogs, TicketStates

LEMMA RecordTypes ==
    ASSUME Typed
    PROVE  /\ runtime \in Runtimes /\ ticket \in TicketStates /\ watchdog \in Watchdogs /\ age \in 0..IdleTimeout
           /\ \A pending \in BOOLEAN : FreshTicket(pending) \in TicketStates
           /\ NoTicket \in TicketStates /\ FreshWatchdog \in Watchdogs
           /\ \A w \in Watchdogs : Prompted(w) \in Watchdogs
           /\ \A status \in {"idle", "running", "interrupted", "error"}, typing \in 0..TypingGrace, idle \in BOOLEAN :
                Runtime(status, typing, idle) \in Runtimes
<1>1. runtime \in Runtimes /\ ticket \in TicketStates /\ watchdog \in Watchdogs /\ age \in 0..IdleTimeout
  BY DEF Typed, TypeOK, Runtimes, TicketStates, Watchdogs
<1>2. NoTicket \in TicketStates /\ \A pending \in BOOLEAN : FreshTicket(pending) \in TicketStates
  BY DEF TicketStates, FreshTicket, NoTicket
<1>3. FreshWatchdog \in Watchdogs
  BY DEF Watchdogs, FreshWatchdog
<1>4. ASSUME NEW w \in Watchdogs PROVE Prompted(w) \in Watchdogs
  <2>1. 0 \in 0..IdleTimeout
    OBVIOUS
  <2>2. [w EXCEPT !.status = "nudged", !.ago = 0] \in Watchdogs
    BY <2>1 DEF Watchdogs
  <2> QED
    BY <2>2 DEF Prompted
<1>5. ASSUME NEW status \in {"idle", "running", "interrupted", "error"}, NEW typing \in 0..TypingGrace,
             NEW idle \in BOOLEAN
      PROVE  Runtime(status, typing, idle) \in Runtimes
  BY DEF Runtimes, Runtime
<1> QED
  BY <1>1, <1>2, <1>3, <1>4, <1>5

\* The changes that handlers make to a ticket.
LEMMA TicketEdits ==
    ASSUME NEW t \in TicketStates, NEW status \in {"active", "blocked", "completed", "none"},
           NEW step \in BOOLEAN, NEW pending \in BOOLEAN
    PROVE  /\ [t EXCEPT !.status = status, !.step = step, !.attempts = 0] \in TicketStates
           /\ [t EXCEPT !.step = step, !.pending = pending, !.attempts = 0] \in TicketStates
           /\ [t EXCEPT !.status = status, !.attempts = 0] \in TicketStates
<1>1. 0 \in 0..MaxAttempts - 1
  OBVIOUS
<1>2. PICK a, b, c, n : /\ t = [status |-> a, step |-> b, pending |-> c, attempts |-> n]
                        /\ a \in {"active", "blocked", "completed", "none"} /\ b \in BOOLEAN /\ c \in BOOLEAN
                        /\ n \in 0..MaxAttempts - 1
  BY DEF TicketStates
<1> QED
  BY <1>1, <1>2 DEF TicketStates

\* A turn that starts is shown, and leaves the ticket alone.
LEMMA StartedTurn ==
    ASSUME Typed, NEW h \in BOOLEAN, NEW q \in BOOLEAN, StartTurn(h, q)
    PROVE  /\ running' = TRUE /\ runtime' \in Runtimes /\ runtime'.status = "running"
           /\ header' \in BOOLEAN /\ human' \in BOOLEAN /\ prompts' \in BOOLEAN
<1>1. runtime.typing \in 0..TypingGrace
  BY DEF Typed, TypeOK
<1>2. Runtime("running", runtime.typing, FALSE) \in Runtimes
  BY <1>1, RecordTypes
<1>3. Runtime("running", runtime.typing, FALSE).status = "running"
  BY DEF Runtime
<1> QED
  BY <1>2, <1>3 DEF StartTurn

\* After a turn, the next one is shown or the runtime r is.
LEMMA Drained ==
    ASSUME Typed, NEW r \in Runtimes, r.status # "running", NEW q \in BOOLEAN, Drain(r, q)
    PROVE  /\ running' \in BOOLEAN /\ runtime' \in Runtimes /\ RunIsShown'
           /\ header' \in BOOLEAN /\ human' \in BOOLEAN /\ prompts' \in BOOLEAN
<1>1. header \in BOOLEAN /\ human \in BOOLEAN
  BY DEF Typed, TypeOK
<1>2. CASE StartTurn(header, human)
  BY <1>1, <1>2, StartedTurn DEF RunIsShown
<1>3. CASE running' = FALSE /\ runtime' = r /\ UNCHANGED <<header, human>> /\ prompts' = q
  BY <1>1, <1>3 DEF RunIsShown
<1> QED
  BY <1>2, <1>3 DEF Drain

LEMMA PostKeeps ==
    ASSUME IInv, NEW from \in {"operator", "participant", "seen"}, Post(from)
    PROVE  IInv'
<1>1. ticket' \in TicketStates
  <2> DEFINE status == IF ticket.status = "blocked" /\ ticket.step THEN "active" ELSE ticket.status
  <2>1. status \in {"active", "blocked", "completed", "none"} /\ ticket \in TicketStates
    BY RecordTypes DEF IInv, TicketStates
  <2>2. ticket' = [ticket EXCEPT !.status = status, !.attempts = 0]
    BY DEF Post
  <2> HIDE DEF status
  <2> QED
    BY <2>1, <2>2, TicketEdits
<1>2. watchdog' \in Watchdogs /\ age' \in 0..IdleTimeout /\ process' \in Limits \cup {None} /\ stopping' \in BOOLEAN
  BY RecordTypes DEF Post, IInv, Typed, TypeOK
<1>3. CASE running
  <2>1. /\ lapsed' = (timer = None) /\ UNCHANGED <<header, runtime, running, timer, grace, early, forgotten>>
        /\ human' \in BOOLEAN /\ prompts' \in BOOLEAN
    BY <1>3 DEF Post, IInv, Typed, TypeOK
  <2>2. Typed'
    BY <1>1, <1>2, <2>1 DEF IInv, Typed, TypeOK, TicketStates, Watchdogs
  <2>3. WaitsForTyping' /\ RunIsShown'
    BY <2>1 DEF IInv, Watched, WaitsForTyping, RunIsShown
  <2>4. runtime'.status \in {"running", "interrupted"}
    BY <1>3, <2>1 DEF IInv, RunIsShown
  <2>5. WaitsForTimeout' /\ NobodyIsForgotten'
    BY <2>1, <2>4 DEF WaitsForTimeout, NobodyIsForgotten
  <2> QED
    BY <2>2, <2>3, <2>5 DEF IInv, Watched
<1>4. CASE ~running
  <2>1. /\ running' \in BOOLEAN /\ runtime' \in Runtimes /\ RunIsShown'
        /\ header' \in BOOLEAN /\ human' \in BOOLEAN /\ prompts' \in BOOLEAN
    <3>1. header \in BOOLEAN /\ human \in BOOLEAN /\ prompts \in BOOLEAN /\ runtime.typing \in 0..TypingGrace
      BY DEF IInv, Typed, TypeOK
    <3>2. CASE StartTurn(header, human \/ from = "operator")
      <4>1. (human \/ from = "operator") \in BOOLEAN
        BY <3>1
      <4> QED
        BY <3>1, <3>2, <4>1, StartedTurn DEF IInv, RunIsShown
    <3>3. CASE runtime' = Runtime("idle", runtime.typing, FALSE) /\ UNCHANGED <<header, queue, running>>
      <4>1. runtime' \in Runtimes /\ runtime'.status = "idle"
        BY <3>1, <3>3, RecordTypes DEF IInv, Runtime
      <4> QED
        BY <1>4, <3>1, <3>3, <4>1 DEF RunIsShown, queue, IInv, Typed, TypeOK
    <3> QED
      BY <1>4, <3>2, <3>3 DEF Post
  <2>2. Sound
    BY <1>1, <1>2, <2>1 DEF Sound, Armable
  <2> QED
    BY <1>4, <2>2, ArmedKeeps DEF Post
<1> QED
  BY <1>3, <1>4

\* The handlers that change no ticket arm the timer in a sound state.
LEMMA RuntimeHandlersKeep ==
    ASSUME IInv,
           \/ Activity \/ Report \/ Stop \/ StopAnswered
           \/ SetUserTyping(TypingGrace) \/ SetUserTyping(0) \/ Restart \/ TurnFails
    PROVE  IInv'
<1> USE RecordTypes DEF IInv
<1>1. runtime.typing \in 0..TypingGrace /\ 0 \in 0..TypingGrace /\ TypingGrace \in 0..TypingGrace
  BY DEF Typed, TypeOK
<1>2. CASE Activity
  <2>1. runtime' \in Runtimes /\ runtime'.status \in {"running", "interrupted"}
    <3>1. PICK status \in {"running", runtime.status} : runtime' = Runtime(status, runtime.typing, FALSE)
      BY <1>2 DEF Activity
    <3>2. status \in {"running", "interrupted"}
      BY <1>2, <3>1 DEF Activity, RunIsShown
    <3> QED
      BY <1>1, <3>1, <3>2 DEF Runtime
  <2>2. /\ running' = TRUE /\ UNCHANGED <<process, header, ticket, watchdog, human, prompts, stopping>>
        /\ age' = 0
    BY <1>2 DEF Activity, session, queue, Typed, TypeOK
  <2>3. Sound
    BY <2>1, <2>2 DEF Sound, Armable, RunIsShown, Typed, TypeOK
  <2> QED
    BY <1>2, <2>3, ArmedKeeps DEF Activity
<1>7. CASE Report
  <2>1. Sound
    BY <1>7 DEF Report, session, queue, Sound, Armable, RunIsShown, Typed, TypeOK
  <2> QED
    BY <1>7, <2>1, ArmedKeeps DEF Report
<1>3. CASE Stop
  <2>1. CASE stopping' = TRUE /\ UNCHANGED <<runtime, timer, history>>
    BY <1>3, <2>1 DEF Stop, session, queue, history, Typed, TypeOK, RunIsShown, Watched, WaitsForTyping,
                      WaitsForTimeout, NobodyIsForgotten, Watchable, Unresolved, LimitReached, AwaitsHuman
  <2>2. CASE runtime' = Runtime("running", runtime.typing, FALSE) /\ RuntimeChanged /\ UNCHANGED stopping
    <3>1. runtime' \in Runtimes /\ runtime'.status = "running" /\ running
      BY <1>1, <1>3, <2>2 DEF Stop, Runtime
    <3>2. Sound
      BY <1>3, <2>2, <3>1 DEF Stop, session, queue, Sound, Armable, RunIsShown, Typed, TypeOK
    <3> QED
      BY <2>2, <3>2, ArmedKeeps
  <2> QED
    BY <1>3, <2>1, <2>2 DEF Stop
<1>8. CASE StopAnswered
  <2>1. CASE UNCHANGED <<runtime, timer, history>>
    <3>1. /\ stopping' = FALSE
          /\ UNCHANGED <<process, header, human, prompts, ticket, watchdog, runtime, running, age, timer>>
          /\ UNCHANGED <<grace, lapsed, early, forgotten>>
      BY <1>8, <2>1 DEF StopAnswered, session, queue, history
    <3>2. Typed'
      <4>1. stopping' \in BOOLEAN
        BY <3>1
      <4> QED
        BY <3>1, <4>1 DEF Typed, TypeOK
    <3>3. RunIsShown' /\ Watched'
      BY <3>1 DEF RunIsShown, Watched, WaitsForTyping, WaitsForTimeout, NobodyIsForgotten, Watchable,
                  Unresolved, LimitReached, AwaitsHuman
    <3> QED
      BY <3>2, <3>3
  <2>2. CASE runtime' = Runtime("interrupted", runtime.typing, FALSE) /\ RuntimeChanged
    <3>1. runtime' \in Runtimes /\ runtime'.status = "interrupted"
      BY <1>1, <2>2 DEF Runtime
    <3>2. Sound
      BY <1>8, <3>1 DEF StopAnswered, session, queue, Sound, Armable, RunIsShown, Typed, TypeOK
    <3> QED
      BY <2>2, <3>2, ArmedKeeps
  <2> QED
    BY <1>8, <2>1, <2>2 DEF StopAnswered
<1>4. ASSUME NEW t \in 0..TypingGrace, SetUserTyping(t) PROVE IInv'
  <2>1. runtime' \in Runtimes /\ runtime'.status = runtime.status
    BY <1>4 DEF SetUserTyping, Runtimes
  <2>2. Sound
    BY <1>4, <2>1 DEF SetUserTyping, session, queue, Sound, Armable, RunIsShown, Typed, TypeOK
  <2> QED
    BY <1>4, <2>2, ArmedKeeps DEF SetUserTyping
<1>5. CASE Restart
  <2>1. runtime' \in Runtimes /\ runtime'.status = "idle"
    BY <1>1, <1>5 DEF Restart, Runtime
  <2>2. Sound
    BY <1>5, <2>1 DEF Restart, session, queue, Sound, Armable, RunIsShown, Typed, TypeOK
  <2> QED
    BY <1>5, <2>2, ArmedKeeps DEF Restart
<1>6. CASE TurnFails
  <2>1. PICK status \in {"interrupted", "error"} : Drain(Runtime(status, runtime.typing, FALSE), prompts)
    BY <1>6 DEF TurnFails
  <2> DEFINE r == Runtime(status, runtime.typing, FALSE)
  <2>2. r \in Runtimes /\ r.status # "running" /\ prompts \in BOOLEAN /\ Drain(r, prompts)
    BY <1>1, <2>1 DEF Runtime, Typed, TypeOK
  <2> HIDE DEF r
  <2>3. /\ running' \in BOOLEAN /\ runtime' \in Runtimes /\ RunIsShown'
        /\ header' \in BOOLEAN /\ human' \in BOOLEAN /\ prompts' \in BOOLEAN
    BY <2>2, Drained
  <2>4. Sound
    BY <1>6, <2>3 DEF TurnFails, Sound, Armable, Typed, TypeOK
  <2> QED
    BY <1>6, <2>4, ArmedKeeps DEF TurnFails
<1> QED
  BY <1>1, <1>2, <1>3, <1>4, <1>5, <1>6, <1>7, <1>8

LEMMA TurnSucceedsKeeps ==
    ASSUME IInv, NEW signal \in {"none", "step", "completed", "blocked"}, TurnSucceeds(signal)
    PROVE  IInv'
<1> DEFINE r == Runtime("idle", runtime.typing, TRUE)
           q == prompts \/ signal = "step"
<1>1. r \in Runtimes /\ r.status # "running"
  BY RecordTypes DEF IInv, Typed, TypeOK, Runtime
<1>2. q \in BOOLEAN /\ Drain(r, q)
  BY DEF TurnSucceeds, IInv, Typed, TypeOK
<1> HIDE DEF r, q
<1>3. /\ running' \in BOOLEAN /\ runtime' \in Runtimes /\ RunIsShown'
      /\ header' \in BOOLEAN /\ human' \in BOOLEAN /\ prompts' \in BOOLEAN
  BY <1>1, <1>2, Drained DEF IInv
<1>4. ticket' \in TicketStates
  <2>1. CASE signal = "step"
    BY <2>1, RecordTypes DEF TurnSucceeds, IInv
  <2>2. CASE signal \in {"completed", "blocked"} /\ ticket.status # "none"
    <3> DEFINE step == ticket.step /\ signal = "blocked"
    <3>1. step \in BOOLEAN /\ ticket \in TicketStates
      BY RecordTypes DEF IInv
    <3>2. ticket' = [ticket EXCEPT !.status = signal, !.step = step, !.attempts = 0]
      BY <2>2 DEF TurnSucceeds
    <3> HIDE DEF step
    <3> QED
      BY <2>2, <3>1, <3>2, TicketEdits
  <2>3. CASE signal # "step" /\ ~(signal \in {"completed", "blocked"} /\ ticket.status # "none")
    BY <2>3, RecordTypes DEF TurnSucceeds, IInv
  <2> QED
    BY <2>1, <2>2, <2>3
<1>5. watchdog' \in Watchdogs
  <2>1. [watchdog EXCEPT !.status = "completed"] \in Watchdogs /\ [watchdog EXCEPT !.status = "blocked"] \in Watchdogs
    BY RecordTypes DEF IInv, Watchdogs
  <2> QED
    BY <2>1, RecordTypes DEF TurnSucceeds, IInv
<1>6. Sound
  <2>1. process' = process /\ stopping' = stopping /\ age' = 0
    BY DEF TurnSucceeds
  <2>2. process' \in Limits \cup {None} /\ stopping' \in BOOLEAN /\ age' \in 0..IdleTimeout
    BY <2>1 DEF IInv, Typed, TypeOK
  <2> QED
    BY <1>3, <1>4, <1>5, <2>2 DEF Sound, Armable
<1> QED
  BY <1>6, ArmedKeeps DEF TurnSucceeds

\* The operator's changes of the process and the ticket that arm the timer.
LEMMA ProcessHandlersKeep ==
    ASSUME IInv, (\E p \in Limits : SelectProcess(p)) \/ ClearProcess \/ ActivateTicket
    PROVE  IInv'
<1> USE RecordTypes DEF IInv
<1>1. ASSUME NEW p \in Limits, SelectProcess(p) PROVE IInv'
  <2>1. ticket' \in TicketStates /\ watchdog' \in Watchdogs
    BY <1>1 DEF SelectProcess
  <2>2. Sound
    BY <1>1, <2>1 DEF SelectProcess, Sound, Armable, RunIsShown, Typed, TypeOK
  <2> QED
    BY <1>1, <2>2, ArmedKeeps DEF SelectProcess
<1>2. CASE ClearProcess
  <2>1. ticket' \in TicketStates /\ watchdog' \in Watchdogs
    BY <1>2 DEF ClearProcess
  <2>2. Sound
    BY <1>2, <2>1 DEF ClearProcess, Sound, Armable, RunIsShown, Typed, TypeOK
  <2> QED
    BY <1>2, <2>2, ArmedKeeps DEF ClearProcess
<1>3. CASE ActivateTicket
  <2>1. ticket' \in TicketStates /\ watchdog' \in Watchdogs
    BY <1>3 DEF ActivateTicket, TicketStates
  <2>2. Sound
    BY <1>3, <2>1 DEF ActivateTicket, queue, Sound, Armable, RunIsShown, Typed, TypeOK
  <2> QED
    BY <1>3, <2>2, ArmedKeeps DEF ActivateTicket
<1> QED
  BY <1>1, <1>2, <1>3

\* Those that leave the timer as it was.
LEMMA TicketHandlersKeep ==
    ASSUME IInv, EditSession \/ SelectStep \/ ReassignAway \/ PatchConfig
    PROVE  IInv'
<1> USE RecordTypes DEF IInv
<1>1. CASE EditSession
  <2>1. Sound
    BY <1>1 DEF EditSession, session, queue, Sound, Armable, RunIsShown, Typed, TypeOK
  <2> QED
    BY <1>1, <2>1, ArmedKeeps, KeptKeeps DEF EditSession
<1>2. CASE SelectStep
  <2>1. ticket' \in TicketStates
    <3>1. PICK last \in BOOLEAN :
            ticket' = [ticket EXCEPT !.status = IF last THEN "completed" ELSE "active", !.step = ~last, !.attempts = 0]
      BY <1>2 DEF SelectStep
    <3>2. (~last) \in BOOLEAN /\ (IF last THEN "completed" ELSE "active") \in {"active", "completed"}
      OBVIOUS
    <3> QED
      BY <3>1, <3>2, TicketEdits
  <2>2. Sound
    BY <1>2, <2>1 DEF SelectStep, queue, Sound, Armable, RunIsShown, Typed, TypeOK
  <2> QED
    BY <1>2, <2>2, KeptKeeps DEF SelectStep
<1>3. CASE ReassignAway
  <2>1. Sound
    BY <1>3 DEF ReassignAway, queue, Sound, Armable, RunIsShown, Typed, TypeOK
  <2> QED
    BY <1>3, <2>1, KeptKeeps DEF ReassignAway
<1>4. CASE PatchConfig
  <2>1. \A pending \in BOOLEAN : Configured(pending) \in TicketStates
    BY TicketEdits DEF Configured
  <2>2. ticket' \in TicketStates /\ watchdog' \in Watchdogs
    BY <1>4, <2>1 DEF PatchConfig
  <2>3. prompts' \in BOOLEAN /\ age' \in 0..IdleTimeout
    BY <1>4 DEF PatchConfig, Typed, TypeOK
  <2>4. Sound
    BY <1>4, <2>2, <2>3 DEF PatchConfig, Sound, Armable, RunIsShown, Typed, TypeOK
  <2> QED
    BY <1>4, <2>4, KeptKeeps DEF PatchConfig
<1> QED
  BY <1>1, <1>2, <1>3, <1>4
-----------------------------------------------------------------------------
(***************************************************************************)
(* The timer.                                                              *)
(***************************************************************************)
\* A timer that fires and does not prompt leaves an idle session that is resolved, or a turn that lapses.
LEMMA TurnAwayKeeps ==
    ASSUME IInv, TurnAway
    PROVE  IInv'
<1>1. /\ timer = 0 /\ ~MayNudge /\ timer' = None /\ grace' = FALSE /\ early' = FALSE
      /\ lapsed' = (runtime.status = "running")
      /\ UNCHANGED <<process, header, ticket, watchdog, human, prompts, runtime, running, stopping, age, forgotten>>
  BY DEF TurnAway, Fires, session, queue
<1>2. lapsed' \in BOOLEAN /\ (runtime.status = "running" => lapsed')
  BY <1>1
<1>3. Typed' /\ RunIsShown'
  <2>1. Typed'
    <3>1. grace' \in BOOLEAN /\ early' \in BOOLEAN
      BY <1>1, Zenon
    <3>3. timer' \in Int
      BY <1>1
    <3>2. /\ header' \in BOOLEAN /\ human' \in BOOLEAN /\ prompts' \in BOOLEAN /\ running' \in BOOLEAN
          /\ process' \in Limits \cup {None} /\ age' \in 0..IdleTimeout
          /\ stopping' \in BOOLEAN /\ forgotten' \in BOOLEAN
      BY <1>1 DEF IInv, Typed, TypeOK
    <3> QED
      BY <1>1, <1>2, <3>1, <3>2, <3>3 DEF IInv, Typed, TypeOK
  <2>2. RunIsShown'
    BY <1>1 DEF IInv, RunIsShown
  <2> QED
    BY <2>1, <2>2
<1>4. runtime.typing = 0
  BY <1>1 DEF IInv, Watched, WaitsForTyping, Typed, TypeOK
<1>5. NobodyIsForgotten'
  BY <1>1, <1>2, <1>4 DEF NobodyIsForgotten, MayNudge, Watchable, Unresolved, LimitReached, AwaitsHuman
<1> QED
  BY <1>1, <1>3, <1>5 DEF IInv, Watched, WaitsForTyping, WaitsForTimeout

LEMMA BlockTicketKeeps ==
    ASSUME IInv, BlockTicket
    PROVE  IInv'
<1>1. /\ timer' = None /\ grace' = FALSE /\ early' = FALSE /\ age' = 0
      /\ UNCHANGED <<process, header, human, prompts, runtime, running, stopping, lapsed, forgotten>>
  BY DEF BlockTicket, queue
<1>3. ticket' \in TicketStates /\ ticket'.status = "blocked"
  <2>1. ticket' = [ticket EXCEPT !.status = "blocked", !.attempts = 0] /\ ticket \in TicketStates
    BY RecordTypes DEF BlockTicket, IInv
  <2>2. ticket' \in TicketStates
    BY <2>1, TicketEdits
  <2>3. ticket'.status = "blocked"
    BY <2>1 DEF TicketStates
  <2> QED
    BY <2>2, <2>3
<1>4. watchdog' \in Watchdogs
  BY RecordTypes DEF BlockTicket, IInv, Watchdogs
<1>5. Typed' /\ RunIsShown'
  <2>1. Typed'
    <3>1. grace' \in BOOLEAN /\ early' \in BOOLEAN
      BY <1>1, Zenon
    <3>3. timer' \in Int /\ age' \in 0..IdleTimeout /\ timer' \in Nat \cup {None}
      BY <1>1
    <3>2. /\ header' \in BOOLEAN /\ human' \in BOOLEAN /\ prompts' \in BOOLEAN /\ running' \in BOOLEAN
          /\ process' \in Limits \cup {None} /\ lapsed' \in BOOLEAN /\ runtime' = runtime
          /\ stopping' \in BOOLEAN /\ forgotten' \in BOOLEAN
      BY <1>1 DEF IInv, Typed, TypeOK
    <3> QED
      BY <1>3, <1>4, <3>1, <3>2, <3>3 DEF IInv, Typed, TypeOK, TicketStates, Watchdogs
  <2>2. RunIsShown'
    BY <1>1 DEF IInv, RunIsShown
  <2> QED
    BY <2>1, <2>2
<1> QED
  BY <1>1, <1>3, <1>5 DEF IInv, Watched, WaitsForTyping, WaitsForTimeout, NobodyIsForgotten, Watchable

LEMMA NudgeKeeps ==
    ASSUME IInv, Nudge
    PROVE  IInv'
<1>1. ticket' \in TicketStates
  <2>1. CASE ActiveStep(ticket)
    <3>1. Attempts \in 0..MaxAttempts - 1
      BY <2>1 DEF Nudge, Attempts, IInv, Typed, TypeOK
    <3>2. ticket' = [ticket EXCEPT !.attempts = Attempts]
      BY <2>1 DEF Nudge, CountAttempt
    <3> HIDE DEF Attempts
    <3> QED
      BY <3>1, <3>2, RecordTypes DEF IInv, TicketStates
  <2>2. CASE ~ActiveStep(ticket)
    BY <2>2, RecordTypes DEF Nudge, IInv
  <2> QED
    BY <2>1, <2>2
<1>2. watchdog' \in Watchdogs
  <2>1. watchdog.nudges \in 0..NudgeBound
    BY DEF IInv, Typed, TypeOK
  <2>2. (IF watchdog.nudges < NudgeBound THEN watchdog.nudges + 1 ELSE NudgeBound) \in 0..NudgeBound
    BY <2>1
  <2> QED
    BY <2>2 DEF Nudge, Watchdogs
<1>3. /\ running' \in BOOLEAN /\ runtime' \in Runtimes /\ RunIsShown'
      /\ header' \in BOOLEAN /\ human' \in BOOLEAN /\ prompts' \in BOOLEAN
  <2>1. CASE running
    <3>1. /\ prompts' = TRUE /\ UNCHANGED <<header, human, running>>
          /\ runtime' = [runtime EXCEPT !.silence = 0, !.providerIdle = FALSE]
      BY <2>1 DEF Nudge
    <3>2. 0 \in 0..IdleTimeout /\ FALSE \in BOOLEAN /\ runtime \in Runtimes
      BY RecordTypes DEF IInv
    <3>3. runtime' \in Runtimes /\ runtime'.status = runtime.status
      BY <3>1, <3>2 DEF Runtimes
    <3> QED
      BY <3>1, <3>3 DEF IInv, Typed, TypeOK, RunIsShown
  <2>2. CASE ~running
    BY <2>2, StartedTurn DEF Nudge, IInv, Typed, TypeOK, RunIsShown
  <2> QED
    BY <2>1, <2>2
<1>4. Sound
  BY <1>1, <1>2, <1>3 DEF Nudge, Sound, Armable, IInv, Typed, TypeOK
<1> QED
  BY <1>4, ArmedKeeps DEF Nudge

\* Time brings the timer, the typing and the time-out nearer alike.
LEMMA TickKeeps ==
    ASSUME IInv, Tick
    PROVE  IInv'
<1>1. /\ timer # 0 /\ timer' = IF timer = None THEN None ELSE timer - 1
      /\ runtime' = [runtime EXCEPT !.silence = IF runtime.status = "running" THEN Older(@) ELSE @,
                                    !.typing = IF @ = 0 THEN 0 ELSE @ - 1]
      /\ watchdog' = [watchdog EXCEPT !.ago = IF watchdog.status = "nudged" THEN Older(@) ELSE @]
      /\ age' = Older(age)
      /\ UNCHANGED <<process, header, human, prompts, ticket, running, stopping, grace, lapsed, early, forgotten>>
  BY DEF Tick, Fires, queue, history
<1>2. \A n \in 0..IdleTimeout : Older(n) \in 0..IdleTimeout /\ IdleTimeout - Older(n) >= 0
                                /\ (IdleTimeout - Older(n) = IdleTimeout - n - 1 \/ IdleTimeout - Older(n) = 0)
  BY DEF Older
<1>3. /\ runtime' \in Runtimes /\ runtime'.status = runtime.status
      /\ runtime'.typing = IF runtime.typing = 0 THEN 0 ELSE runtime.typing - 1
  <2>1. runtime.typing \in 0..TypingGrace /\ runtime.silence \in 0..IdleTimeout
    BY DEF IInv, Typed, TypeOK
  <2>2. (IF runtime.typing = 0 THEN 0 ELSE runtime.typing - 1) \in 0..TypingGrace
    BY <2>1
  <2>3. (IF runtime.status = "running" THEN Older(runtime.silence) ELSE runtime.silence) \in 0..IdleTimeout
    BY <1>2, <2>1
  <2> HIDE DEF Older
  <2> QED
    BY <1>1, <2>2, <2>3, RecordTypes DEF IInv, Runtimes
<1>4. /\ watchdog' \in Watchdogs /\ watchdog'.status = watchdog.status /\ watchdog'.nudges = watchdog.nudges
      /\ watchdog.status = "nudged" => watchdog'.ago = Older(watchdog.ago)
  <2>1. (IF watchdog.status = "nudged" THEN Older(watchdog.ago) ELSE watchdog.ago) \in 0..IdleTimeout
    BY <1>2 DEF IInv, Typed, TypeOK
  <2> QED
    BY <1>1, <2>1, RecordTypes DEF IInv, Watchdogs
<1>5. age' \in 0..IdleTimeout
  BY <1>1, <1>2 DEF IInv, Typed, TypeOK
<1>6. timer' \in Nat \cup {None} /\ timer' \in Int /\ (timer' = None <=> timer = None)
  BY <1>1 DEF IInv, Typed
<1>7. Typed' /\ RunIsShown'
  BY <1>1, <1>3, <1>4, <1>5, <1>6 DEF IInv, Typed, TypeOK, RunIsShown, Runtimes, Watchdogs
<1>8. WaitsForTyping'
  BY <1>1, <1>3, <1>6 DEF IInv, Watched, WaitsForTyping, Typed, TypeOK
<1>9. WaitsForTimeout'
  <2> SUFFICES ASSUME timer' # None, ~grace', ~early', runtime'.status = "idle", ActiveStep(ticket'),
                      watchdog'.status = "nudged"
               PROVE  timer' >= IdleTimeout - watchdog'.ago
    BY DEF WaitsForTimeout
  <2>1. timer >= IdleTimeout - watchdog.ago /\ timer' = timer - 1 /\ timer' \in Nat /\ timer \in Nat
    BY <1>1, <1>3, <1>4, <1>6 DEF IInv, Watched, WaitsForTimeout, Typed
  <2>2. watchdog'.ago = Older(watchdog.ago) /\ watchdog.ago \in 0..IdleTimeout
    BY <1>4 DEF IInv, Typed, TypeOK
  <2>3. IdleTimeout - watchdog'.ago = IdleTimeout - watchdog.ago - 1 \/ IdleTimeout - watchdog'.ago = 0
    BY <1>2, <2>2
  <2> QED
    BY <2>1, <2>2, <2>3
<1>10. NobodyIsForgotten'
  BY <1>1, <1>3, <1>4, <1>6
  DEF IInv, Watched, NobodyIsForgotten, Watchable, Unresolved, LimitReached, AwaitsHuman
<1> QED
  BY <1>7, <1>8, <1>9, <1>10 DEF IInv, Watched
-----------------------------------------------------------------------------
LEMMA InitHolds == Init => IInv
<1> SUFFICES ASSUME Init PROVE IInv
  OBVIOUS
<1>1. /\ NoTicket \in TicketStates /\ NoTicket.status = "none"
      /\ FreshWatchdog \in Watchdogs
      /\ Runtime("idle", 0, FALSE) \in Runtimes
      /\ Runtime("idle", 0, FALSE).status = "idle" /\ Runtime("idle", 0, FALSE).typing = 0
  BY DEF NoTicket, FreshWatchdog, Runtime, TicketStates, Watchdogs, Runtimes
<1>2. Typed
  <2>1. /\ header \in BOOLEAN /\ human \in BOOLEAN /\ prompts \in BOOLEAN /\ running \in BOOLEAN
        /\ grace \in BOOLEAN /\ lapsed \in BOOLEAN /\ early \in BOOLEAN /\ forgotten \in BOOLEAN
        /\ stopping \in BOOLEAN
    BY DEF Init
  <2>2. process \in Limits \cup {None} /\ age \in 0..IdleTimeout /\ timer \in Int /\ timer \in Nat \cup {None}
    BY DEF Init
  <2>3. ticket \in TicketStates /\ ticket.status = "none" /\ watchdog \in Watchdogs /\ runtime \in Runtimes
    BY <1>1 DEF Init
  <2> QED
    BY <2>1, <2>2, <2>3 DEF Typed, TypeOK, TicketStates, Watchdogs, Runtimes
<1>3. RunIsShown /\ Watched
  BY <1>1 DEF Init, RunIsShown, Watched, WaitsForTyping, WaitsForTimeout, NobodyIsForgotten, Watchable, Unresolved
<1> QED
  BY <1>2, <1>3 DEF IInv

LEMMA StepKeeps == IInv /\ [Next]_vars => IInv'
<1> SUFFICES ASSUME IInv, [Next]_vars PROVE IInv'
  OBVIOUS
<1>1. CASE Operator
  BY <1>1, PostKeeps, RuntimeHandlersKeep, ProcessHandlersKeep, TicketHandlersKeep DEF Operator
<1>2. CASE StopAnswered \/ Activity \/ Report \/ TurnFails \/ Restart
  BY <1>2, RuntimeHandlersKeep
<1>3. ASSUME NEW signal \in {"none", "step", "completed", "blocked"}, TurnSucceeds(signal) PROVE IInv'
  BY <1>3, TurnSucceedsKeeps
<1>4. CASE Watchdog
  BY <1>4, TurnAwayKeeps, BlockTicketKeeps, NudgeKeeps DEF Watchdog
<1>5. CASE Tick
  BY <1>5, TickKeeps
<1>6. CASE UNCHANGED vars
  BY <1>6 DEF vars, session, queue, history, IInv, Typed, TypeOK, RunIsShown, Watched, WaitsForTyping, WaitsForTimeout,
              NobodyIsForgotten, Watchable, Unresolved, LimitReached, AwaitsHuman
<1> QED
  BY <1>1, <1>2, <1>3, <1>4, <1>5, <1>6 DEF Next

\* The inductive invariant holds in every state of every behaviour.
THEOREM Invariance == Spec => []IInv
BY InitHolds, StepKeeps, PTL DEF Spec

\* Every variable of the watchdog keeps its type, whatever the handlers and the timer do.
THEOREM TypeCorrect == Spec => []TypeOK
<1>1. IInv => TypeOK
  BY DEF IInv, Typed
<1> QED
  BY <1>1, Invariance, PTL

\* No session that is to be watched is without a timer, for every time-out, typing grace and limit, but for
\* those that a handler woke without arming one and for lapsed turns.
THEOREM NobodyForgotten == Spec => []NobodyIsForgotten
<1>1. IInv => NobodyIsForgotten
  BY DEF IInv, Watched
<1> QED
  BY <1>1, Invariance, PTL

\* Prompts of a step at an idle session are at least the idle time-out apart, for every time-out, unless
\* typing ended between them or the step was confirmed or selected under an older timer.
THEOREM PromptsApart == Spec => PromptsKeepApart
<1> DEFINE Apart == Nudge /\ ~running /\ ActiveStep(ticket) /\ watchdog.status = "nudged"
                    => watchdog.ago >= IdleTimeout \/ grace \/ early
<1>1. IInv => Apart
  <2> SUFFICES ASSUME IInv, Nudge, ~running, ActiveStep(ticket), watchdog.status = "nudged", ~grace, ~early
               PROVE  watchdog.ago >= IdleTimeout
    OBVIOUS
  <2>1. timer = 0 /\ runtime.status = "idle"
    BY DEF Nudge, Fires, MayNudge, Stalled, IInv, RunIsShown
  <2>2. timer >= IdleTimeout - watchdog.ago /\ watchdog.ago \in 0..IdleTimeout
    BY <2>1 DEF IInv, Watched, WaitsForTimeout, Typed, TypeOK
  <2> QED
    BY <2>1, <2>2
<1>2. IInv /\ [Next]_vars => [Apart]_vars
  BY <1>1
<1>3. Spec => [][Apart]_vars
  BY <1>2, Invariance, PTL DEF Spec
<1> QED
  BY <1>3 DEF PromptsKeepApart
=============================================================================
