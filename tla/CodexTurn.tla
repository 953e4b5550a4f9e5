------------------------------ MODULE CodexTurn ------------------------------
(***************************************************************************)
(* The codex adapter of agent chat (codex-provider.ts): a turn of a        *)
(* session makes sure that the shared app-server runs, opens a socket to   *)
(* it, goes through the requests of the handshake and then waits for the   *)
(* completion of the turn it started there.  An operator's stop is a       *)
(* second connection with a handshake of its own.                          *)
(*                                                                         *)
(* The promise of the completion is rejected when the socket closes or     *)
(* nothing has been heard for too long; the promise of a request is only   *)
(* settled by its answer, or by the code that waits for it.  The           *)
(* app-server is modelled from how this code uses it.                      *)
(***************************************************************************)
EXTENDS Naturals

CONSTANTS
    Sessions,   \* sessions of which each runs one turn after the other
    Stopped     \* those whose turns an operator stops

ASSUME StoppedAssumption == Stopped \subseteq Sessions

VARIABLES
    appServer,  \* the process that all turns share
    startup,    \* codexStartupPromise: a start of it is awaited
    run,        \* session -> its runCodexTurn
    stop,       \* session -> its interruptCodexTurn
    thread,     \* session -> the engine has stored the thread of a turn that succeeded
    orphan,     \* session -> a turn nobody waits for may still run on the app-server
    broken      \* session -> history: its socket was lost or timed out in this turn, or in
                \*            the one whose orphan was there when it began

vars == <<appServer, startup, run, stop, thread, orphan, broken>>

Requests == {"initialize", "resume", "start", "turn"}
Settled == {"done", "failed"}
IdleRun == [phase |-> "idle", socket |-> "none", completion |-> "pending", error |-> FALSE, remote |-> "none"]
IdleStop == [phase |-> "idle", socket |-> "none"]

Init ==
    /\ appServer \in {"down", "up"}
    /\ startup = FALSE
    /\ run = [s \in Sessions |-> IdleRun]
    /\ stop = [s \in Sessions |-> IdleStop]
    /\ thread \in [Sessions -> BOOLEAN]
    /\ orphan = [s \in Sessions |-> FALSE]
    /\ broken = [s \in Sessions |-> FALSE]

\* A request is awaited that only its answer can settle: its socket is closed, or the time-out
\* was cleared by a completion that came first.
Stranded(r) == r.phase \in Requests /\ (r.socket = "closed" \/ r.completion = "resolved")

\* A stop has no time-out: it is stranded by a closed socket and by an app-server that is silent.
StopStranded(c) == c.socket \in {"closed", "silent"}
-----------------------------------------------------------------------------
(***************************************************************************)
(* Parts of the handlers.                                                  *)
(***************************************************************************)

\* Mutant: the close of a socket does not reject the completion.
CloseOnly(r) == [r EXCEPT !.socket = "closed"]

\* The listeners of close and of the time-out.
SocketGone(r) ==
    [r EXCEPT !.socket = "closed",
              !.completion = IF @ = "pending" THEN "rejected" ELSE @]

\* Leaving runCodexTurn: the finally closes the socket. Of a success its evidence is kept.
Settle(r, result) ==
    IF result = "failed" THEN [IdleRun EXCEPT !.phase = "failed"]
    ELSE [IdleRun EXCEPT !.phase = result, !.error = r.error,
                         !.remote = IF r.remote = "running" THEN "none" ELSE r.remote]

\* new WebSocket, with the time-out armed.
Connect(r) == [r EXCEPT !.phase = "connecting", !.socket = "connecting"]

\* What leaving the turn in state r means for the app-server's own turn.
Orphaned(s, r) == orphan' = [orphan EXCEPT ![s] = @ \/ r.remote = "running"]
-----------------------------------------------------------------------------
(***************************************************************************)
(* ensureCodexAppServer                                                    *)
(***************************************************************************)
Begin(s) ==
    /\ run[s].phase \in Settled \cup {"idle"}
    /\ run' = [run EXCEPT ![s] = [IdleRun EXCEPT !.phase = "probing"]]
    /\ broken' = [broken EXCEPT ![s] = orphan[s]]
    /\ UNCHANGED <<appServer, startup, stop, thread, orphan>>

\* codexReady answers; a start that is under way is shared.
Probe(s) ==
    /\ run[s].phase = "probing"
    /\ IF appServer = "up"
       THEN /\ run' = [run EXCEPT ![s] = Connect(@)]
            /\ UNCHANGED <<appServer, startup>>
       ELSE /\ run' = [run EXCEPT ![s] = [@ EXCEPT !.phase = "startup"]]
            /\ startup' = TRUE
            /\ appServer' = IF startup THEN appServer ELSE "booting"
    /\ UNCHANGED <<stop, thread, orphan, broken>>

\* waitForCodexReady finds the process ready, or gives up after its attempts.
StartupDone ==
    /\ startup
    /\ startup' = FALSE
    /\ run' = [s \in Sessions |->
                  IF run[s].phase # "startup" THEN run[s]
                  ELSE IF appServer = "up" THEN Connect(run[s])
                  ELSE Settle(run[s], "failed")]
    /\ UNCHANGED <<appServer, stop, thread, orphan, broken>>
-----------------------------------------------------------------------------
(***************************************************************************)
(* runCodexTurn                                                            *)
(***************************************************************************)
Opened(s) ==
    /\ run[s].socket = "connecting"
    /\ appServer = "up"
    /\ run' = [run EXCEPT ![s].socket = "open", ![s].phase = "initialize"]
    /\ UNCHANGED <<appServer, startup, stop, thread, orphan, broken>>

\* Mutant: nobody listens to the error of a socket that never opened.
KeepWaiting(r) == SocketGone(r)

\* The socket fails before it opened, on its own or by the time-out.
FailToOpen(r) == Settle(r, "failed")

OpenFails(s) ==
    /\ run[s].socket = "connecting"
    /\ run' = [run EXCEPT ![s] = FailToOpen(@)]
    /\ UNCHANGED <<appServer, startup, stop, thread, orphan, broken>>

\* Mutant: a turn on a thread that the engine has not stored yet counts as failed.
AfterAnswerStored(s, ok) ==
    CASE run[s].phase = "initialize" -> IF ~ok THEN "failed" ELSE IF thread[s] THEN "resume" ELSE "start"
      [] run[s].phase = "resume"     -> IF ok THEN "turn" ELSE "start"
      [] run[s].phase = "start"      -> IF ok THEN "turn" ELSE "failed"
      [] run[s].phase = "turn"       -> IF ok /\ thread[s] THEN "completion" ELSE "failed"

\* The next request after an answer: a resume that fails falls back to a new thread.
AfterAnswer(s, ok) ==
    CASE run[s].phase = "initialize" -> IF ~ok THEN "failed" ELSE IF thread[s] THEN "resume" ELSE "start"
      [] run[s].phase = "resume"     -> IF ok THEN "turn" ELSE "start"
      [] run[s].phase = "start"      -> IF ok THEN "turn" ELSE "failed"
      [] run[s].phase = "turn"       -> IF ok THEN "completion" ELSE "failed"

Answered(s, ok) ==
    /\ run[s].phase \in Requests
    /\ run[s].socket = "open"
    /\ run[s].phase = "turn" => (ok <=> run[s].remote # "none")
    /\ LET next == AfterAnswer(s, ok)
       IN  IF next = "failed"
           THEN run' = [run EXCEPT ![s] = Settle(@, "failed")] /\ Orphaned(s, run[s])
           ELSE run' = [run EXCEPT ![s].phase = next] /\ UNCHANGED orphan
    /\ UNCHANGED <<appServer, startup, stop, thread, broken>>

\* Mutant: a turn that ended with an error counts as a success.
ResultOfAny(r) == IF r.completion = "resolved" THEN "done" ELSE "failed"

ResultOf(r) == IF r.completion = "resolved" /\ ~r.error THEN "done" ELSE "failed"

\* The await of completionPromise ends.
Completed(s) ==
    /\ run[s].phase = "completion"
    /\ run[s].completion # "pending"
    /\ run' = [run EXCEPT ![s] = Settle(@, ResultOf(@))]
    /\ Orphaned(s, run[s])
    /\ thread' = IF ResultOf(run[s]) = "done" THEN [thread EXCEPT ![s] = TRUE] ELSE thread
    /\ UNCHANGED <<appServer, startup, stop, broken>>

\* armCompletionTimeout: silence for too long closes the socket, during the handshake as well.
TimesOut(s) ==
    /\ run[s].socket = "open"
    /\ run[s].completion = "pending"
    /\ run' = [run EXCEPT ![s] = SocketGone(@)]
    /\ broken' = [broken EXCEPT ![s] = TRUE]
    /\ UNCHANGED <<appServer, startup, stop, thread, orphan>>
-----------------------------------------------------------------------------
(***************************************************************************)
(* interruptCodexTurn: no time-out and no listener of close.               *)
(***************************************************************************)
BeginStop(s) ==
    /\ s \in Stopped
    /\ stop[s].phase \in Settled \cup {"idle"}
    /\ run[s].remote = "running"
    /\ stop' = [stop EXCEPT ![s] = [phase |-> "connecting", socket |-> "connecting"]]
    /\ UNCHANGED <<appServer, startup, run, thread, orphan, broken>>

StopOpened(s) ==
    /\ stop[s].socket = "connecting"
    /\ stop' = [stop EXCEPT ![s] = IF appServer = "up" THEN [phase |-> "initialize", socket |-> "open"]
                                   ELSE [IdleStop EXCEPT !.phase = "failed"]]
    /\ UNCHANGED <<appServer, startup, run, thread, orphan, broken>>

StopAnswered(s, ok) ==
    /\ stop[s].socket = "open"
    /\ stop[s].phase \in {"initialize", "interrupt"}
    /\ stop' = [stop EXCEPT ![s] =
           IF ok /\ stop[s].phase = "initialize" THEN [phase |-> "interrupt", socket |-> "open"]
           ELSE [IdleStop EXCEPT !.phase = IF ok THEN "done" ELSE "failed"]]
    /\ UNCHANGED <<appServer, startup, run, thread, orphan, broken>>
\* From here on the app-server says nothing to this stop, neither to its connect nor to a request.
StopSilenced(s) ==
    /\ stop[s].socket \in {"connecting", "open"}
    /\ stop' = [stop EXCEPT ![s].socket = "silent"]
    /\ UNCHANGED <<appServer, startup, run, thread, orphan, broken>>

\* The socket of a stop closes: only one that was still connecting is noticed.
StopGone(c) ==
    IF c.phase = "connecting" THEN [IdleStop EXCEPT !.phase = "failed"] ELSE [c EXCEPT !.socket = "closed"]
-----------------------------------------------------------------------------
(***************************************************************************)
(* The app-server and the network.                                         *)
(***************************************************************************)
AppReady ==
    /\ appServer = "booting"
    /\ appServer' = "up"
    /\ UNCHANGED <<startup, run, stop, thread, orphan, broken>>

\* It starts the turn it is asked for.
RemoteStarts(s) ==
    /\ run[s].phase = "turn" /\ run[s].socket = "open" /\ run[s].remote = "none"
    /\ run' = [run EXCEPT ![s].remote = "running"]
    /\ UNCHANGED <<appServer, startup, stop, thread, orphan, broken>>

\* turn/completed, with or without an error; a closed socket does not bring it.
RemoteCompletes(s) ==
    /\ run[s].remote = "running"
    /\ \E e \in BOOLEAN :
           run' = [run EXCEPT ![s] = IF @.socket = "open"
                                     THEN [@ EXCEPT !.remote = "over", !.completion = "resolved", !.error = e]
                                     ELSE [@ EXCEPT !.remote = "over"]]
    /\ UNCHANGED <<appServer, startup, stop, thread, orphan, broken>>

\* A turn that nobody waits for ends. The listener of a later turn on the same thread
\* takes any turn/completed for the one it waits for.
OrphanEnds(s) ==
    /\ orphan[s]
    /\ orphan' = [orphan EXCEPT ![s] = FALSE]
    /\ \/ UNCHANGED run
       \/ /\ run[s].phase \in {"turn", "completion"} /\ run[s].socket = "open"
          /\ \E e \in BOOLEAN : run' = [run EXCEPT ![s].completion = "resolved", ![s].error = e]
    /\ UNCHANGED <<appServer, startup, stop, thread, broken>>

SocketLost(s) ==
    /\ \/ run[s].socket = "open" /\ run' = [run EXCEPT ![s] = SocketGone(@)] /\ UNCHANGED stop
       \/ stop[s].socket \in {"open", "silent"} /\ stop' = [stop EXCEPT ![s] = StopGone(@)] /\ UNCHANGED run
    /\ broken' = [broken EXCEPT ![s] = TRUE]
    /\ UNCHANGED <<appServer, startup, thread, orphan>>

\* The process dies: every turn in it ends and every socket closes.
AppCrash ==
    /\ appServer # "down"
    /\ appServer' = "down"
    /\ run' = [s \in Sessions |->
                  LET r == IF run[s].remote = "running" THEN [run[s] EXCEPT !.remote = "over"] ELSE run[s]
                  IN  IF r.socket = "open" THEN SocketGone(r) ELSE r]
    /\ stop' = [s \in Sessions |->
                   IF stop[s].socket \in {"open", "silent"} THEN StopGone(stop[s]) ELSE stop[s]]
    /\ orphan' = [s \in Sessions |-> FALSE]
    /\ broken' = [s \in Sessions |-> broken[s] \/ run[s].socket = "open"]
    /\ UNCHANGED <<startup, thread>>
-----------------------------------------------------------------------------
RunSteps(s) == Probe(s) \/ Opened(s) \/ OpenFails(s) \/ Completed(s)
StopSteps(s) == StopOpened(s) \/ \E ok \in BOOLEAN : StopAnswered(s, ok)

Next ==
    \/ \E s \in Sessions :
        \/ Begin(s)
        \/ RunSteps(s)
        \/ \E ok \in BOOLEAN : Answered(s, ok)
        \/ TimesOut(s)
        \/ BeginStop(s)
        \/ StopSteps(s) \/ StopSilenced(s)
        \/ RemoteStarts(s) \/ RemoteCompletes(s) \/ OrphanEnds(s)
        \/ SocketLost(s)
    \/ StartupDone \/ AppReady \/ AppCrash

Spec == Init /\ [][Next]_vars

(***************************************************************************)
(* Promises that are settled are noticed, the attempts to find the process *)
(* ready run out, and a turn that hears nothing is timed out: one that is  *)
(* talked to for ever is at work.  Of the app-server nothing is assumed: a *)
(* stop that it does not answer has been silenced (StopSilenced).          *)
(***************************************************************************)
Fairness == /\ \A s \in Sessions : WF_vars(RunSteps(s)) /\ WF_vars(TimesOut(s)) /\ WF_vars(StopSteps(s))
            /\ WF_vars(StartupDone)
FairSpec == Spec /\ Fairness
-----------------------------------------------------------------------------
TypeOK ==
    /\ appServer \in {"down", "booting", "up"}
    /\ startup \in BOOLEAN
    /\ run \in [Sessions ->
          [phase : Requests \cup Settled \cup {"idle", "probing", "startup", "connecting", "completion"},
           socket : {"none", "connecting", "open", "closed"}, error : BOOLEAN,
           completion : {"pending", "resolved", "rejected"}, remote : {"none", "running", "over"}]]
    /\ stop \in [Sessions -> [phase : Settled \cup {"idle", "connecting", "initialize", "interrupt"},
                              socket : {"none", "connecting", "open", "closed", "silent"}]]
    /\ thread \in [Sessions -> BOOLEAN]
    /\ orphan \in [Sessions -> BOOLEAN]
    /\ broken \in [Sessions -> BOOLEAN]

(***************************************************************************)
(* A turn that nobody waits for runs on the app-server only after a socket *)
(* was lost or timed out: no failed handshake, no answer and no completion *)
(* of its own leaves a turn running that a retry would start again beside  *)
(* it on the same thread.                                                  *)
(***************************************************************************)
OneRemoteTurn == \A s \in Sessions : orphan[s] => broken[s]

(***************************************************************************)
(* A success is the completion, without an error, of the turn this         *)
(* coroutine started.  Only after a loss it may be that of the turn before *)
(* it, whose completion the listener cannot tell from its own.             *)
(***************************************************************************)
SuccessIsComplete ==
    \A s \in Sessions :
        run[s].phase = "done" => ~run[s].error /\ (run[s].remote = "over" \/ broken[s])

(***************************************************************************)
(* Every turn settles, whatever the process and the network do, as long as *)
(* the app-server does not talk to it for ever, with one exception: a      *)
(* request of the handshake is awaited on a closed socket or after the     *)
(* turn's completion.  The start is shared and gives up, a socket opens or *)
(* fails, an acknowledged turn completes or is rejected.  A stop settles   *)
(* only if the app-server answers it: it is stranded by a silent one and   *)
(* by a socket that closes under a request.                                *)
(***************************************************************************)
TurnSettlesOrStrands ==
    \A s \in Sessions :
        /\ run[s].phase \notin Settled \cup {"idle"} ~> run[s].phase \in Settled \/ Stranded(run[s])
        /\ stop[s].phase \notin Settled \cup {"idle"} ~> stop[s].phase \in Settled \/ StopStranded(stop[s])
=============================================================================
