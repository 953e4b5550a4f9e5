----------------------------- MODULE ChatClient -----------------------------
(***************************************************************************)
(* The store of the agent-chat browser client, V2 (packages/agent-chat-ui), *)
(* against the server that feeds it: which session is shown, the socket it *)
(* is fed by, the HTTP windows and snapshots that arrive beside the socket, *)
(* and what of a transcript the human sees.                                *)
(*                                                                         *)
(* A transcript is a count of changes (a new message or new content of     *)
(* one); a view is the set of changes it shows.  The server's websocket    *)
(* sends a window when it opens and every later change after it, in order, *)
(* so what a socket still carries is given by the first change it has not  *)
(* delivered.  Events of a socket that has been replaced are ignored by    *)
(* every listener, so only the present socket is kept.                     *)
(***************************************************************************)
EXTENDS Naturals, FiniteSets

CONSTANTS
    Sessions,    \* sessions that exist or may be created
    Known,       \* those that exist when the page is loaded
    Calls,       \* HTTP calls that may be in flight beside the opening of a session
    History,     \* session -> the changes its transcript has had by then
    MaxChanges   \* session -> bound: the changes its transcript will have had

None == "none"

ASSUME SessionsAssumption == None \notin Sessions /\ Known \subseteq Sessions
ASSUME ChangesAssumption == /\ MaxChanges \in [Sessions -> Nat]
                            /\ History \in [Sessions -> Nat]
                            /\ \A s \in Sessions : History[s] <= MaxChanges[s]

VARIABLES
    \* the server
    log,        \* session -> how many changes its transcript has had
    known,      \* the sessions that exist
    \* the client store
    active,     \* activeSessionId
    view,       \* session -> the changes messagesBySessionId shows
    socket,     \* the present websocket
    timer,      \* the session a reconnect is scheduled for
    opening,    \* the session whose openSession is the newest and still awaits its window
    cache,      \* session -> the cached promise of its bootstrap window
    calls,      \* call -> an HTTP call in flight
    \* history, read by properties only
    stale,      \* an answer older than the stream has replaced the view it had built
    overtaken   \* a session was created while an opening was awaited

vars == <<log, known, active, view, socket, timer, opening, cache, calls, stale, overtaken>>

NoSocket == [session |-> None, phase |-> "none", next |-> 0, resync |-> FALSE]
Call(kind, s, phase, at) == [kind |-> kind, session |-> s, phase |-> phase, at |-> at]
NoCall == Call(None, None, "none", 0)
Promise(phase, at, fresh) == [phase |-> phase, at |-> at, fresh |-> fresh]
NoPromise == Promise("none", 0, FALSE)
-----------------------------------------------------------------------------
\* connectSocket: the old socket is closed and its reconnect timer cleared.
ConnectSocket(s, resync) ==
    /\ socket' = [session |-> s, phase |-> "connecting", next |-> 0, resync |-> resync]
    /\ timer' = None
    /\ stale' = FALSE

\* Setting a window or snapshot of the first n changes over whatever was shown.
ReplaceView(s, n) ==
    /\ view' = [view EXCEPT ![s] = 1..n]
    /\ stale' = IF socket.session = s /\ socket.phase = "live" THEN n < socket.next ELSE stale

Init ==
    /\ log = History
    /\ known = Known
    /\ active = None
    /\ view = [s \in Sessions |-> {}]
    /\ socket = NoSocket
    /\ timer = None
    /\ opening = None
    /\ cache = [s \in Sessions |-> NoPromise]
    /\ calls = [c \in Calls |-> NoCall]
    /\ stale = FALSE
    /\ overtaken = FALSE
-----------------------------------------------------------------------------
(***************************************************************************)
(* What the human does.                                                    *)
(***************************************************************************)

\* openSession up to its await: a cached promise is shared for two seconds.
OpenSession(s) ==
    /\ s \in known
    /\ opening' = s
    /\ ConnectSocket(s, FALSE)
    /\ active' = s
    /\ cache' = IF cache[s].fresh THEN cache
                ELSE [cache EXCEPT ![s] = Promise("asked", 0, TRUE)]
    /\ overtaken' = FALSE
    /\ UNCHANGED <<log, known, view, calls>>

\* createSession and updateSession up to their awaits.
StartCall(c, kind, s) ==
    /\ calls[c] = NoCall
    /\ calls' = [calls EXCEPT ![c] = Call(kind, s, "asked", 0)]

Creating == {c \in Calls : calls[c].kind = "create" /\ calls[c].phase = "asked"}

CreateSession(c) ==
    /\ Cardinality(Creating) < Cardinality(Sessions \ known) \* bound: a name is left
    /\ StartCall(c, "create", None)
    /\ UNCHANGED <<log, known, active, view, socket, timer, opening, cache, stale, overtaken>>

UpdateSession(c, s) ==
    /\ s \in known
    /\ StartCall(c, "patch", s)
    /\ UNCHANGED <<log, known, active, view, socket, timer, opening, cache, stale, overtaken>>

\* close: the screen is left; what is in flight stays in flight.
Close ==
    /\ socket # NoSocket
    /\ socket' = NoSocket
    /\ timer' = None
    /\ stale' = FALSE
    /\ UNCHANGED <<log, known, active, view, opening, cache, calls, overtaken>>
-----------------------------------------------------------------------------
(***************************************************************************)
(* The answer to openSession.  A request that a newer openSession replaced *)
(* returns without effect, so only the newest is kept in opening.          *)
(***************************************************************************)

\* Mutant: the answer of an opening that was replaced is shown as well.
AnyOpening(s) == opening # None

\* requestId === openSessionRequestId
NewestOpening(s) == opening = s

OpenAnswered(s) ==
    /\ NewestOpening(s)
    /\ cache[s].phase = "computed"
    /\ opening' = None
    /\ active' = s
    /\ ReplaceView(s, cache[s].at)
    /\ UNCHANGED <<log, known, socket, timer, cache, calls, overtaken>>

\* A failed request leaves the cache; the socket goes on.
OpenFailed(s) ==
    /\ cache[s].phase = "asked"
    /\ cache' = [cache EXCEPT ![s] = NoPromise]
    /\ opening' = IF NewestOpening(s) THEN None ELSE opening
    /\ UNCHANGED <<log, known, active, view, socket, timer, calls, stale, overtaken>>

\* bootstrapRequestCacheTtlMs has passed: the next opening asks again.
CacheExpires(s) ==
    /\ cache[s].fresh
    /\ cache' = [cache EXCEPT ![s] = IF cache[s].phase = "computed" /\ opening # s
                                     THEN NoPromise ELSE Promise(cache[s].phase, cache[s].at, FALSE)]
    /\ UNCHANGED <<log, known, active, view, socket, timer, opening, calls, stale, overtaken>>
-----------------------------------------------------------------------------
(***************************************************************************)
(* The answers to the other calls.                                         *)
(***************************************************************************)

\* createSession: the new session becomes the active one and gets a socket.
CreateAnswered(c) ==
    /\ calls[c].kind = "create" /\ calls[c].phase = "computed"
    /\ calls' = [calls EXCEPT ![c] = NoCall]
    /\ LET s == calls[c].session IN
        /\ active' = s
        /\ view' = [view EXCEPT ![s] = 1..calls[c].at]
        /\ ConnectSocket(s, FALSE)
    /\ overtaken' = (opening # None)
    /\ UNCHANGED <<log, known, opening, cache>>

\* setSessionSnapshot after a PATCH, whatever session is shown by now.
UpdateAnswered(c) ==
    /\ calls[c].kind = "patch" /\ calls[c].phase = "computed"
    /\ calls' = [calls EXCEPT ![c] = NoCall]
    /\ ReplaceView(calls[c].session, calls[c].at)
    /\ UNCHANGED <<log, known, active, socket, timer, opening, cache, overtaken>>

\* resyncSessionWindow after a reconnect: dropped when the session is not shown any more.
ResyncAnswered(c) ==
    /\ calls[c].kind = "resync" /\ calls[c].phase = "computed"
    /\ calls' = [calls EXCEPT ![c] = NoCall]
    /\ IF active = calls[c].session
       THEN ReplaceView(calls[c].session, calls[c].at)
       ELSE UNCHANGED <<view, stale>>
    /\ UNCHANGED <<log, known, active, socket, timer, opening, cache, overtaken>>

CallFails(c) ==
    /\ calls[c] # NoCall
    /\ calls' = [calls EXCEPT ![c] = NoCall]
    /\ UNCHANGED <<log, known, active, view, socket, timer, opening, cache, stale, overtaken>>
-----------------------------------------------------------------------------
(***************************************************************************)
(* The server.                                                             *)
(***************************************************************************)

\* A message is appended or edited, and broadcast to the session's sockets.
Change(s) ==
    /\ s \in known
    /\ log[s] < MaxChanges[s]
    /\ log' = [log EXCEPT ![s] = @ + 1]
    /\ UNCHANGED <<known, active, view, socket, timer, opening, cache, calls, stale, overtaken>>

\* buildSessionWindow for an opening.
WindowComputed(s) ==
    /\ cache[s].phase = "asked"
    /\ cache' = [cache EXCEPT ![s] = Promise("computed", log[s], @.fresh)]
    /\ UNCHANGED <<log, known, active, view, socket, timer, opening, calls, stale, overtaken>>

\* buildSessionWindow or buildSessionSnapshot for another call; a PATCH may change the transcript.
CallComputed(c) ==
    /\ calls[c].phase = "asked"
    /\ IF calls[c].kind = "create"
       THEN \E s \in Sessions \ known :
                /\ known' = known \cup {s}
                /\ calls' = [calls EXCEPT ![c] = Call("create", s, "computed", log[s])]
       ELSE /\ calls' = [calls EXCEPT ![c] = Call(@.kind, @.session, "computed", log[@.session])]
            /\ UNCHANGED known
    /\ UNCHANGED <<log, active, view, socket, timer, opening, cache, stale, overtaken>>

\* websocket.open: the socket is registered and given a window in one stretch.
SocketAccepted ==
    /\ socket.phase = "connecting"
    /\ socket' = [socket EXCEPT !.phase = "accepted", !.next = log[socket.session]]
    /\ UNCHANGED <<log, known, active, view, timer, opening, cache, calls, stale, overtaken>>
-----------------------------------------------------------------------------
(***************************************************************************)
(* The listeners of the socket.                                            *)
(***************************************************************************)

\* open: a reconnected socket also fetches the window by HTTP.
SocketOpened ==
    /\ socket.phase = "accepted"
    /\ socket' = [socket EXCEPT !.phase = "opened", !.resync = FALSE]
    /\ timer' = None
    /\ IF socket.resync /\ active = socket.session
       THEN \E c \in Calls : StartCall(c, "resync", active)
       ELSE UNCHANGED calls
    /\ UNCHANGED <<log, known, active, view, opening, cache, stale, overtaken>>

\* Mutant: an update shows its messages instead of merging them.
OnlyUpdate(shown, n) == {n}

\* mergeMessages for the messages of session.updated
MergeUpdate(shown, n) == shown \cup {n}

\* session.window, then session.updated for every later change.
Deliver ==
    /\ \/ /\ socket.phase = "opened"
          /\ socket' = [socket EXCEPT !.phase = "live"]
          /\ IF active = socket.session
             THEN view' = [view EXCEPT ![active] = 1..socket.next] /\ stale' = FALSE
             ELSE UNCHANGED <<view, stale>>
       \/ /\ socket.phase = "live"
          /\ socket.next < log[socket.session]
          /\ socket' = [socket EXCEPT !.next = @ + 1]
          /\ view' = IF active = socket.session
                     THEN [view EXCEPT ![active] = MergeUpdate(@, socket.next + 1)] ELSE view
          /\ UNCHANGED stale
    /\ UNCHANGED <<log, known, active, timer, opening, cache, calls, overtaken>>

\* Mutant: a socket that fails before it opened is not tried again.
ReconnectOpened == IF socket.phase = "live" THEN socket.session ELSE timer

\* scheduleSocketReconnect: not when the session is left or a timer runs.
ScheduleReconnect == IF timer = None /\ active = socket.session THEN socket.session ELSE timer

\* error and close
SocketLost ==
    /\ socket.phase \in {"connecting", "accepted", "opened", "live"}
    /\ socket' = [socket EXCEPT !.phase = "dead", !.next = 0, !.resync = FALSE]
    /\ timer' = ScheduleReconnect
    /\ UNCHANGED <<log, known, active, view, opening, cache, calls, stale, overtaken>>

ReconnectTimer ==
    /\ timer # None
    /\ IF active = timer
       THEN ConnectSocket(timer, TRUE)
       ELSE timer' = None /\ UNCHANGED <<socket, stale>>
    /\ UNCHANGED <<log, known, active, view, opening, cache, calls, overtaken>>
-----------------------------------------------------------------------------
Human == \/ \E s \in Sessions : OpenSession(s)
         \/ \E c \in Calls : CreateSession(c)
         \/ \E c \in Calls, s \in Sessions : UpdateSession(c, s)
         \/ Close

Failures == \/ \E s \in Sessions : OpenFailed(s)
            \/ \E c \in Calls : CallFails(c)
            \/ SocketLost

Answers == \/ \E s \in Sessions : WindowComputed(s) \/ OpenAnswered(s)
           \/ \E c \in Calls : CallComputed(c) \/ CreateAnswered(c) \/ UpdateAnswered(c) \/ ResyncAnswered(c)

Stream == SocketAccepted \/ SocketOpened \/ Deliver \/ ReconnectTimer

Next == \/ Human
        \/ Failures
        \/ Answers
        \/ Stream
        \/ \E s \in Sessions : Change(s) \/ CacheExpires(s)

Spec == Init /\ [][Next]_vars

\* Timers fire, and a network that is not failing delivers what is under way.
Fairness == WF_vars(Answers) /\ WF_vars(Stream)
FairSpec == Spec /\ Fairness
-----------------------------------------------------------------------------
TypeOK ==
    /\ log \in [Sessions -> Nat]
    /\ \A s \in Sessions : log[s] <= MaxChanges[s]
    /\ known \subseteq Sessions
    /\ active \in Sessions \cup {None}
    /\ view \in [Sessions -> SUBSET Nat]
    /\ socket \in [session : Sessions \cup {None}, next : Nat, resync : BOOLEAN,
                   phase : {"none", "connecting", "accepted", "opened", "live", "dead"}]
    /\ timer \in Sessions \cup {None}
    /\ opening \in Sessions \cup {None}
    /\ cache \in [Sessions -> [phase : {"none", "asked", "computed"}, at : Nat, fresh : BOOLEAN]]
    /\ calls \in [Calls -> [kind : {None, "create", "patch", "resync"}, session : Sessions \cup {None},
                            phase : {"none", "asked", "computed"}, at : Nat]]
    /\ stale \in BOOLEAN
    /\ overtaken \in BOOLEAN

(***************************************************************************)
(* What the socket has delivered is shown: of the session on the screen    *)
(* the human sees every change up to the one delivered last, through       *)
(* windows, merges, reconnections and switches, unless an HTTP answer      *)
(* older than the stream has replaced the view (see the README).           *)
(***************************************************************************)
StreamIsShown ==
    socket.phase = "live" /\ socket.session = active /\ ~stale => 1..socket.next \subseteq view[active]

(***************************************************************************)
(* The socket belongs to the session on the screen, and a reconnect is     *)
(* scheduled only for it, unless a session was created while an opening    *)
(* was still awaited: the late answer then takes the screen back and       *)
(* leaves the socket with the session that was created.                    *)
(***************************************************************************)
SocketFollowsScreen ==
    ~overtaken => /\ socket.session \in {None, active}
                  /\ timer \in {None, active}

(***************************************************************************)
(* Once the human and the network leave it alone, a screen that is not     *)
(* closed comes to show the whole transcript: a lost socket is replaced,   *)
(* however often it was lost before.                                       *)
(***************************************************************************)
Disturbed == Human \/ Failures
Calm == <>[][~Disturbed]_vars
CaughtUp == socket = NoSocket \/ stale \/ overtaken \/ view[active] = 1..log[active]
CalmScreenCatchesUp == Calm => <>[]CaughtUp
=============================================================================
