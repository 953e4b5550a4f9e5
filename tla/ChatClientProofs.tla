-------------------------- MODULE ChatClientProofs --------------------------
(***************************************************************************)
(* Proofs about ChatClient, for any sessions, calls and transcripts: the   *)
(* store is type correct, what the socket delivered is shown, and the      *)
(* socket follows the screen.                                              *)
(***************************************************************************)
EXTENDS ChatClient, TLAPS

(***************************************************************************)
(* The strengthening: a socket and an answer belong to a session, and an   *)
(* opening that is still awaited to the session on the screen, unless a    *)
(* created session has overtaken it.                                       *)
(***************************************************************************)
SocketHasSession == socket.phase # "none" => socket.session \in Sessions
CallsHaveSessions ==
    \A c \in Calls : calls[c].phase # "none" /\ ~(calls[c].kind = "create" /\ calls[c].phase = "asked")
                        => calls[c].session \in Sessions
OpeningIsOfScreen == ~overtaken /\ opening # None => active = opening

IInv == /\ TypeOK
        /\ SocketHasSession
        /\ CallsHaveSessions
        /\ StreamIsShown
        /\ SocketFollowsScreen
        /\ OpeningIsOfScreen

\* The parts of the state, and what each has for a type.
SocketType == [session : Sessions \cup {None}, next : Nat, resync : BOOLEAN,
               phase : {"none", "connecting", "accepted", "opened", "live", "dead"}]
PromiseType == [phase : {"none", "asked", "computed"}, at : Nat, fresh : BOOLEAN]
CallType == [kind : {None, "create", "patch", "resync"}, session : Sessions \cup {None},
             phase : {"none", "asked", "computed"}, at : Nat]

USE DEF NoSocket, NoCall, NoPromise, Call, Promise

\* The first n changes are a set of changes.
LEMMA FirstChanges == \A n \in Nat : 1..n \in SUBSET Nat
  OBVIOUS

\* Showing other changes of a session keeps the type of the views.
LEMMA ViewType ==
  ASSUME view \in [Sessions -> SUBSET Nat], NEW s, NEW n \in Nat
  PROVE  [view EXCEPT ![s] = 1..n] \in [Sessions -> SUBSET Nat]
  BY FirstChanges

\* Replacing one call by another keeps the type of the calls.
LEMMA CallsType ==
  ASSUME calls \in [Calls -> CallType], NEW c, NEW x \in CallType
  PROVE  [calls EXCEPT ![c] = x] \in [Calls -> CallType]
  OBVIOUS

\* Replacing one promise by another keeps the type of the cache.
LEMMA CacheType ==
  ASSUME cache \in [Sessions -> PromiseType], NEW s, NEW x \in PromiseType
  PROVE  [cache EXCEPT ![s] = x] \in [Sessions -> PromiseType]
  OBVIOUS

\* What a started call leaves: its slot holds the call, and the rest are as before.
LEMMA StartedCall ==
  ASSUME TypeOK, CallsHaveSessions, NEW c \in Calls, NEW kind \in {"create", "patch", "resync"},
         NEW s \in Sessions \cup {None}, StartCall(c, kind, s),
         kind # "create" => s \in Sessions
  PROVE  calls' \in [Calls -> CallType] /\ CallsHaveSessions'
<1>1. Call(kind, s, "asked", 0) \in CallType
    BY DEF CallType
<1>2. calls' = [calls EXCEPT ![c] = Call(kind, s, "asked", 0)]
    BY DEF StartCall
<1>3. calls \in [Calls -> CallType]
    BY DEF TypeOK, CallType
<1>4. calls' \in [Calls -> CallType]
    BY <1>1, <1>2, <1>3, CallsType
<1>5. CallsHaveSessions'
    BY <1>2, <1>3 DEF CallsHaveSessions, CallType
<1> QED BY <1>4, <1>5

\* What an emptied slot leaves.
LEMMA EndedCall ==
  ASSUME TypeOK, CallsHaveSessions, NEW c \in Calls, calls' = [calls EXCEPT ![c] = NoCall]
  PROVE  calls' \in [Calls -> CallType] /\ CallsHaveSessions'
<1>1. calls \in [Calls -> CallType] /\ NoCall \in CallType
    BY DEF TypeOK, CallType
<1>2. calls' \in [Calls -> CallType]
    BY <1>1, CallsType
<1>3. ASSUME NEW d \in Calls, calls'[d].phase # "none",
             ~(calls'[d].kind = "create" /\ calls'[d].phase = "asked")
      PROVE  calls'[d].session \in Sessions
    <2>1. CASE d = c
        <3>1. calls'[d] = NoCall
            BY <1>1, <2>1
        <3>2. FALSE
            BY <1>3, <3>1
        <3> QED BY <3>2
    <2>2. CASE d # c
        <3>1. calls'[d] = calls[d]
            BY <1>1, <2>2
        <3> QED BY <1>3, <3>1 DEF CallsHaveSessions
    <2> QED BY <2>1, <2>2
<1> QED BY <1>2, <1>3 DEF CallsHaveSessions

\* What a new socket leaves.
LEMMA Connected ==
  ASSUME NEW s \in Sessions, NEW resync \in BOOLEAN, ConnectSocket(s, resync)
  PROVE  /\ socket' \in SocketType /\ socket'.session = s /\ socket'.phase = "connecting"
         /\ SocketHasSession' /\ StreamIsShown' /\ timer' = None /\ stale' = FALSE
  BY DEF ConnectSocket, SocketType, SocketHasSession, StreamIsShown

\* An answer older than the stream is recorded as stale, a newer one covers the stream.
LEMMA Replaced ==
  ASSUME TypeOK, SocketHasSession, StreamIsShown, NEW s \in Sessions, NEW n \in Nat,
         ReplaceView(s, n), UNCHANGED socket, active' = active \/ active' = s
  PROVE  view' \in [Sessions -> SUBSET Nat] /\ stale' \in BOOLEAN /\ StreamIsShown'
<1>1. view \in [Sessions -> SUBSET Nat] /\ socket \in SocketType /\ stale \in BOOLEAN
    BY DEF TypeOK, SocketType
<1>2. view' = [view EXCEPT ![s] = 1..n]
    BY DEF ReplaceView
<1>3. view' \in [Sessions -> SUBSET Nat]
    BY <1>1, <1>2, ViewType
<1>4. stale' \in BOOLEAN
    <2>1. CASE socket.session = s /\ socket.phase = "live"
        <3>1. stale' = (n < socket.next)
            BY <2>1 DEF ReplaceView
        <3> QED BY <3>1
    <2>2. CASE ~(socket.session = s /\ socket.phase = "live")
        <3>1. stale' = stale
            BY <2>2 DEF ReplaceView
        <3> QED BY <1>1, <3>1
    <2> QED BY <2>1, <2>2
<1>5. ASSUME socket.phase = "live", socket.session = active', ~stale'
      PROVE  1..socket.next \subseteq view'[active']
    <2>1. active' \in Sessions
        BY <1>5 DEF SocketHasSession
    <2>2. CASE active' = s
        <3>1. ~(n < socket.next)
            BY <1>5, <2>2 DEF ReplaceView
        <3>2. view'[s] = 1..n
            BY <1>1, <1>2
        <3> QED BY <1>1, <2>2, <3>1, <3>2 DEF SocketType
    <2>3. CASE active' # s
        <3>1. active' = active /\ view'[active] = view[active] /\ ~stale
            BY <1>1, <1>2, <1>5, <2>1, <2>3 DEF ReplaceView
        <3> QED BY <1>5, <3>1 DEF StreamIsShown
    <2> QED BY <2>2, <2>3
<1>6. StreamIsShown'
    BY <1>5 DEF StreamIsShown
<1> QED BY <1>3, <1>4, <1>6
-----------------------------------------------------------------------------
(***************************************************************************)
(* The strengthening holds at the start and is kept by every step.         *)
(***************************************************************************)
LEMMA InitInvariant == Init => IInv
<1> SUFFICES ASSUME Init PROVE IInv
    OBVIOUS
<1>1. TypeOK
    BY SessionsAssumption, ChangesAssumption DEF Init, TypeOK
<1>2. SocketHasSession /\ CallsHaveSessions /\ StreamIsShown /\ SocketFollowsScreen /\ OpeningIsOfScreen
    BY DEF Init, SocketHasSession, CallsHaveSessions, StreamIsShown, SocketFollowsScreen, OpeningIsOfScreen
<1> QED BY <1>1, <1>2 DEF IInv

LEMMA StepInvariant == IInv /\ [Next]_vars => IInv'
<1> SUFFICES ASSUME IInv, [Next]_vars PROVE IInv'
    OBVIOUS
<1> USE SessionsAssumption, ChangesAssumption
<1> DEFINE Parts == /\ SocketHasSession' /\ CallsHaveSessions' /\ StreamIsShown'
                    /\ SocketFollowsScreen' /\ OpeningIsOfScreen'
<1>0. /\ TypeOK /\ SocketHasSession /\ CallsHaveSessions /\ StreamIsShown
      /\ SocketFollowsScreen /\ OpeningIsOfScreen
    BY DEF IInv
<1>a. /\ socket \in SocketType /\ calls \in [Calls -> CallType] /\ cache \in [Sessions -> PromiseType]
      /\ view \in [Sessions -> SUBSET Nat] /\ log \in [Sessions -> Nat] /\ stale \in BOOLEAN /\ overtaken \in BOOLEAN
    BY <1>0 DEF TypeOK, SocketType, CallType, PromiseType
<1>1. ASSUME NEW s \in Sessions, OpenSession(s) PROVE IInv'
    <2>1. ConnectSocket(s, FALSE)
        BY <1>1 DEF OpenSession
    <2>2. cache' \in [Sessions -> PromiseType]
        <3>1. Promise("asked", 0, TRUE) \in PromiseType
            BY DEF PromiseType
        <3> QED BY <1>1, <1>a, <3>1, CacheType DEF OpenSession
    <2>3. TypeOK'
        BY <1>0, <1>1, <2>1, <2>2, Connected DEF OpenSession, TypeOK, SocketType, PromiseType
    <2>4. Parts
        BY <1>0, <1>1, <2>1, Connected DEF OpenSession, CallsHaveSessions, SocketFollowsScreen, OpeningIsOfScreen
    <2> QED BY <2>3, <2>4 DEF IInv
<1>2. ASSUME NEW c \in Calls, CreateSession(c) PROVE IInv'
    <2>1. StartCall(c, "create", None)
        BY <1>2 DEF CreateSession
    <2>2. calls' \in [Calls -> CallType] /\ CallsHaveSessions'
        BY <1>0, <2>1, StartedCall
    <2>3. TypeOK'
        BY <1>0, <1>2, <2>2 DEF CreateSession, TypeOK, CallType
    <2>4. Parts
        BY <1>0, <1>2, <2>2 DEF CreateSession, SocketHasSession, StreamIsShown, SocketFollowsScreen, OpeningIsOfScreen
    <2> QED BY <2>3, <2>4 DEF IInv
<1>3. ASSUME NEW c \in Calls, NEW s \in Sessions, UpdateSession(c, s) PROVE IInv'
    <2>1. StartCall(c, "patch", s)
        BY <1>3 DEF UpdateSession
    <2>2. calls' \in [Calls -> CallType] /\ CallsHaveSessions'
        BY <1>0, <2>1, StartedCall
    <2>3. TypeOK'
        BY <1>0, <1>3, <2>2 DEF UpdateSession, TypeOK, CallType
    <2>4. Parts
        BY <1>0, <1>3, <2>2 DEF UpdateSession, SocketHasSession, StreamIsShown, SocketFollowsScreen, OpeningIsOfScreen
    <2> QED BY <2>3, <2>4 DEF IInv
<1>4. CASE Close
    <2>1. TypeOK'
        BY <1>0, <1>4 DEF Close, TypeOK
    <2>2. Parts
        BY <1>0, <1>4 DEF Close, SocketHasSession, CallsHaveSessions, StreamIsShown, SocketFollowsScreen, OpeningIsOfScreen
    <2> QED BY <2>1, <2>2 DEF IInv
<1>5. ASSUME NEW s \in Sessions, OpenAnswered(s) PROVE IInv'
    <2>1. ReplaceView(s, cache[s].at) /\ cache[s].at \in Nat /\ active' = s /\ UNCHANGED socket
        BY <1>5, <1>a DEF OpenAnswered, PromiseType
    <2>2. view' \in [Sessions -> SUBSET Nat] /\ stale' \in BOOLEAN /\ StreamIsShown'
        BY <1>0, <2>1, Replaced
    <2>3. TypeOK'
        BY <1>0, <1>5, <2>2 DEF OpenAnswered, TypeOK
    <2>4. Parts
        BY <1>0, <1>5, <2>2 DEF OpenAnswered, NewestOpening, SocketHasSession, CallsHaveSessions,
                                SocketFollowsScreen, OpeningIsOfScreen
    <2> QED BY <2>3, <2>4 DEF IInv
<1>6. ASSUME NEW s \in Sessions, OpenFailed(s) PROVE IInv'
    <2>1. cache' \in [Sessions -> PromiseType]
        <3>1. NoPromise \in PromiseType
            BY DEF PromiseType
        <3> QED BY <1>6, <1>a, <3>1, CacheType DEF OpenFailed
    <2>2. TypeOK'
        BY <1>0, <1>6, <2>1 DEF OpenFailed, TypeOK, PromiseType
    <2>3. Parts
        BY <1>0, <1>6 DEF OpenFailed, NewestOpening, SocketHasSession, CallsHaveSessions, StreamIsShown,
                          SocketFollowsScreen, OpeningIsOfScreen
    <2> QED BY <2>2, <2>3 DEF IInv
<1>7. ASSUME NEW s \in Sessions, CacheExpires(s) PROVE IInv'
    <2>1. cache' \in [Sessions -> PromiseType]
        <3>1. NoPromise \in PromiseType /\ Promise(cache[s].phase, cache[s].at, FALSE) \in PromiseType
            BY <1>a DEF PromiseType
        <3> QED BY <1>7, <1>a, <3>1, CacheType DEF CacheExpires
    <2>2. TypeOK'
        BY <1>0, <1>7, <2>1 DEF CacheExpires, TypeOK, PromiseType
    <2>3. Parts
        BY <1>0, <1>7 DEF CacheExpires, SocketHasSession, CallsHaveSessions, StreamIsShown,
                          SocketFollowsScreen, OpeningIsOfScreen
    <2> QED BY <2>2, <2>3 DEF IInv
<1>8. ASSUME NEW c \in Calls, CreateAnswered(c) PROVE IInv'
    <2> DEFINE s == calls[c].session
    <2>1. s \in Sessions /\ calls[c].at \in Nat
        BY <1>0, <1>8, <1>a DEF CreateAnswered, CallsHaveSessions, CallType
    <2>2. ConnectSocket(s, FALSE) /\ active' = s /\ view' = [view EXCEPT ![s] = 1..calls[c].at]
        BY <1>8 DEF CreateAnswered
    <2>3. view' \in [Sessions -> SUBSET Nat]
        BY <1>a, <2>1, <2>2, ViewType
    <2>4. calls' \in [Calls -> CallType] /\ CallsHaveSessions'
        BY <1>0, <1>8, EndedCall DEF CreateAnswered
    <2>5. overtaken' = (opening # None) /\ opening' = opening /\ UNCHANGED <<log, known, cache>>
        BY <1>8 DEF CreateAnswered
    <2>6. overtaken' \in BOOLEAN
        BY <2>5
    <2>7. /\ socket' \in SocketType /\ socket'.session = s /\ socket'.phase = "connecting"
          /\ SocketHasSession' /\ StreamIsShown' /\ timer' = None /\ stale' = FALSE
        BY <2>1, <2>2, Connected
    <2>8. TypeOK'
        BY <1>0, <2>1, <2>2, <2>3, <2>4, <2>5, <2>6, <2>7 DEF TypeOK, SocketType, CallType
    <2>9. Parts
        BY <1>0, <2>2, <2>4, <2>5, <2>7 DEF SocketFollowsScreen, OpeningIsOfScreen
    <2> QED BY <2>8, <2>9 DEF IInv
<1>9. ASSUME NEW c \in Calls, UpdateAnswered(c) PROVE IInv'
    <2>1. calls[c].session \in Sessions /\ calls[c].at \in Nat
        BY <1>0, <1>9, <1>a DEF UpdateAnswered, CallsHaveSessions, CallType
    <2>2. view' \in [Sessions -> SUBSET Nat] /\ stale' \in BOOLEAN /\ StreamIsShown'
        BY <1>0, <1>9, <2>1, Replaced DEF UpdateAnswered
    <2>3. calls' \in [Calls -> CallType] /\ CallsHaveSessions'
        BY <1>0, <1>9, EndedCall DEF UpdateAnswered
    <2>4. TypeOK'
        BY <1>0, <1>9, <2>2, <2>3 DEF UpdateAnswered, TypeOK, CallType
    <2>5. Parts
        BY <1>0, <1>9, <2>2, <2>3 DEF UpdateAnswered, SocketHasSession, SocketFollowsScreen, OpeningIsOfScreen
    <2> QED BY <2>4, <2>5 DEF IInv
<1>10. ASSUME NEW c \in Calls, ResyncAnswered(c) PROVE IInv'
    <2>1. calls[c].session \in Sessions /\ calls[c].at \in Nat
        BY <1>0, <1>10, <1>a DEF ResyncAnswered, CallsHaveSessions, CallType
    <2>2. view' \in [Sessions -> SUBSET Nat] /\ stale' \in BOOLEAN /\ StreamIsShown'
        <3>1. CASE active = calls[c].session
            BY <1>0, <1>10, <2>1, <3>1, Replaced DEF ResyncAnswered
        <3>2. CASE active # calls[c].session
            BY <1>0, <1>a, <1>10, <3>2 DEF ResyncAnswered, StreamIsShown
        <3> QED BY <3>1, <3>2
    <2>3. calls' \in [Calls -> CallType] /\ CallsHaveSessions'
        BY <1>0, <1>10, EndedCall DEF ResyncAnswered
    <2>4. TypeOK'
        BY <1>0, <1>10, <2>2, <2>3 DEF ResyncAnswered, TypeOK, CallType
    <2>5. Parts
        BY <1>0, <1>10, <2>2, <2>3 DEF ResyncAnswered, SocketHasSession, SocketFollowsScreen, OpeningIsOfScreen
    <2> QED BY <2>4, <2>5 DEF IInv
<1>11. ASSUME NEW c \in Calls, CallFails(c) PROVE IInv'
    <2>1. calls' \in [Calls -> CallType] /\ CallsHaveSessions'
        BY <1>0, <1>11, EndedCall DEF CallFails
    <2>2. TypeOK'
        BY <1>0, <1>11, <2>1 DEF CallFails, TypeOK, CallType
    <2>3. Parts
        BY <1>0, <1>11, <2>1 DEF CallFails, SocketHasSession, StreamIsShown, SocketFollowsScreen, OpeningIsOfScreen
    <2> QED BY <2>2, <2>3 DEF IInv
<1>12. ASSUME NEW s \in Sessions, Change(s) PROVE IInv'
    <2>1. TypeOK'
        BY <1>0, <1>a, <1>12 DEF Change, TypeOK
    <2>2. Parts
        BY <1>0, <1>12 DEF Change, SocketHasSession, CallsHaveSessions, StreamIsShown, SocketFollowsScreen, OpeningIsOfScreen
    <2> QED BY <2>1, <2>2 DEF IInv
<1>13. ASSUME NEW s \in Sessions, WindowComputed(s) PROVE IInv'
    <2>1. cache' \in [Sessions -> PromiseType]
        <3>1. Promise("computed", log[s], cache[s].fresh) \in PromiseType
            BY <1>a DEF PromiseType
        <3>2. cache' = [cache EXCEPT ![s] = Promise("computed", log[s], cache[s].fresh)]
            BY <1>13 DEF WindowComputed
        <3> QED BY <1>a, <3>1, <3>2, CacheType
    <2>2. TypeOK'
        BY <1>0, <1>13, <2>1 DEF WindowComputed, TypeOK, PromiseType
    <2>3. Parts
        BY <1>0, <1>13 DEF WindowComputed, SocketHasSession, CallsHaveSessions, StreamIsShown,
                           SocketFollowsScreen, OpeningIsOfScreen
    <2> QED BY <2>2, <2>3 DEF IInv
<1>14. ASSUME NEW c \in Calls, CallComputed(c) PROVE IInv'
    <2>1. /\ UNCHANGED <<log, active, view, socket, timer, opening, cache, stale, overtaken>>
          /\ known' \subseteq Sessions
          /\ \E x \in CallType : x.session \in Sessions /\ calls' = [calls EXCEPT ![c] = x]
        <3>1. CASE calls[c].kind = "create"
            <4>1. PICK s \in Sessions \ known : /\ known' = known \cup {s}
                                                /\ calls' = [calls EXCEPT ![c] = Call("create", s, "computed", log[s])]
                BY <1>14, <3>1 DEF CallComputed
            <4>2. Call("create", s, "computed", log[s]) \in CallType
                BY <1>a, <4>1 DEF CallType
            <4> QED BY <1>0, <1>14, <4>1, <4>2 DEF CallComputed, TypeOK
        <3>2. CASE calls[c].kind # "create"
            <4> DEFINE s == calls[c].session
            <4>1. calls' = [calls EXCEPT ![c] = Call(calls[c].kind, s, "computed", log[s])]
                BY <1>14, <3>2 DEF CallComputed
            <4>2. s \in Sessions
                BY <1>0, <1>14, <1>a, <3>2 DEF CallComputed, CallsHaveSessions, CallType
            <4>3. Call(calls[c].kind, s, "computed", log[s]) \in CallType
                BY <1>a, <4>2 DEF CallType
            <4> QED BY <1>0, <1>14, <3>2, <4>1, <4>2, <4>3 DEF CallComputed, TypeOK
        <3> QED BY <3>1, <3>2
    <2>2. PICK x \in CallType : x.session \in Sessions /\ calls' = [calls EXCEPT ![c] = x]
        BY <2>1
    <2>3. calls' \in [Calls -> CallType]
        BY <1>a, <2>2, CallsType
    <2>4. CallsHaveSessions'
        BY <1>0, <1>a, <2>2 DEF CallsHaveSessions
    <2>5. TypeOK'
        BY <1>0, <2>1, <2>3 DEF TypeOK, CallType
    <2>6. Parts
        BY <1>0, <2>1, <2>4 DEF SocketHasSession, StreamIsShown, SocketFollowsScreen, OpeningIsOfScreen
    <2> QED BY <2>5, <2>6 DEF IInv
<1>15. CASE SocketAccepted
    <2>1. socket.session \in Sessions /\ log[socket.session] \in Nat
        BY <1>0, <1>a, <1>15 DEF SocketAccepted, SocketHasSession
    <2>2. TypeOK'
        BY <1>0, <1>15, <2>1 DEF SocketAccepted, TypeOK
    <2>3. Parts
        BY <1>0, <1>a, <1>15, <2>1 DEF SocketAccepted, SocketType, SocketHasSession, CallsHaveSessions, StreamIsShown,
                                 SocketFollowsScreen, OpeningIsOfScreen
    <2> QED BY <2>2, <2>3 DEF IInv
<1>16. CASE SocketOpened
    <2>1. socket.session \in Sessions
        BY <1>0, <1>16 DEF SocketOpened, SocketHasSession
    <2>2. calls' \in [Calls -> CallType] /\ CallsHaveSessions'
        <3>1. CASE socket.resync /\ active = socket.session
            <4>1. PICK c \in Calls : StartCall(c, "resync", active)
                BY <1>16, <3>1 DEF SocketOpened
            <4> QED BY <1>0, <2>1, <3>1, <4>1, StartedCall
        <3>2. CASE ~(socket.resync /\ active = socket.session)
            BY <1>0, <1>a, <1>16, <3>2 DEF SocketOpened, CallsHaveSessions
        <3> QED BY <3>1, <3>2
    <2>3. TypeOK'
        BY <1>0, <1>16, <2>2 DEF SocketOpened, TypeOK, CallType
    <2>4. Parts
        BY <1>0, <1>a, <1>16, <2>1, <2>2 DEF SocketOpened, SocketType, SocketHasSession, StreamIsShown,
                                 SocketFollowsScreen, OpeningIsOfScreen
    <2> QED BY <2>3, <2>4 DEF IInv
<1>17. CASE Deliver
    <2>1. /\ socket.session \in Sessions /\ socket.next \in Nat /\ socket'.session = socket.session
          /\ socket'.phase = "live" /\ socket' \in SocketType
          /\ UNCHANGED <<log, known, active, timer, opening, cache, calls, overtaken>>
        <3>1. socket.session \in Sessions /\ socket.next \in Nat
            BY <1>0, <1>a, <1>17 DEF Deliver, SocketHasSession, SocketType
        <3>2. CASE socket.phase = "opened"
            <4>1. socket' = [socket EXCEPT !.phase = "live"]
                BY <1>17, <3>2 DEF Deliver
            <4> QED BY <1>a, <1>17, <3>1, <4>1 DEF Deliver, SocketType
        <3>3. CASE socket.phase = "live"
            <4>1. socket' = [socket EXCEPT !.next = socket.next + 1]
                BY <1>17, <3>3 DEF Deliver
            <4>2. socket.next + 1 \in Nat
                BY <3>1
            <4> QED BY <1>a, <1>17, <3>1, <3>3, <4>1, <4>2 DEF Deliver, SocketType
        <3> QED BY <1>17, <3>2, <3>3 DEF Deliver
    <2>2. view' \in [Sessions -> SUBSET Nat] /\ stale' \in BOOLEAN /\ StreamIsShown'
        <3>1. CASE socket.phase = "opened"
            <4>1. socket'.next = socket.next
                BY <1>a, <1>17, <3>1 DEF Deliver, SocketType
            <4>2. CASE active = socket.session
                <5>1. view' = [view EXCEPT ![active] = 1..socket.next] /\ stale' = FALSE
                    BY <1>17, <3>1, <4>2 DEF Deliver
                <5>2. view'[active] = 1..socket.next
                    BY <1>a, <2>1, <4>2, <5>1
                <5>3. view' \in [Sessions -> SUBSET Nat]
                    BY <1>a, <2>1, <5>1, ViewType
                <5> QED BY <2>1, <4>1, <5>1, <5>2, <5>3 DEF StreamIsShown
            <4>3. CASE active # socket.session
                BY <1>a, <1>17, <2>1, <3>1, <4>3 DEF Deliver, StreamIsShown
            <4> QED BY <4>2, <4>3
        <3>2. CASE socket.phase = "live"
            <4>1. socket'.next = socket.next + 1 /\ stale' = stale
                BY <1>a, <1>17, <3>2 DEF Deliver, SocketType
            <4>2. CASE active = socket.session
                <5>1. view' = [view EXCEPT ![active] = view[active] \cup {socket.next + 1}]
                    BY <1>17, <3>2, <4>2 DEF Deliver, MergeUpdate
                <5>2. view'[active] = view[active] \cup {socket.next + 1} /\ view' \in [Sessions -> SUBSET Nat]
                    BY <1>a, <2>1, <4>2, <5>1
                <5>3. 1..(socket.next + 1) = 1..socket.next \cup {socket.next + 1}
                    BY <2>1
                <5> QED BY <1>0, <1>a, <2>1, <3>2, <4>1, <4>2, <5>2, <5>3 DEF StreamIsShown
            <4>3. CASE active # socket.session
                BY <1>a, <1>17, <2>1, <3>2, <4>3 DEF Deliver, StreamIsShown
            <4> QED BY <4>2, <4>3
        <3> QED BY <1>17, <3>1, <3>2 DEF Deliver
    <2>3. TypeOK'
        BY <1>0, <2>1, <2>2 DEF TypeOK, SocketType
    <2>4. Parts
        BY <1>0, <2>1, <2>2 DEF SocketHasSession, CallsHaveSessions, SocketFollowsScreen, OpeningIsOfScreen
    <2> QED BY <2>3, <2>4 DEF IInv
<1>18. CASE SocketLost
    <2>1. /\ socket' \in SocketType /\ socket'.session = socket.session /\ socket'.phase = "dead"
          /\ socket.session \in Sessions
        BY <1>0, <1>a, <1>18 DEF SocketLost, SocketHasSession, SocketType
    <2>2. TypeOK'
        BY <1>0, <1>18, <2>1 DEF SocketLost, ScheduleReconnect, TypeOK, SocketType
    <2>3. Parts
        BY <1>0, <1>18, <2>1 DEF SocketLost, ScheduleReconnect, SocketHasSession, CallsHaveSessions, StreamIsShown,
                                 SocketFollowsScreen, OpeningIsOfScreen
    <2> QED BY <2>2, <2>3 DEF IInv
<1>19. CASE ReconnectTimer
    <2>0. timer \in Sessions
        BY <1>0, <1>19 DEF ReconnectTimer, TypeOK
    <2>1. CASE active = timer
        <3>1. ConnectSocket(timer, TRUE)
            BY <1>19, <2>1 DEF ReconnectTimer
        <3>2. TypeOK'
            BY <1>0, <1>19, <2>0, <3>1, Connected DEF ReconnectTimer, TypeOK, SocketType
        <3>3. Parts
            BY <1>0, <1>19, <2>0, <2>1, <3>1, Connected
            DEF ReconnectTimer, CallsHaveSessions, SocketFollowsScreen, OpeningIsOfScreen
        <3> QED BY <3>2, <3>3 DEF IInv
    <2>2. CASE active # timer
        <3>1. TypeOK'
            BY <1>0, <1>19, <2>2 DEF ReconnectTimer, TypeOK
        <3>2. Parts
            BY <1>0, <1>19, <2>2 DEF ReconnectTimer, SocketHasSession, CallsHaveSessions, StreamIsShown,
                                     SocketFollowsScreen, OpeningIsOfScreen
        <3> QED BY <3>1, <3>2 DEF IInv
    <2> QED BY <2>1, <2>2
<1>20. CASE UNCHANGED vars
    BY <1>0, <1>20 DEF vars, IInv, TypeOK, SocketHasSession, CallsHaveSessions, StreamIsShown,
                       SocketFollowsScreen, OpeningIsOfScreen
<1> QED
    BY <1>1, <1>2, <1>3, <1>4, <1>5, <1>6, <1>7, <1>8, <1>9, <1>10, <1>11, <1>12, <1>13, <1>14,
       <1>15, <1>16, <1>17, <1>18, <1>19, <1>20 DEF Next, Human, Failures, Answers, Stream

LEMMA Invariance == Spec => []IInv
  BY InitInvariant, StepInvariant, PTL DEF Spec

(***************************************************************************)
(* The handlers of the client never leave the declared types.              *)
(***************************************************************************)
THEOREM TypeCorrect == Spec => []TypeOK
<1>1. IInv => TypeOK
    BY DEF IInv
<1> QED BY <1>1, Invariance, PTL

(***************************************************************************)
(* What the socket has delivered stays on the screen, for any number of    *)
(* sessions, calls and changes, unless an older HTTP answer replaced it.   *)
(***************************************************************************)
THEOREM DeliveredIsShown == Spec => []StreamIsShown
<1>1. IInv => StreamIsShown
    BY DEF IInv
<1> QED BY <1>1, Invariance, PTL

(***************************************************************************)
(* The socket and its reconnect timer belong to the session on the screen, *)
(* unless a created session overtook an opening.                           *)
(***************************************************************************)
THEOREM SocketIsOfScreen == Spec => []SocketFollowsScreen
<1>1. IInv => SocketFollowsScreen
    BY DEF IInv
<1> QED BY <1>1, Invariance, PTL
=============================================================================
