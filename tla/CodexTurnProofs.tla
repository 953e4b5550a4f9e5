--------------------------- MODULE CodexTurnProofs ---------------------------
(***************************************************************************)
(* Proofs about CodexTurn, for any sessions: its state is type correct, no *)
(* turn of its own is left on the app-server unless a socket was lost, and *)
(* a success is the completion of the turn it started.                     *)
(***************************************************************************)
EXTENDS CodexTurn, TLAPS

RunType == [phase : Requests \cup Settled \cup {"idle", "probing", "startup", "connecting", "completion"},
            socket : {"none", "connecting", "open", "closed"}, error : BOOLEAN,
            completion : {"pending", "resolved", "rejected"}, remote : {"none", "running", "over"}]
StopType == [phase : Settled \cup {"idle", "connecting", "initialize", "interrupt"},
             socket : {"none", "connecting", "open", "closed", "silent"}]

(***************************************************************************)
(* The strengthening, for a turn r of a session with or without an orphan  *)
(* o and a broken socket b: a rejection needs a broken socket, a           *)
(* resolution its own completion or the orphan of an earlier loss, a turn  *)
(* runs remotely only once it was asked for.                               *)
(***************************************************************************)
Good(r, o, b) ==
    /\ o => b
    /\ r.completion = "rejected" => b
    /\ r.completion = "resolved" => r.remote = "over" \/ b
    /\ r.remote = "none" \/ r.phase \in {"turn", "completion", "done"}
    /\ r.socket = "connecting" => r.phase = "connecting"
    /\ r.socket = "open" => r.phase \in Requests \cup {"completion"}
    /\ r.phase = "completion" => r.remote # "none" \/ b
    /\ r.phase = "done" => ~r.error /\ (r.remote = "over" \/ b)
    /\ r.phase \in Settled => r.completion = "pending" /\ r.remote # "running"

IInv == TypeOK /\ \A s \in Sessions : Good(run[s], orphan[s], broken[s])

USE DEF Requests, Settled

\* The strengthening implies the two properties.
LEMMA InvImplies == IInv => OneRemoteTurn /\ SuccessIsComplete
  BY DEF IInv, Good, OneRemoteTurn, SuccessIsComplete

\* The initial state.
LEMMA InitInv == Init => IInv
<1> SUFFICES ASSUME Init PROVE IInv
    OBVIOUS
<1>1. IdleRun \in RunType /\ IdleStop \in StopType /\ Good(IdleRun, FALSE, FALSE)
    BY DEF RunType, StopType, IdleRun, IdleStop, Good
<1>2. run \in [Sessions -> RunType] /\ stop \in [Sessions -> StopType]
    BY <1>1 DEF Init
<1>3. orphan \in [Sessions -> BOOLEAN] /\ broken \in [Sessions -> BOOLEAN]
    BY DEF Init
<1>4. TypeOK
    BY <1>2, <1>3 DEF Init, TypeOK, RunType, StopType
<1> QED BY <1>1, <1>4 DEF Init, IInv

\* Replacing the turn of one session by a good one.
LEMMA OneRun ==
  ASSUME IInv, NEW s \in Sessions, NEW r \in RunType, Good(r, orphan'[s], broken'[s]),
         run' = [run EXCEPT ![s] = r],
         orphan' \in [Sessions -> BOOLEAN], broken' \in [Sessions -> BOOLEAN],
         \A t \in Sessions \ {s} : orphan'[t] = orphan[t] /\ broken'[t] = broken[t],
         appServer' \in {"down", "booting", "up"}, startup' \in BOOLEAN,
         stop' \in [Sessions -> StopType], thread' \in [Sessions -> BOOLEAN]
  PROVE  IInv'
<1>1. run \in [Sessions -> RunType] /\ orphan \in [Sessions -> BOOLEAN] /\ broken \in [Sessions -> BOOLEAN]
    BY DEF IInv, TypeOK, RunType
<1>2. TypeOK'
    BY <1>1 DEF TypeOK, RunType, StopType
<1>3. ASSUME NEW t \in Sessions PROVE Good(run[t], orphan[t], broken[t])'
  <2>1. CASE t = s
      BY <1>1, <2>1
  <2>2. CASE t # s
    <3>1. run'[t] = run[t] /\ orphan'[t] = orphan[t] /\ broken'[t] = broken[t]
        BY <1>1, <2>2
    <3> QED BY <3>1 DEF IInv, Good
  <2> QED BY <2>1, <2>2
<1> QED BY <1>2, <1>3 DEF IInv

\* What IInv says of one session, in the form the actions use.
LEMMA OfSession ==
  ASSUME IInv, NEW s \in Sessions
  PROVE  /\ run[s] \in RunType /\ orphan[s] \in BOOLEAN /\ broken[s] \in BOOLEAN
         /\ Good(run[s], orphan[s], broken[s])
  BY DEF IInv, TypeOK, RunType

\* The same without s: the types of the rest of the state.
LEMMA OfState ==
  ASSUME IInv
  PROVE  /\ run \in [Sessions -> RunType]
         /\ appServer \in {"down", "booting", "up"} /\ startup \in BOOLEAN
         /\ stop \in [Sessions -> StopType] /\ thread \in [Sessions -> BOOLEAN]
         /\ orphan \in [Sessions -> BOOLEAN] /\ broken \in [Sessions -> BOOLEAN]
  BY DEF IInv, TypeOK, RunType, StopType

\* Replacing only the turn, its socket being as broken as before.
LEMMA SameRest ==
  ASSUME IInv, NEW s \in Sessions, NEW r \in RunType, Good(r, orphan[s], broken[s]),
         run' = [run EXCEPT ![s] = r], UNCHANGED <<orphan, broken, stop>>,
         appServer' \in {"down", "booting", "up"}, startup' \in BOOLEAN, thread' \in [Sessions -> BOOLEAN]
  PROVE  IInv'
  BY OfState, OneRun

\* The steps of the turn up to its handshake.
LEMMA StartInv == ASSUME IInv, NEW s \in Sessions, Begin(s) \/ Probe(s) \/ Opened(s) \/ OpenFails(s) PROVE IInv'
<1>0. run[s] \in RunType /\ Good(run[s], orphan[s], broken[s]) /\ orphan[s] \in BOOLEAN
    BY OfSession
<1>a. /\ appServer \in {"down", "booting", "up"} /\ startup \in BOOLEAN
      /\ stop \in [Sessions -> StopType] /\ thread \in [Sessions -> BOOLEAN]
    BY OfState
<1>1. CASE Begin(s)
  <2> DEFINE r == [IdleRun EXCEPT !.phase = "probing"]
  <2>1. r \in RunType /\ Good(r, orphan[s], orphan[s])
      BY DEF RunType, Good, IdleRun
  <2>2. run' = [run EXCEPT ![s] = r] /\ broken' = [broken EXCEPT ![s] = orphan[s]]
        /\ UNCHANGED <<appServer, startup, stop, thread, orphan>>
      BY <1>1 DEF Begin
  <2>3. broken' \in [Sessions -> BOOLEAN] /\ broken'[s] = orphan[s]
        /\ \A t \in Sessions \ {s} : broken'[t] = broken[t]
      BY <1>0, <2>2, OfState
  <2> HIDE DEF r
  <2> QED BY <1>0, <1>a, <2>1, <2>2, <2>3, OfState, OneRun
<1>2. CASE Probe(s)
  <2> DEFINE r == IF appServer = "up" THEN Connect(run[s]) ELSE [run[s] EXCEPT !.phase = "startup"]
  <2>1. r \in RunType
      BY <1>0 DEF RunType, Connect
  <2>2. Good(r, orphan[s], broken[s])
      BY <1>0, <1>2 DEF RunType, Good, Probe, Connect
  <2>3. run' = [run EXCEPT ![s] = r] /\ appServer' \in {"down", "booting", "up"} /\ startup' \in BOOLEAN
        /\ UNCHANGED <<stop, thread, orphan, broken>>
      BY <1>2, <1>a DEF Probe
  <2> HIDE DEF r
  <2> QED BY <1>a, <2>1, <2>2, <2>3, SameRest
<1>3. CASE Opened(s)
  <2> DEFINE r == [run[s] EXCEPT !.socket = "open", !.phase = "initialize"]
  <2>1. r \in RunType /\ Good(r, orphan[s], broken[s])
      BY <1>0, <1>3 DEF RunType, Good, Opened
  <2>2. run' = [run EXCEPT ![s] = r] /\ UNCHANGED <<appServer, startup, stop, thread, orphan, broken>>
      BY <1>3, OfState DEF Opened, RunType
  <2> HIDE DEF r
  <2> QED BY <1>a, <2>1, <2>2, SameRest
<1>4. CASE OpenFails(s)
  <2>1. FailToOpen(run[s]) \in RunType /\ Good(FailToOpen(run[s]), orphan[s], broken[s])
      BY <1>0 DEF RunType, Good, FailToOpen, Settle, IdleRun
  <2>2. run' = [run EXCEPT ![s] = FailToOpen(run[s])] /\ UNCHANGED <<appServer, startup, stop, thread, orphan, broken>>
      BY <1>4 DEF OpenFails
  <2> QED BY <1>a, <2>1, <2>2, SameRest
<1> QED BY <1>1, <1>2, <1>3, <1>4

\* The steps of the handshake, of the completion and of the time-out.
LEMMA TurnInv ==
  ASSUME IInv, NEW s \in Sessions, (\E ok \in BOOLEAN : Answered(s, ok)) \/ Completed(s) \/ TimesOut(s)
  PROVE  IInv'
<1>0. run[s] \in RunType /\ Good(run[s], orphan[s], broken[s]) /\ orphan[s] \in BOOLEAN /\ broken[s] \in BOOLEAN
    BY OfSession
<1>1. ASSUME NEW ok \in BOOLEAN, Answered(s, ok) PROVE IInv'
  <2> DEFINE next == AfterAnswer(s, ok)
  <2>1. UNCHANGED <<appServer, startup, stop, thread, broken>>
      BY <1>1 DEF Answered
  <2>2. CASE next = "failed"
    <3>1. run[s].remote # "running"
        BY <1>0, <1>1, <2>2 DEF Answered, AfterAnswer, Good, RunType
    <3>2. Settle(run[s], "failed") \in RunType /\ Good(Settle(run[s], "failed"), orphan[s], broken[s])
        BY <1>0 DEF RunType, Good, Settle, IdleRun
    <3>3. run' = [run EXCEPT ![s] = Settle(run[s], "failed")]
        BY <1>1, <2>2 DEF Answered
    <3>4. orphan' = orphan
      <4>1. orphan' = [orphan EXCEPT ![s] = orphan[s] \/ run[s].remote = "running"]
          BY <1>1, <2>2 DEF Answered, Orphaned
      <4>2. (orphan[s] \/ run[s].remote = "running") = orphan[s]
          BY <1>0, <3>1
      <4> QED BY <4>1, <4>2, OfState
    <3> QED BY <2>1, <3>2, <3>3, <3>4, OfState, SameRest
  <2>3. CASE next # "failed"
    <3> DEFINE r == [run[s] EXCEPT !.phase = next]
    <3>1. next \in {"resume", "start", "turn", "completion"}
        BY <1>1, <2>3 DEF Answered, AfterAnswer
    <3>2. r \in RunType
        BY <1>0, <3>1 DEF RunType
    <3>3. Good(r, orphan[s], broken[s])
        BY <1>0, <1>1, <3>1 DEF Answered, AfterAnswer, Good, RunType
    <3>4. run' = [run EXCEPT ![s] = r] /\ orphan' = orphan
        BY <1>1, <2>3, OfState DEF Answered, RunType
    <3> HIDE DEF r
    <3> QED BY <2>1, <3>2, <3>3, <3>4, OfState, SameRest
  <2> QED BY <2>2, <2>3
<1>2. CASE Completed(s)
  <2> DEFINE r == Settle(run[s], ResultOf(run[s]))
             o == orphan[s] \/ run[s].remote = "running"
  <2>1. ResultOf(run[s]) \in {"done", "failed"} /\ (ResultOf(run[s]) = "done" => run[s].completion = "resolved" /\ ~run[s].error)
      BY DEF ResultOf
  <2>2. r \in RunType
      BY <1>0, <2>1 DEF RunType, Settle, IdleRun
  <2>3. o => broken[s]
      BY <1>0, <1>2 DEF Good, Completed, RunType
  <2>4. Good(r, o, broken[s])
      BY <1>0, <2>1, <2>3 DEF Good, Settle, IdleRun, RunType
  <2>5. run' = [run EXCEPT ![s] = r] /\ orphan' = [orphan EXCEPT ![s] = o]
        /\ UNCHANGED <<appServer, startup, stop, broken>> /\ thread' \in [Sessions -> BOOLEAN]
      BY <1>2, OfState DEF Completed, Orphaned
  <2>6. o \in BOOLEAN
      OBVIOUS
  <2> HIDE DEF r, o
  <2>7. orphan' \in [Sessions -> BOOLEAN] /\ orphan'[s] = o /\ \A t \in Sessions \ {s} : orphan'[t] = orphan[t]
      BY <2>5, <2>6, OfState
  <2> QED BY <2>2, <2>4, <2>5, <2>7, OfState, OneRun
<1>3. CASE TimesOut(s)
  <2>1. SocketGone(run[s]) \in RunType /\ Good(SocketGone(run[s]), orphan[s], TRUE)
      BY <1>0, <1>3 DEF RunType, Good, SocketGone, TimesOut
  <2>2. run' = [run EXCEPT ![s] = SocketGone(run[s])] /\ broken' = [broken EXCEPT ![s] = TRUE]
        /\ UNCHANGED <<appServer, startup, stop, thread, orphan>>
      BY <1>3 DEF TimesOut
  <2>3. broken' \in [Sessions -> BOOLEAN] /\ broken'[s] = TRUE /\ \A t \in Sessions \ {s} : broken'[t] = broken[t]
      BY <2>2, OfState
  <2> QED BY <2>1, <2>2, <2>3, OfState, OneRun
<1> QED BY <1>1, <1>2, <1>3

\* The steps of a stop, and those that leave all turns alone.
LEMMA StopInv ==
  ASSUME IInv, (\E s \in Sessions : BeginStop(s) \/ StopSteps(s) \/ StopSilenced(s)) \/ AppReady \/ UNCHANGED vars
  PROVE  IInv'
<1>1. UNCHANGED <<run, orphan, broken, startup, thread>>
    BY DEF BeginStop, StopSteps, StopOpened, StopAnswered, StopSilenced, AppReady, vars
<1>2. appServer' \in {"down", "booting", "up"}
    BY OfState DEF BeginStop, StopSteps, StopOpened, StopAnswered, StopSilenced, AppReady, vars
<1>3. stop' \in [Sessions -> StopType]
  <2>1. CASE stop' = stop
      BY <2>1, OfState
  <2>2. CASE stop' # stop
    <3>1. PICK s \in Sessions : BeginStop(s) \/ StopSilenced(s) \/ StopOpened(s) \/ \E ok \in BOOLEAN : StopAnswered(s, ok)
        BY <2>2 DEF StopSteps, AppReady, vars
    <3>2. PICK x \in StopType : stop' = [stop EXCEPT ![s] = x]
      <4>1. CASE StopSilenced(s)
        <5> DEFINE x == [stop[s] EXCEPT !.socket = "silent"]
        <5>1. x \in StopType /\ stop' = [stop EXCEPT ![s] = x]
            BY <4>1, OfState DEF StopSilenced, StopType
        <5> QED BY <5>1
      <4>2. CASE ~StopSilenced(s)
          BY <3>1, <4>2 DEF BeginStop, StopOpened, StopAnswered, StopType, IdleStop
      <4> QED BY <4>1, <4>2
    <3> QED BY <3>2, OfState
  <2> QED BY <2>1, <2>2
<1>4. TypeOK'
    BY <1>1, <1>2, <1>3, OfState DEF TypeOK, RunType, StopType
<1>5. ASSUME NEW s \in Sessions PROVE Good(run[s], orphan[s], broken[s])'
    BY <1>1 DEF IInv, Good
<1> QED BY <1>4, <1>5 DEF IInv

\* The app-server's turns and the loss of a socket.
LEMMA RemoteInv ==
  ASSUME IInv, NEW s \in Sessions, RemoteStarts(s) \/ RemoteCompletes(s) \/ OrphanEnds(s) \/ SocketLost(s)
  PROVE  IInv'
<1>0. run[s] \in RunType /\ Good(run[s], orphan[s], broken[s]) /\ orphan[s] \in BOOLEAN /\ broken[s] \in BOOLEAN
    BY OfSession
<1>1. CASE RemoteStarts(s)
  <2> DEFINE r == [run[s] EXCEPT !.remote = "running"]
  <2>1. r \in RunType /\ Good(r, orphan[s], broken[s])
      BY <1>0, <1>1 DEF RunType, Good, RemoteStarts
  <2>2. run' = [run EXCEPT ![s] = r] /\ UNCHANGED <<appServer, startup, stop, thread, orphan, broken>>
      BY <1>1, OfState DEF RemoteStarts, RunType
  <2> HIDE DEF r
  <2> QED BY <2>1, <2>2, OfState, SameRest
<1>2. CASE RemoteCompletes(s)
  <2>1. PICK e \in BOOLEAN :
          run' = [run EXCEPT ![s] = IF @.socket = "open"
                                    THEN [@ EXCEPT !.remote = "over", !.completion = "resolved", !.error = e]
                                    ELSE [@ EXCEPT !.remote = "over"]]
      BY <1>2 DEF RemoteCompletes
  <2> DEFINE r == IF run[s].socket = "open"
                  THEN [run[s] EXCEPT !.remote = "over", !.completion = "resolved", !.error = e]
                  ELSE [run[s] EXCEPT !.remote = "over"]
  <2>2. r \in RunType
      BY <1>0 DEF RunType
  <2>3. Good(r, orphan[s], broken[s])
      BY <1>0, <1>2 DEF RunType, Good, RemoteCompletes
  <2>4. run' = [run EXCEPT ![s] = r] /\ UNCHANGED <<appServer, startup, stop, thread, orphan, broken>>
      BY <1>2, <2>1 DEF RemoteCompletes
  <2> HIDE DEF r
  <2> QED BY <2>2, <2>3, <2>4, OfState, SameRest
<1>3. CASE OrphanEnds(s)
  <2>1. PICK r \in RunType : run' = [run EXCEPT ![s] = r] /\ Good(r, FALSE, broken[s])
    <3>1. CASE UNCHANGED run
      <4>1. run' = [run EXCEPT ![s] = run[s]]
          BY <3>1, OfState
      <4> QED BY <1>0, <4>1 DEF Good
    <3>2. CASE run' # run
      <4>1. PICK e \in BOOLEAN : run' = [run EXCEPT ![s].completion = "resolved", ![s].error = e]
          BY <1>3, <3>2 DEF OrphanEnds
      <4> DEFINE r == [run[s] EXCEPT !.completion = "resolved", !.error = e]
      <4>2. r \in RunType
          BY <1>0 DEF RunType
      <4>3. Good(r, FALSE, broken[s])
          BY <1>0, <1>3, <3>2 DEF RunType, Good, OrphanEnds
      <4>4. run' = [run EXCEPT ![s] = r]
          BY <4>1, OfState DEF RunType
      <4> HIDE DEF r
      <4> QED BY <4>2, <4>3, <4>4
    <3> QED BY <3>1, <3>2
  <2>2. orphan' = [orphan EXCEPT ![s] = FALSE] /\ UNCHANGED <<appServer, startup, stop, thread, broken>>
      BY <1>3 DEF OrphanEnds
  <2>3. orphan' \in [Sessions -> BOOLEAN] /\ orphan'[s] = FALSE /\ \A t \in Sessions \ {s} : orphan'[t] = orphan[t]
      BY <2>2, OfState
  <2> QED BY <2>1, <2>2, <2>3, OfState, OneRun
<1>4. CASE SocketLost(s)
  <2>1. broken' = [broken EXCEPT ![s] = TRUE] /\ UNCHANGED <<appServer, startup, thread, orphan>>
      BY <1>4 DEF SocketLost
  <2>2. broken' \in [Sessions -> BOOLEAN] /\ broken'[s] = TRUE /\ \A t \in Sessions \ {s} : broken'[t] = broken[t]
      BY <2>1, OfState
  <2>3. SocketGone(run[s]) \in RunType /\ (run[s].socket = "open" => Good(SocketGone(run[s]), orphan[s], TRUE))
      BY <1>0 DEF RunType, Good, SocketGone
  <2>4. Good(run[s], orphan[s], TRUE) /\ run = [run EXCEPT ![s] = run[s]]
      BY <1>0, OfState DEF Good
  <2>5. stop' \in [Sessions -> StopType]
    <3>1. CASE UNCHANGED stop
        BY <3>1, OfState
    <3>2. CASE stop' = [stop EXCEPT ![s] = StopGone(@)]
      <4>1. StopGone(stop[s]) \in StopType
          BY OfState DEF StopType, StopGone, IdleStop
      <4> QED BY <3>2, <4>1, OfState
    <3> QED BY <1>4, <3>1, <3>2 DEF SocketLost
  <2>6. CASE UNCHANGED run
      BY <1>0, <2>1, <2>2, <2>4, <2>5, <2>6, OfState, OneRun
  <2>7. CASE run[s].socket = "open" /\ run' = [run EXCEPT ![s] = SocketGone(@)]
      BY <2>1, <2>2, <2>3, <2>5, <2>7, OfState, OneRun
  <2> QED BY <1>4, <2>6, <2>7 DEF SocketLost
<1> QED BY <1>1, <1>2, <1>3, <1>4

\* The end of a shared start.
LEMMA StartupInv == ASSUME IInv, StartupDone PROVE IInv'
<1>1. UNCHANGED <<appServer, stop, thread, orphan, broken>> /\ startup' = FALSE
    BY DEF StartupDone
<1>2. ASSUME NEW t \in Sessions PROVE run'[t] \in RunType /\ Good(run'[t], orphan[t], broken[t])
  <2>1. run[t] \in RunType /\ Good(run[t], orphan[t], broken[t])
      BY OfSession
  <2>2. run'[t] \in {run[t], Connect(run[t]), Settle(run[t], "failed")} /\ (run'[t] = Connect(run[t]) => run'[t] = run[t] \/ run[t].phase = "startup")
      BY DEF StartupDone
  <2>3. Settle(run[t], "failed") \in RunType /\ Good(Settle(run[t], "failed"), orphan[t], broken[t])
      BY <2>1 DEF RunType, Good, Settle, IdleRun
  <2>4. Connect(run[t]) \in RunType
      BY <2>1 DEF RunType, Connect
  <2>5. run[t].phase = "startup" => Good(Connect(run[t]), orphan[t], broken[t])
      BY <2>1 DEF RunType, Good, Connect
  <2> QED BY <2>1, <2>2, <2>3, <2>4, <2>5
<1>3. run' \in [Sessions -> RunType]
    BY <1>2 DEF StartupDone
<1>4. TypeOK'
    BY <1>1, <1>3, OfState DEF TypeOK, RunType, StopType
<1> QED BY <1>1, <1>2, <1>4 DEF IInv

\* The crash of the app-server.
LEMMA CrashInv == ASSUME IInv, AppCrash PROVE IInv'
<1>1. UNCHANGED <<startup, thread>> /\ appServer' = "down"
    BY DEF AppCrash
<1>2. ASSUME NEW t \in Sessions PROVE run'[t] \in RunType /\ Good(run'[t], orphan'[t], broken'[t])
  <2>1. run[t] \in RunType /\ Good(run[t], orphan[t], broken[t])
      BY OfSession
  <2>2. orphan'[t] = FALSE /\ broken'[t] = (broken[t] \/ run[t].socket = "open")
      BY DEF AppCrash
  <2> DEFINE r == IF run[t].remote = "running" THEN [run[t] EXCEPT !.remote = "over"] ELSE run[t]
  <2>3. run'[t] = IF r.socket = "open" THEN SocketGone(r) ELSE r
      BY DEF AppCrash
  <2>4. r \in RunType /\ r.socket = run[t].socket /\ Good(r, FALSE, broken[t])
      BY <2>1 DEF RunType, Good
  <2> HIDE DEF r
  <2>6. CASE r.socket = "open"
    <3>1. SocketGone(r) \in RunType /\ Good(SocketGone(r), FALSE, TRUE)
        BY <2>4, <2>6 DEF RunType, Good, SocketGone
    <3> QED BY <2>2, <2>3, <2>4, <2>6, <3>1 DEF Good
  <2>7. CASE r.socket # "open"
      BY <2>2, <2>3, <2>4, <2>7 DEF Good
  <2> QED BY <2>6, <2>7
<1>3. run' \in [Sessions -> RunType]
    BY <1>2 DEF AppCrash
<1>4. stop' \in [Sessions -> StopType]
  <2>1. \A t \in Sessions : StopGone(stop[t]) \in StopType /\ stop[t] \in StopType
      BY OfState DEF StopType, StopGone, IdleStop
  <2> QED BY <2>1 DEF AppCrash
<1>5. orphan' \in [Sessions -> BOOLEAN] /\ broken' \in [Sessions -> BOOLEAN]
    BY OfState DEF AppCrash
<1>6. TypeOK'
    BY <1>1, <1>3, <1>4, <1>5, OfState DEF TypeOK, RunType, StopType
<1> QED BY <1>2, <1>6 DEF IInv

\* Every step keeps the strengthening.
LEMMA NextInv == IInv /\ [Next]_vars => IInv'
<1> SUFFICES ASSUME IInv, [Next]_vars PROVE IInv'
    OBVIOUS
<1>1. CASE UNCHANGED vars \/ AppReady
    BY <1>1, StopInv
<1>2. CASE StartupDone \/ AppCrash
    BY <1>2, StartupInv, CrashInv
<1>3. ASSUME NEW s \in Sessions, Begin(s) \/ RunSteps(s) \/ (\E ok \in BOOLEAN : Answered(s, ok)) \/ TimesOut(s)
      PROVE IInv'
    BY <1>3, StartInv, TurnInv DEF RunSteps
<1>4. ASSUME NEW s \in Sessions, BeginStop(s) \/ StopSteps(s) \/ StopSilenced(s) PROVE IInv'
    BY <1>4, StopInv
<1>5. ASSUME NEW s \in Sessions, RemoteStarts(s) \/ RemoteCompletes(s) \/ OrphanEnds(s) \/ SocketLost(s) PROVE IInv'
    BY <1>5, RemoteInv
<1> QED BY <1>1, <1>2, <1>3, <1>4, <1>5 DEF Next

(***************************************************************************)
(* The state of the adapter is type correct.                               *)
(***************************************************************************)
THEOREM TypeCorrect == Spec => []TypeOK
<1>1. IInv => TypeOK
    BY DEF IInv
<1> QED BY <1>1, InitInv, NextInv, PTL DEF Spec

(***************************************************************************)
(* No turn that nobody waits for is left on the app-server unless a socket *)
(* of the session was lost or timed out.                                   *)
(***************************************************************************)
THEOREM NoOrphanWithoutLoss == Spec => []OneRemoteTurn
<1> QED BY InvImplies, InitInv, NextInv, PTL DEF Spec

(***************************************************************************)
(* A success is the error-free completion of the turn the coroutine        *)
(* started, or follows a loss.                                             *)
(***************************************************************************)
THEOREM SuccessIsOwn == Spec => []SuccessIsComplete
<1> QED BY InvImplies, InitInv, NextInv, PTL DEF Spec
=============================================================================
