--------------------------- MODULE ProviderSilence ---------------------------
(***************************************************************************)
(* What the turn engine of SessionRun promises in the end, given that an   *)
(* adapter may await its provider for good: the stream of a Claude query   *)
(* has no time-out, neither has a request of the codex handshake whose     *)
(* socket is lost (CodexTurn), and a provider may be at work for ever.     *)
(*                                                                         *)
(* Restarts and switches of the provider, which leave messages waiting     *)
(* (OnlyRestartOrSwitchStrands), are not among the steps here.             *)
(***************************************************************************)
EXTENDS SessionRun

ASSUME NoFaultsAssumption == Faults = {}

VARIABLE silent \* the coroutines whose provider will never end their turn

silentVars == <<vars, silent>>

SilentInit == Init /\ silent = {}

\* From here on nothing that ends the turn comes from the provider, whatever is asked of it.
GoesSilent(r) ==
    /\ runs[r].phase \in {"starting", "turn"}
    /\ r \notin silent
    /\ silent' = silent \cup {r}
    /\ UNCHANGED vars

\* The steps of the engine, of which a turn that has gone silent may still report its id.
EngineStep ==
    /\ Next
    /\ \A r \in silent : runs'[r] \in {runs[r], [runs[r] EXCEPT !.phase = "turn"]}
    /\ UNCHANGED silent

SilentNext == EngineStep \/ \E r \in Slots : GoesSilent(r)

(***************************************************************************)
(* A provider that has not gone silent ends its turn, and a back-off timer *)
(* fires.  Of the other providers nothing is assumed.                      *)
(***************************************************************************)
AnsweredTurnEnds(r) == r \notin silent /\ TurnEnds(r) /\ UNCHANGED silent
BackoffEnds(r) == Retry(r) /\ UNCHANGED silent

SilentSpec ==
    /\ SilentInit
    /\ [][SilentNext]_silentVars
    /\ \A r \in Slots : WF_silentVars(AnsweredTurnEnds(r)) /\ WF_silentVars(BackoffEnds(r))
-----------------------------------------------------------------------------
(***************************************************************************)
(* Every turn ends unless its provider goes silent: the attempts are       *)
(* bounded, and stops in between neither add to them nor leave a turn      *)
(* that nothing ends.                                                      *)
(***************************************************************************)
EveryTurnEnds == \A r \in Slots : runs[r].phase # "none" ~> runs[r].phase = "none" \/ r \in silent

(***************************************************************************)
(* A human message posted at any point of a turn's life is taken by a      *)
(* turn, or waits behind one whose provider has gone silent: it has no     *)
(* other way to be forgotten.                                              *)
(***************************************************************************)
QueuedMessageIsTaken ==
    \A m \in Messages :
        LET Waits == mail[m].role = "user" /\ m \in Pending(mail, KindOf[settings])
        IN  Waits ~> ~Waits \/ silent # {}
=============================================================================
