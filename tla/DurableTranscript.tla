-------------------------- MODULE DurableTranscript --------------------------
(***************************************************************************)
(* What a session's transcript promises, without saying where it is kept.  *)
(* While a handler works, what readers get only grows, and it is told when *)
(* the handler answers.  A kill during a handler may take back what was    *)
(* not told, and so may the recovery after it, once; nothing else changes  *)
(* what readers get, a restart between two handlers included.              *)
(***************************************************************************)
EXTENDS Naturals

CONSTANT Messages

VARIABLES
    view,    \* what readers get: a version per message, 0 if there is none
    told,    \* the view that was acknowledged last
    busy,    \* a handler works
    shaken,  \* a kill has left something to recover
    behind   \* a kill has left versions that were told behind

vars == <<view, told, busy, shaken, behind>>

\* No message that was told is lost in v, nor a version unless b.
Keeps(v, b) == \A m \in Messages : (told[m] # 0 => v[m] # 0) /\ (b \/ v[m] >= told[m])

Init ==
    /\ view = [m \in Messages |-> 0] /\ told = view
    /\ busy = FALSE /\ shaken = FALSE /\ behind = FALSE

Begin ==
    /\ ~busy /\ busy' = TRUE
    /\ \A m \in Messages : view'[m] >= view[m]
    /\ shaken' = FALSE
    /\ UNCHANGED <<told, behind>>

Answer ==
    /\ busy /\ busy' = FALSE
    /\ told' \in {told, view}
    /\ UNCHANGED <<view, shaken, behind>>

Kill ==
    /\ busy /\ busy' = FALSE
    /\ shaken' \in BOOLEAN
    /\ behind' \in BOOLEAN /\ (behind => behind')
    /\ Keeps(view', behind')
    /\ UNCHANGED told

Recover ==
    /\ ~busy /\ busy' = TRUE
    /\ shaken /\ shaken' = FALSE
    /\ Keeps(view', behind)
    /\ UNCHANGED <<told, behind>>

Next == Begin \/ Answer \/ Kill \/ Recover

Spec == Init /\ [][Next]_vars
=============================================================================
