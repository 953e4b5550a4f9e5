--------------------------- MODULE StoryboardRuns ---------------------------
(***************************************************************************)
(* The runs of one storyboard frame on the storyboard access server        *)
(* (storyboard-access-server.ts, over the files of run-system.ts): runs    *)
(* are posted, queued, driven one at a time through agent-browser,         *)
(* captured, cancelled and recorded, while the storyboard and the frame's  *)
(* image are edited and the server restarts.  Freshness compares the       *)
(* record of the latest success with what is there now.                    *)
(*                                                                         *)
(* All runs are of one frame, capture set and variant, so they write the   *)
(* same image and the same record.  Of the inputs of freshness only the    *)
(* storyboard and the image change.  An image is known by the version of   *)
(* the storyboard it was shot by.  Logs are left out.                      *)
(*                                                                         *)
(* A command of agent-browser that takes too long is killed, but only the  *)
(* command: the browser lives on and may write a screenshot late, and the  *)
(* server goes on waiting for the ends of the command's output.            *)
(***************************************************************************)
EXTENDS Integers, FiniteSetsExt

CONSTANTS
    MaxRuns,      \* runs posted, numbered in the order of createdAt
    Specs,        \* versions of storyboard.json; an edit may go back to one
    MaxRestarts   \* restarts of the server

ASSUME RunsAssumption == MaxRuns \in Nat \ {0} /\ MaxRestarts \in Nat
ASSUME SpecsAssumption == Specs \subseteq Nat \ {0} /\ Specs # {}

Jobs == 1..MaxRuns
None == 0
Other == -1   \* an image that no run shot of the app

VARIABLES
    status,     \* the status in the file of a job, or "none"
    mode,       \* its mode
    active,     \* activeRunJob, or None
    stage,      \* where executeRunJob of the active job is
    driven,     \* the storyboard it was started with
    fallback,   \* usedFallback
    spec,       \* storyboard.json
    image,      \* the frame's image, or None
    provenance, \* the record of the latest success
    late,       \* pictures that screenshots nobody waits for may still write
    \* history, read by properties only
    replaced,   \* since the driven run shot the image, it was put by hand or written late
    lost,       \* jobs a restart has left behind
    restarts    \* restarts so far

browser == <<active, stage>>
picture == <<image, late, replaced>>
inputs == <<spec, picture>>
vars == <<status, mode, active, stage, driven, fallback, spec, image, provenance, late, replaced, lost, restarts>>

Terminal == {"succeeded", "failed", "cancelled"}
Shoots == {"capture", "run-and-capture"}
NoProvenance == [spec |-> None, image |-> None, how |-> "none"]

Init ==
    /\ status = [j \in Jobs |-> "none"] /\ mode = [j \in Jobs |-> "run-to-state"]
    /\ active = None /\ stage = "none"
    /\ driven = None /\ fallback = FALSE
    /\ spec \in Specs /\ image \in {None, Other}
    /\ provenance = NoProvenance
    /\ late = {} /\ replaced = FALSE
    /\ lost = {} /\ restarts = 0
-----------------------------------------------------------------------------
(* The queue.  An outcome is the jobs' files and what the browser does. *)

Queued(st) == {j \in Jobs : st[j] = "queued"}

\* drainRunQueue with no active run: the oldest queued job starts, or its
\* manifest entry, runner or frame is gone.
Drained(st) ==
    IF Queued(st) = {} THEN {<<st, None, "none">>}
    ELSE LET next == Min(Queued(st)) IN
         {<<[st EXCEPT ![next] = "running"], next, "browsing">>, <<st, next, "refused">>}

\* Mutant: the end of a run frees the browser and starts nothing.
OnlyFreed(st) == {<<st, None, "none">>}

\* The finally of drainRunQueue.
Freed(st) == Drained(st)

Becomes(outcome) ==
    /\ status' = outcome[1] /\ active' = outcome[2] /\ stage' = outcome[3]
    /\ driven' = IF outcome[2] \notin {None, active} THEN spec ELSE driven
    /\ fallback' = IF outcome[2] \notin {None, active} THEN FALSE ELSE fallback

\* A refused run has failed before the next request is handled.
Listening == stage # "refused"
-----------------------------------------------------------------------------
(* Requests. *)

PostRun(j, m) ==
    /\ Listening
    /\ status[j] = "none" /\ \A i \in Jobs : i < j => status[i] # "none"
    /\ mode' = [mode EXCEPT ![j] = m]
    /\ LET posted == [status EXCEPT ![j] = "queued"] IN
       \E outcome \in IF active = None THEN Drained(posted) ELSE {<<posted, active, stage>>} :
          Becomes(outcome)
    /\ UNCHANGED <<inputs, provenance, lost, restarts>>

\* Mutant: cancel forgets to ask whether the job has ended.
CancellableAll(j) == status[j] # "none"

Cancellable(j) == status[j] \notin Terminal \cup {"none"}

\* The file is all that a cancellation changes: a run goes on.
Cancel(j) ==
    /\ Listening
    /\ Cancellable(j)
    /\ status' = [status EXCEPT ![j] = "cancelled"]
    /\ UNCHANGED <<mode, browser, driven, fallback, inputs, provenance, lost, restarts>>

EditStoryboard ==
    /\ Listening
    /\ spec' \in Specs \ {spec}
    /\ UNCHANGED <<status, mode, browser, driven, fallback, picture, provenance, lost, restarts>>

PutImage ==
    /\ Listening
    /\ image' \in {None, Other} \ {image}
    /\ replaced' = (stage = "shot")
    /\ UNCHANGED <<status, mode, browser, driven, fallback, spec, late, provenance, lost, restarts>>
-----------------------------------------------------------------------------
(* executeRunJob, from one answer of agent-browser to the next. *)

\* The actions, the known automation or the fallback are through, and the
\* screenshot is asked for.  The status is written whatever it is by now.
Arrive ==
    /\ stage = "browsing" /\ mode[active] \in Shoots
    /\ status' = [status EXCEPT ![active] = "capturing"]
    /\ stage' = "shooting"
    /\ fallback' \in BOOLEAN
    /\ UNCHANGED <<mode, active, driven, inputs, provenance, lost, restarts>>

Shot == IF fallback THEN Other ELSE driven

\* agent-browser writes the image in place; its exit is noticed later.
Screenshot ==
    /\ stage = "shooting"
    /\ stage' = "shot"
    /\ image' = Shot /\ replaced' = FALSE
    /\ UNCHANGED <<status, mode, active, driven, fallback, spec, late, provenance, lost, restarts>>

\* Nobody waits any more for a screenshot that was asked for; the browser may still write it.
Abandon ==
    /\ late' \in IF stage = "shooting" THEN {late, late \cup {Shot}} ELSE {late}
    /\ UNCHANGED <<image, replaced>>

LateWrite ==
    /\ \E shot \in late : image' = shot /\ late' = late \ {shot}
    /\ replaced' = (stage = "shot")
    /\ UNCHANGED <<status, mode, browser, driven, fallback, spec, provenance, lost, restarts>>

\* Mutant: the storyboard is read when the record is written.
RecordedLate == spec

\* The storyboard the record names: read when the run was started.
Recorded == driven

\* What the image is to the run that records it.
How ==
    CASE stage = "browsing"                     -> "state"
      [] stage # "browsing" /\ fallback         -> "fallback"
      [] stage # "browsing" /\ ~fallback        -> IF replaced THEN "replaced" ELSE "shot"

\* The record is written and the job has succeeded, whatever its status is.
\* A run to a state records the image it finds.
Complete ==
    /\ \/ stage = "shot"
       \/ stage = "browsing" /\ mode[active] \notin Shoots
    /\ provenance' = [spec |-> Recorded, image |-> image, how |-> How]
    /\ \E outcome \in Freed([status EXCEPT ![active] = "succeeded"]) : Becomes(outcome)
    /\ UNCHANGED <<mode, inputs, lost, restarts>>

\* The catch: of a refusal, a failed or timed out command, or a blank image.
Fail ==
    /\ stage \notin {"none", "hung"}
    /\ Abandon
    /\ \E outcome \in Freed([status EXCEPT ![active] = "failed"]) : Becomes(outcome)
    /\ UNCHANGED <<mode, spec, provenance, lost, restarts>>

\* A killed command, or a child that holds its output, never ends it: the await has no time-out.
Hang ==
    /\ stage \in {"browsing", "shooting", "shot"}
    /\ Abandon
    /\ stage' = "hung"
    /\ UNCHANGED <<status, mode, active, driven, fallback, spec, provenance, lost, restarts>>

\* Nothing of the queue is looked at when the server starts.
Restart ==
    /\ restarts < MaxRestarts
    /\ Abandon
    /\ active' = None /\ stage' = "none"
    /\ driven' = None /\ fallback' = FALSE
    /\ lost' = lost \cup {j \in Jobs : status[j] \notin Terminal \cup {"none"}}
    /\ restarts' = restarts + 1
    /\ UNCHANGED <<status, mode, spec, provenance>>
-----------------------------------------------------------------------------
RunGoesOn == Arrive \/ Screenshot \/ Complete \/ Fail

Next ==
    \/ \E j \in Jobs, m \in {"run-to-state", "run-and-capture"} : PostRun(j, m)
    \/ \E j \in Jobs : Cancel(j)
    \/ EditStoryboard \/ PutImage
    \/ RunGoesOn
    \/ Hang \/ LateWrite
    \/ Restart

Spec == Init /\ [][Next]_vars

\* A command that does not hang ends, or is killed by its time-out.
FairSpec == Spec /\ WF_vars(RunGoesOn)

\* deriveStoryboardRunFreshness.
Unchanged ==
    /\ image # None
    /\ provenance.spec = spec /\ provenance.image = image
-----------------------------------------------------------------------------
TypeOK ==
    /\ status \in [Jobs -> Terminal \cup {"none", "queued", "running", "capturing"}]
    /\ mode \in [Jobs -> Shoots \cup {"run-to-state"}]
    /\ active \in Jobs \cup {None}
    /\ stage \in {"none", "refused", "browsing", "shooting", "shot", "hung"}
    /\ driven \in Specs \cup {None} /\ fallback \in BOOLEAN
    /\ spec \in Specs /\ image \in Specs \cup {None, Other}
    /\ provenance \in [spec : Specs \cup {None}, image : Specs \cup {None, Other},
                       how : {"none", "state", "fallback", "replaced", "shot"}]
    /\ late \subseteq Specs \cup {None, Other} /\ replaced \in BOOLEAN
    /\ lost \subseteq Jobs /\ restarts \in 0..MaxRestarts

(***************************************************************************)
(* A frame that was once recorded is shown unchanged only when its image   *)
(* was shot of the app driven by the storyboard there is now, however the  *)
(* storyboard was edited while runs went on, failed or were cancelled.     *)
(* Three kinds of records vouch for what they have not shot: of a run to a *)
(* state; of a run that fell back to the old image; and of a run whose     *)
(* image was put by hand or written late by an earlier run, between the    *)
(* shot and the record (replaced).                                         *)
(***************************************************************************)
UnchangedIsOfTheStoryboard ==
    Unchanged => image = spec \/ provenance.how \in {"state", "fallback", "replaced"}

(***************************************************************************)
(* The end of a run is final, with one exception: a run cancelled while it *)
(* is driven goes on, and its status is written over.                      *)
(***************************************************************************)
OnlyCancelIsUndone ==
    [][\A j \in Jobs : status[j] \in Terminal /\ status'[j] # status[j]
                         => status[j] = "cancelled" /\ active = j]_vars

(***************************************************************************)
(* Every queued run ends, whatever fails before it and whatever is         *)
(* cancelled, unless a restart left it behind or a command hangs: then the *)
(* browser is taken until the server restarts, but no failure keeps it.    *)
(***************************************************************************)
EveryRunEnds ==
    \A j \in Jobs : status[j] = "queued" ~> status[j] \in Terminal \/ j \in lost \/ stage = "hung"
=============================================================================
