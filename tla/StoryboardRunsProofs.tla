----------------------- MODULE StoryboardRunsProofs -----------------------
(***************************************************************************)
(* Proofs about StoryboardRuns, for any number of runs, versions of the    *)
(* storyboard and restarts.                                                *)
(***************************************************************************)
EXTENDS StoryboardRuns, WellFoundedInduction, TLAPS

\* The job that is driven has not ended, though it may have been cancelled.
ActiveIsOpen ==
    stage # "none" => /\ active \in Jobs
                      /\ status[active] \in {"queued", "running", "capturing", "cancelled"}

\* Between the screenshot and the record the image is the one that was shot, unless it
\* was replaced.
ShotIsOfDriven == stage = "shot" /\ ~fallback /\ ~replaced => image = driven

\* So is the image that the record of a shot names; with no record there is none.
RecordIsOfShot ==
    /\ provenance.how = "shot" => provenance.image = provenance.spec
    /\ provenance.how = "none" => provenance.image = None

IInv == TypeOK /\ ActiveIsOpen /\ ShotIsOfDriven /\ RecordIsOfShot

Statuses == Terminal \cup {"none", "queued", "running", "capturing"}
Records == [spec : Specs \cup {None}, image : Specs \cup {None, Other},
            how : {"none", "state", "fallback", "replaced", "shot"}]
-----------------------------------------------------------------------------
(***************************************************************************)
(* The oldest queued job is a queued job.                                  *)
(***************************************************************************)
LEMMA OldestIsQueued ==
    ASSUME NEW S, S \subseteq Nat, S # {}
    PROVE  Min(S) \in S
<1>1. PICK x \in S : \A y \in S : ~(<<y, x>> \in OpToRel(<, Nat))
  BY NatLessThanWellFounded, WFMin
<1>2. ASSUME NEW y \in S PROVE x <= y
  <2>1. x \in Nat /\ y \in Nat
    OBVIOUS
  <2>2. ~(y < x)
    BY <1>1, <2>1 DEF OpToRel
  <2> QED
    BY <2>1, <2>2
<1> QED
  BY <1>1, <1>2 DEF Min

(***************************************************************************)
(* The job a drain starts was queued: it is running or refused, and no     *)
(* other status changes.                                                   *)
(***************************************************************************)
LEMMA DrainStarts ==
    ASSUME NEW st \in [Jobs -> Statuses], NEW outcome \in Drained(st)
    PROVE  \/ outcome = <<st, None, "none">>
           \/ \E j \in Jobs :
                 /\ st[j] = "queued"
                 /\ \/ outcome = <<[st EXCEPT ![j] = "running"], j, "browsing">>
                    \/ outcome = <<st, j, "refused">>
<1>1. CASE Queued(st) = {}
  BY <1>1 DEF Drained
<1>2. CASE Queued(st) # {}
  <2> DEFINE next == Min(Queued(st))
  <2>1. Queued(st) \subseteq Nat
    BY RunsAssumption DEF Queued, Jobs
  <2>2. next \in Queued(st)
    BY <1>2, <2>1, OldestIsQueued
  <2>3. next \in Jobs /\ st[next] = "queued"
    BY <2>2 DEF Queued
  <2>4. outcome \in {<<[st EXCEPT ![next] = "running"], next, "browsing">>, <<st, next, "refused">>}
    BY <1>2 DEF Drained
  <2> HIDE DEF next
  <2> QED
    BY <2>3, <2>4
<1> QED
  BY <1>1, <1>2

(***************************************************************************)
(* After a drain the variables of the queue are well-formed, the driven    *)
(* job is open, and the only jobs that changed status since st were        *)
(* queued.                                                                 *)
(***************************************************************************)
LEMMA DrainStep ==
    ASSUME IInv, NEW st \in [Jobs -> Statuses],
           \E outcome \in Drained(st) : Becomes(outcome)
    PROVE  /\ status' \in [Jobs -> Statuses]
           /\ active' \in Jobs \cup {None}
           /\ stage' \in {"none", "refused", "browsing"}
           /\ driven' \in Specs \cup {None} /\ fallback' \in BOOLEAN
           /\ stage' # "none" => active' \in Jobs /\ status'[active'] \in {"queued", "running"}
           /\ \A j \in Jobs : st[j] # "queued" => status'[j] = st[j]
<1>1. PICK outcome \in Drained(st) : Becomes(outcome)
  OBVIOUS
<1>2. driven' \in Specs \cup {None} /\ fallback' \in BOOLEAN
  BY <1>1 DEF Becomes, IInv, TypeOK
<1>3. CASE outcome = <<st, None, "none">>
  BY <1>1, <1>2, <1>3 DEF Becomes
<1>4. ASSUME NEW j \in Jobs, st[j] = "queued",
             outcome = <<[st EXCEPT ![j] = "running"], j, "browsing">>
      PROVE  /\ status' \in [Jobs -> Statuses]
             /\ active' \in Jobs
             /\ stage' = "browsing"
             /\ status'[active'] = "running"
             /\ \A k \in Jobs : st[k] # "queued" => status'[k] = st[k]
  <2>1. status' = [st EXCEPT ![j] = "running"] /\ active' = j /\ stage' = "browsing"
    BY <1>1, <1>4 DEF Becomes
  <2> QED
    BY <1>4, <2>1 DEF Statuses
<1>5. ASSUME NEW j \in Jobs, st[j] = "queued", outcome = <<st, j, "refused">>
      PROVE  status' = st /\ active' = j /\ stage' = "refused"
  BY <1>1, <1>5 DEF Becomes
<1> QED
  BY <1>1, <1>2, <1>3, <1>4, <1>5, DrainStarts
-----------------------------------------------------------------------------
(***************************************************************************)
(* What a step does to the status of a run that has ended.                 *)
(***************************************************************************)
EndsHold == \A j \in Jobs : status[j] \in Terminal /\ status'[j] # status[j]
                              => status[j] = "cancelled" /\ active = j

LEMMA PostStep ==
    ASSUME IInv, NEW j \in Jobs, NEW m \in {"run-to-state", "run-and-capture"}, PostRun(j, m)
    PROVE  IInv' /\ EndsHold
<1> DEFINE posted == [status EXCEPT ![j] = "queued"]
<1>1. status \in [Jobs -> Statuses] /\ posted \in [Jobs -> Statuses]
  BY DEF IInv, TypeOK, Statuses
<1>2. status[j] = "none"
  BY DEF PostRun
<1>3. mode' \in [Jobs -> Shoots \cup {"run-to-state"}] /\ UNCHANGED <<inputs, provenance, lost, restarts>>
  BY DEF PostRun, IInv, TypeOK, Shoots
<1>4. CASE active = None
  <2>1. \E outcome \in Drained(posted) : Becomes(outcome)
    BY <1>4 DEF PostRun
  <2>2. /\ status' \in [Jobs -> Statuses]
        /\ active' \in Jobs \cup {None}
        /\ stage' \in {"none", "refused", "browsing"}
        /\ driven' \in Specs \cup {None} /\ fallback' \in BOOLEAN
        /\ stage' # "none" => active' \in Jobs /\ status'[active'] \in {"queued", "running"}
        /\ \A k \in Jobs : posted[k] # "queued" => status'[k] = posted[k]
    BY <1>1, <2>1, DrainStep
  <2>3. EndsHold
    BY <1>1, <1>2, <2>2 DEF EndsHold, Terminal
  <2>4. TypeOK'
    BY <1>3, <2>2 DEF IInv, TypeOK, inputs, picture, Statuses
  <2> QED
    BY <1>3, <2>2, <2>3, <2>4 DEF IInv, ActiveIsOpen, ShotIsOfDriven, RecordIsOfShot, inputs, picture
<1>5. CASE active # None
  <2>1. Becomes(<<posted, active, stage>>)
    BY <1>5 DEF PostRun
  <2>2. status' = posted /\ UNCHANGED <<active, stage, driven, fallback>>
    BY <2>1 DEF Becomes
  <2>3. EndsHold
    BY <1>1, <1>2, <2>2 DEF EndsHold, Terminal
  <2>4. TypeOK'
    BY <1>1, <1>3, <2>2 DEF IInv, TypeOK, inputs, picture, Statuses
  <2>5. ActiveIsOpen'
    BY <1>1, <1>2, <2>2 DEF IInv, ActiveIsOpen
  <2> QED
    BY <1>3, <2>2, <2>3, <2>4, <2>5 DEF IInv, ShotIsOfDriven, RecordIsOfShot, inputs, picture
<1> QED
  BY <1>4, <1>5

LEMMA CancelStep ==
    ASSUME IInv, NEW j \in Jobs, Cancel(j)
    PROVE  IInv' /\ EndsHold
<1>1. status[j] \notin Terminal
  BY DEF Cancel, Cancellable
<1>2. /\ status' = [status EXCEPT ![j] = "cancelled"]
      /\ UNCHANGED <<mode, active, stage, driven, fallback, spec, image, late, replaced, provenance, lost, restarts>>
  BY DEF Cancel, browser, inputs, picture
<1>3. TypeOK'
  BY <1>2 DEF IInv, TypeOK, Terminal
<1>4. ActiveIsOpen'
  BY <1>2 DEF IInv, TypeOK, ActiveIsOpen
<1>5. EndsHold
  BY <1>1, <1>2 DEF IInv, TypeOK, EndsHold
<1> QED
  BY <1>2, <1>3, <1>4, <1>5 DEF IInv, ShotIsOfDriven, RecordIsOfShot

(***************************************************************************)
(* The human edits the storyboard or the image, or the image is written    *)
(* late: of a shot that is not recorded yet it is then a replacement.      *)
(***************************************************************************)
LEMMA EditStep ==
    ASSUME IInv, EditStoryboard \/ PutImage \/ LateWrite
    PROVE  IInv' /\ EndsHold
<1>1. UNCHANGED <<status, mode, active, stage, driven, fallback, provenance, lost, restarts>>
  BY DEF EditStoryboard, PutImage, LateWrite, browser
<1>2. /\ spec' \in Specs /\ image' \in Specs \cup {None, Other}
      /\ late' \subseteq Specs \cup {None, Other} /\ replaced' \in BOOLEAN
      /\ UNCHANGED <<image, replaced>> \/ replaced' = (stage = "shot")
  BY DEF EditStoryboard, PutImage, LateWrite, picture, IInv, TypeOK
<1>3. TypeOK'
  BY <1>1, <1>2 DEF IInv, TypeOK
<1> QED
  BY <1>1, <1>2, <1>3 DEF IInv, ActiveIsOpen, ShotIsOfDriven, RecordIsOfShot, EndsHold

LEMMA ArriveStep ==
    ASSUME IInv, Arrive
    PROVE  IInv' /\ EndsHold
<1>1. /\ stage = "browsing" /\ stage' = "shooting"
      /\ status' = [status EXCEPT ![active] = "capturing"]
      /\ fallback' \in BOOLEAN
      /\ UNCHANGED <<mode, active, driven, spec, image, late, replaced, provenance, lost, restarts>>
  BY DEF Arrive, inputs, picture
<1>2. active \in Jobs /\ status[active] \in {"queued", "running", "capturing", "cancelled"}
  BY <1>1 DEF IInv, ActiveIsOpen
<1>3. TypeOK'
  BY <1>1 DEF IInv, TypeOK
<1>4. ActiveIsOpen'
  BY <1>1, <1>2 DEF IInv, TypeOK, ActiveIsOpen
<1>5. EndsHold
  BY <1>1, <1>2 DEF IInv, TypeOK, EndsHold, Terminal
<1> QED
  BY <1>1, <1>3, <1>4, <1>5 DEF IInv, ShotIsOfDriven, RecordIsOfShot

LEMMA ScreenshotStep ==
    ASSUME IInv, Screenshot
    PROVE  IInv' /\ EndsHold
<1>1. /\ stage = "shooting" /\ stage' = "shot"
      /\ image' = (IF fallback THEN Other ELSE driven) /\ replaced' = FALSE
      /\ UNCHANGED <<status, mode, active, driven, fallback, spec, late, provenance, lost, restarts>>
  BY DEF Screenshot, Shot
<1>2. TypeOK'
  BY <1>1 DEF IInv, TypeOK
<1> QED
  BY <1>1, <1>2 DEF IInv, ActiveIsOpen, ShotIsOfDriven, RecordIsOfShot, EndsHold

\* A screenshot that is given up changes nothing yet.
LEMMA AbandonKeeps ==
    ASSUME IInv, Abandon
    PROVE  UNCHANGED <<image, replaced>> /\ late' \subseteq Specs \cup {None, Other}
  BY DEF Abandon, Shot, IInv, TypeOK

LEMMA HangStep ==
    ASSUME IInv, Hang
    PROVE  IInv' /\ EndsHold
<1>1. /\ stage # "none" /\ stage' = "hung"
      /\ UNCHANGED <<status, mode, active, driven, fallback, spec, image, replaced, provenance, lost, restarts>>
      /\ late' \subseteq Specs \cup {None, Other}
  BY AbandonKeeps DEF Hang
<1>2. TypeOK'
  BY <1>1 DEF IInv, TypeOK
<1> QED
  BY <1>1, <1>2 DEF IInv, ActiveIsOpen, ShotIsOfDriven, RecordIsOfShot, EndsHold
-----------------------------------------------------------------------------
(***************************************************************************)
(* The end of a run: its job has ended with the status s, and the browser  *)
(* is drained.                                                             *)
(***************************************************************************)
LEMMA EndOfRun ==
    ASSUME IInv, stage # "none", NEW s \in {"succeeded", "failed"},
           \E outcome \in Freed([status EXCEPT ![active] = s]) : Becomes(outcome),
           UNCHANGED <<mode, spec, image, replaced, lost, restarts>>,
           late' \subseteq Specs \cup {None, Other},
           provenance' \in Records,
           RecordIsOfShot'
    PROVE  IInv' /\ EndsHold
<1> DEFINE st == [status EXCEPT ![active] = s]
<1>1. active \in Jobs /\ status[active] \in {"queued", "running", "capturing", "cancelled"}
  BY DEF IInv, ActiveIsOpen
<1>2. status \in [Jobs -> Statuses] /\ st \in [Jobs -> Statuses]
  BY DEF IInv, TypeOK, Statuses, Terminal
<1>3. \E outcome \in Drained(st) : Becomes(outcome)
  BY DEF Freed
<1>4. /\ status' \in [Jobs -> Statuses]
      /\ active' \in Jobs \cup {None}
      /\ stage' \in {"none", "refused", "browsing"}
      /\ driven' \in Specs \cup {None} /\ fallback' \in BOOLEAN
      /\ stage' # "none" => active' \in Jobs /\ status'[active'] \in {"queued", "running"}
      /\ \A j \in Jobs : st[j] # "queued" => status'[j] = st[j]
  BY <1>2, <1>3, DrainStep
<1>5. EndsHold
  <2> SUFFICES ASSUME NEW j \in Jobs, status[j] \in Terminal, status'[j] # status[j]
               PROVE  status[j] = "cancelled" /\ active = j
    BY DEF EndsHold
  <2>1. CASE j = active
    BY <1>1, <2>1 DEF Terminal
  <2>2. CASE j # active
    <3>1. st[j] = status[j]
      BY <1>1, <1>2, <2>2
    <3> QED
      BY <1>4, <3>1 DEF Terminal
  <2> QED
    BY <2>1, <2>2
<1>6. TypeOK'
  BY <1>4 DEF IInv, TypeOK, Statuses, Records
<1> QED
  BY <1>4, <1>5, <1>6 DEF IInv, ActiveIsOpen, ShotIsOfDriven

LEMMA CompleteStep ==
    ASSUME IInv, Complete
    PROVE  IInv' /\ EndsHold
<1>1. stage \in {"shot", "browsing"}
  BY DEF Complete
<1>2. provenance' = [spec |-> driven, image |-> image, how |-> How]
  BY DEF Complete, Recorded
<1>3. How \in {"state", "fallback", "replaced", "shot"}
  BY <1>1 DEF How, IInv, TypeOK
<1>4. How = "shot" => stage = "shot" /\ ~fallback /\ ~replaced
  BY <1>1 DEF How, IInv, TypeOK
<1>5. provenance' \in Records
  BY <1>2, <1>3 DEF IInv, TypeOK, Records
<1>6. RecordIsOfShot'
  BY <1>2, <1>3, <1>4 DEF IInv, ShotIsOfDriven, RecordIsOfShot
<1>7. UNCHANGED <<mode, spec, image, replaced, late, lost, restarts>>
  BY DEF Complete, inputs, picture
<1>8. \E outcome \in Freed([status EXCEPT ![active] = "succeeded"]) : Becomes(outcome)
  BY DEF Complete
<1>9. stage # "none" /\ late' \subseteq Specs \cup {None, Other}
  BY <1>1, <1>7 DEF IInv, TypeOK
<1> QED
  BY <1>5, <1>6, <1>7, <1>8, <1>9, EndOfRun

LEMMA FailStep ==
    ASSUME IInv, Fail
    PROVE  IInv' /\ EndsHold
<1>1. stage # "none" /\ UNCHANGED <<mode, spec, image, replaced, provenance, lost, restarts>>
  BY AbandonKeeps DEF Fail
<1>2. \E outcome \in Freed([status EXCEPT ![active] = "failed"]) : Becomes(outcome)
  BY DEF Fail
<1>3. provenance' \in Records /\ RecordIsOfShot'
  BY <1>1 DEF IInv, TypeOK, RecordIsOfShot, Records
<1>4. late' \subseteq Specs \cup {None, Other}
  BY AbandonKeeps DEF Fail
<1> QED
  BY <1>1, <1>2, <1>3, <1>4, EndOfRun

LEMMA RestartStep ==
    ASSUME IInv, Restart
    PROVE  IInv' /\ EndsHold
<1>1. /\ active' = None /\ stage' = "none" /\ driven' = None /\ fallback' = FALSE
      /\ lost' \subseteq Jobs /\ restarts' \in 0..MaxRestarts
      /\ UNCHANGED <<status, mode, spec, image, replaced, provenance>>
      /\ late' \subseteq Specs \cup {None, Other}
  BY RunsAssumption, AbandonKeeps DEF Restart, IInv, TypeOK
<1>2. TypeOK'
  BY <1>1 DEF IInv, TypeOK
<1> QED
  BY <1>1, <1>2 DEF IInv, ActiveIsOpen, ShotIsOfDriven, RecordIsOfShot, EndsHold

LEMMA Steps == ASSUME IInv, [Next]_vars PROVE IInv' /\ (EndsHold \/ UNCHANGED vars)
<1>1. CASE UNCHANGED vars
  BY <1>1 DEF vars, IInv, TypeOK, ActiveIsOpen, ShotIsOfDriven, RecordIsOfShot
<1>2. CASE Next
  BY <1>2, PostStep, CancelStep, EditStep, ArriveStep, ScreenshotStep, HangStep, CompleteStep, FailStep, RestartStep
     DEF Next, RunGoesOn
<1> QED
  BY <1>1, <1>2

LEMMA Start == ASSUME Init PROVE IInv
<1>1. 0 \in 0..MaxRestarts
  BY RunsAssumption
<1>2. provenance \in Records
  BY DEF Init, NoProvenance, Records
<1>3. TypeOK
  BY <1>1, <1>2 DEF Init, TypeOK, Records
<1> QED
  BY <1>3 DEF Init, IInv, ActiveIsOpen, ShotIsOfDriven, RecordIsOfShot, NoProvenance
-----------------------------------------------------------------------------
(***************************************************************************)
(* The driven job has not ended, and the record of a shot that was not     *)
(* replaced names the image that the app gave when it was driven by the    *)
(* recorded storyboard.                                                    *)
(***************************************************************************)
THEOREM Invariance == Spec => []IInv
<1>1. Init => IInv
  BY Start
<1>2. IInv /\ [Next]_vars => IInv'
  BY Steps
<1> QED
  BY <1>1, <1>2, PTL DEF Spec

(***************************************************************************)
(* A frame is unchanged only when its image is of the present storyboard,  *)
(* unless its record is of a run to a state, of a fallback, or of a shot   *)
(* that was replaced by hand or by a late write before it was recorded.    *)
(***************************************************************************)
THEOREM RecordVouches == Spec => []UnchangedIsOfTheStoryboard
<1>1. IInv => UnchangedIsOfTheStoryboard
  BY DEF IInv, TypeOK, RecordIsOfShot, UnchangedIsOfTheStoryboard, Unchanged
<1> QED
  BY <1>1, Invariance, PTL

(***************************************************************************)
(* The end of a run is final, but for a cancellation of the driven run.    *)
(***************************************************************************)
THEOREM EndsAreFinal == Spec => OnlyCancelIsUndone
<1>1. IInv /\ [Next]_vars =>
         [\A j \in Jobs : status[j] \in Terminal /\ status'[j] # status[j]
                            => status[j] = "cancelled" /\ active = j]_vars
  BY Steps DEF EndsHold
<1> QED
  BY <1>1, Invariance, PTL DEF Spec, OnlyCancelIsUndone
=============================================================================
