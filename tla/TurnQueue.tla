----------------------------- MODULE TurnQueue ------------------------------
(***************************************************************************)
(* What a session's queue promises, without saying how: each delivery (a   *)
(* message to a participant) goes forward from new, through waiting and    *)
(* running, to done; a turn takes deliveries of one participant; and a turn *)
(* takes nothing until the one before it has ended.                        *)
(***************************************************************************)
CONSTANTS Messages, Kinds

VARIABLE delivery

Deliveries == Messages \X Kinds

\* The statuses a delivery in each status may be in after a step.
Later == [new     |-> {"new", "waiting", "running", "done"},
          waiting |-> {"waiting", "running", "done"},
          running |-> {"running", "done"},
          done    |-> {"done"}]

Init == delivery = [d \in Deliveries |-> "new"]

Step ==
    LET now   == delivery
        next  == delivery'
        taken == {d \in Deliveries : now[d] # "running" /\ next[d] = "running"}
    IN  /\ next \in [Deliveries -> {"new", "waiting", "running", "done"}]
        /\ \A d \in Deliveries : next[d] \in Later[now[d]]
        /\ \A d, e \in taken : d[2] = e[2]
        /\ taken # {} => \A d \in Deliveries : now[d] = "running" => next[d] = "done"

Spec == Init /\ [][Step]_delivery
=============================================================================
