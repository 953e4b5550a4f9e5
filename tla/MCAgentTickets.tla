--------------------------- MODULE MCAgentTickets ---------------------------
(***************************************************************************)
(* The process the runs of AgentTickets walk through.  Step 2 is a decision *)
(* with an option of each outcome; step 3 is nested in its option "enter",  *)
(* steps 1 and 4 come before and after it.  The runs about sessions and     *)
(* files use a process of one or two plain steps.                           *)
(***************************************************************************)
EXTENDS AgentTickets, TLC

CONSTANTS s1, s2, t1, t2, t3

DecisionOptions == {"pass", "fail", "redo", "lost", "enter", "finish"}

DecisionStep == [o \in DecisionOptions |-> 2]

OptionOutcome ==
    [pass |-> "next", fail |-> "block", redo |-> "goto", lost |-> "goto", enter |-> "branch", finish |-> "complete"]

\* "lost" names a step that is not executable, as implement_revision does in the process
\* full_development_process_steps.
OptionTarget == [o \in DecisionOptions |-> IF o = "redo" THEN 1 ELSE NoStep]

OptionBranch == [o \in DecisionOptions |-> IF o = "enter" THEN {3} ELSE {}]

NoOption == <<>>

Symmetry == Permutations(Tickets) \union Permutations(Sessions)
=============================================================================
