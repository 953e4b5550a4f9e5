---------------------------- MODULE MCSessionRun ----------------------------
(***************************************************************************)
(* Instances of SessionRun for TLC: two providers with one setting each,   *)
(* two coroutine slots (one more than a correct engine ever uses).         *)
(***************************************************************************)
EXTENDS SessionRun, TLC

CONSTANTS m1, m2, m3, p1, p2, r1, r2, q1

MCSettings == {"codex-a", "claude-a"}
MCKindOf == [s \in MCSettings |-> IF s = "claude-a" THEN "claude" ELSE "codex"]
NoTags == {{}}
MCTags == {{}, {"claude"}}

Symmetry == Permutations({m1, m2, m3}) \cup Permutations({r1, r2})
=============================================================================
