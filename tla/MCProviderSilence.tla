------------------------- MODULE MCProviderSilence -------------------------
(***************************************************************************)
(* An instance of ProviderSilence for TLC: two messages, two providers     *)
(* with one setting each, two coroutine slots.                             *)
(***************************************************************************)
EXTENDS ProviderSilence

CONSTANTS m1, m2, r1, r2, q1

MCSettings == {"codex-a", "claude-a"}
MCKindOf == [s \in MCSettings |-> IF s = "claude-a" THEN "claude" ELSE "codex"]
MCTags == {{}, {"claude"}}
=============================================================================
