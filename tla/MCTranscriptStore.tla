-------------------------- MODULE MCTranscriptStore --------------------------
(***************************************************************************)
(* Instances of TranscriptStore for TLC.                                   *)
(***************************************************************************)
EXTENDS TranscriptStore, TLC

CONSTANTS m1, m2, m3

Symmetry == Permutations(Messages)
=============================================================================
