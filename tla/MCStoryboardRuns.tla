-------------------------- MODULE MCStoryboardRuns --------------------------
(***************************************************************************)
(* Instance of StoryboardRuns for TLC: three runs, so that one waits while *)
(* another is driven and a third is cancelled, two versions of the         *)
(* storyboard, and one restart.                                            *)
(***************************************************************************)
EXTENDS StoryboardRuns
=============================================================================
