-------------------------- MODULE MCSessionWatchdog --------------------------
(***************************************************************************)
(* Instance of SessionWatchdog for TLC: a process without a limit and one  *)
(* whose nudges run out before the attempts do, a time-out of three ticks  *)
(* and a shorter typing grace.                                             *)
(***************************************************************************)
EXTENDS SessionWatchdog
=============================================================================
