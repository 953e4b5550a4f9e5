---------------------------- MODULE MCCodexTurn ----------------------------
(***************************************************************************)
(* Instance of CodexTurn for TLC: two sessions that share the app-server.  *)
(***************************************************************************)
EXTENDS CodexTurn

CONSTANTS sa, sb
=============================================================================
