---------------------------- MODULE MCChatClient ----------------------------
(***************************************************************************)
(* Instance of ChatClient for TLC: a session with a transcript, another    *)
(* that may be created, one more change of each, and one call in flight    *)
(* beside the opening of a session.                                        *)
(***************************************************************************)
EXTENDS ChatClient, TLC

CONSTANTS sa, sb, c1

MCHistory == sa :> 1 @@ sb :> 0
MCMaxChanges == sa :> 2 @@ sb :> 1
=============================================================================
