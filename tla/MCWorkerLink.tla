----------------------------- MODULE MCWorkerLink -----------------------------
(***************************************************************************)
(* Instance of WorkerLink for TLC: three connections, so that an agent can *)
(* come back while two older sockets are still to be noticed.              *)
(***************************************************************************)
EXTENDS WorkerLink
=============================================================================
