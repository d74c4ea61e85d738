-------------------------- MODULE MCWorkerSession ---------------------------
(* Instances of WorkerSession for TLC. *)
EXTENDS WorkerSession
=============================================================================
