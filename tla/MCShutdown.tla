----------------------------- MODULE MCShutdown -----------------------------
(* Instances of Shutdown for TLC. *)
EXTENDS Shutdown, TLC

CONSTANTS quick, slow, term, int

\* One asks for more time than there is, one for less than the others.
Asked == quick :> 1 @@ slow :> 9
=============================================================================
