---------------------------- MODULE MCSessionPool ---------------------------
(* Instances of SessionPool for TLC. *)
EXTENDS SessionPool, TLC

CONSTANTS q1, q2, q3, client, random

\* Two requests of one client, and one without a session id.
ThreeIds == (q1 :> client) @@ (q2 :> client) @@ (q3 :> random)
OneId == (q3 :> random)
=============================================================================
