--------------------------- MODULE MCBridgeClient ---------------------------
(* Two requests, three clients on two ports, messages written twice.       *)
EXTENDS BridgeClient, TLC

CONSTANTS r1, r2

MCRequests == {r1, r2}
=============================================================================
