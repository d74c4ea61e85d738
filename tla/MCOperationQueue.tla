--------------------------- MODULE MCOperationQueue --------------------------
(* An instance of OperationQueue for TLC. *)
EXTENDS OperationQueue

CONSTANTS w1, w2, r1, r2

Readers2  == {r1, r2}
TwoAndTwo == {w1, w2} \cup Readers2
=============================================================================
