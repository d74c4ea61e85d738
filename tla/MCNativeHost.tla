---------------------------- MODULE MCNativeHost ----------------------------
(* The instance of NativeHost for TLC. *)
EXTENDS NativeHost, TLC

CONSTANTS h1, h2, i1, i2, a, c, d, e

\* Both cancels name the request that parses.
CancelsFirst == [m \in Cancels |-> a]

\* The first pairing signs what parses, the second what does not.
BySort == [m \in Messages |-> IF m \in Malformed THEN 2 ELSE 1]

Symmetry == Permutations({h1, h2}) \cup Permutations({i1, i2})
=============================================================================
