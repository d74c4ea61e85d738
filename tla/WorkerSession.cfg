\* Three connections, over restarts of the worker and the browser; two
\* installations and pairings.
CONSTANTS
    MaxPorts = 3
    MaxInstalls = 2
    MaxPairings = 2
SPECIFICATION Spec
\* The ports run out.
CHECK_DEADLOCK FALSE
INVARIANTS
    ClientInv
    TakeoverHolds
    PresentsKnownPairing
