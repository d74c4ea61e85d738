\* Two requests; clients replaced on one port and across two; one cancel;
\* three messages of the host arrive, any of them again; a replay window of one
\* key, so that keys leave it.  Timers and signatures are fair.
SPECIFICATION FairBridgeSpec
CHECK_DEADLOCK FALSE
CONSTANTS
    r1 = r1
    r2 = r2
    Requests <- MCRequests
    WindowLimit = 1
    MaxCancels = 1
    MaxArrivals = 3
    MaxClients = 2
    MaxPorts = 2
INVARIANTS
    BridgeInv
    OnlyLateWaitInVain
    ReplayNeedsOverlap
PROPERTIES
    EveryRequestSettles
