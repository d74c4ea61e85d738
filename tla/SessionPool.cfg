\* Two requests of one client and one without a session id, both managers; a
\* page or browser is lost, and an hour passes or the server shuts down.
CONSTANTS
    q1 = q1
    q2 = q2
    q3 = q3
    client = client
    random = random
    Requests = {q1, q2, q3}
    IdOf <- ThreeIds
    Stateless = {q3}
    Managers = {"local", "remote"}
    MaxArrivals = 2
    MaxLosses = 1
    None = None
    MaxSweeps = 1
SPECIFICATION FairSpec
\* The requests run out.
CHECK_DEADLOCK FALSE
INVARIANTS
    PoolInv
    OrphansNeedOverlap
    SoleCallerLosesNoPage
PROPERTIES
    StatelessForgotten
