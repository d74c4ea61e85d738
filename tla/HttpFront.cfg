\* Three requests of two clients; one request per window, one key, two slots; a
\* window of three ticks, seconds of two, a deadline of two.
CONSTANTS
    Requests = {1, 2, 3}
    Kinds <- SomeKinds
    TrustedProxies = {"proxy1", "proxy2"}
    TrustProxy = TRUE
    MaxForwardedHops = 3
    AllowedHosts = {"127.0.0.1"}
    Loopback = {"127.0.0.1", "localhost"}
    AllowedOrigins = {"http://127.0.0.1"}
    Methods = {"GET", "POST", "DELETE", "OPTIONS"}
    MaxConcurrent = 2
    RateLimit = 1
    MaxKeys = 1
    Window = 3
    Second = 2
    Timeout = 2
    MaxTime = 6
SPECIFICATION FairFrontSpec
\* Time and requests run out.
CHECK_DEADLOCK FALSE
INVARIANTS
    FrontInv
    TwoWindowsBound
PROPERTIES
    OneStatus
    EveryRequestEnds
