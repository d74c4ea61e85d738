\* Two processes and two installations; a request and a cancel, and one of each
\* that do not parse, signed for the second pairing; the journal holds one key.
CONSTANTS
    h1 = h1
    h2 = h2
    i1 = i1
    i2 = i2
    a = a
    c = c
    d = d
    e = e
    Hosts = {h1, h2}
    Installs = {i1, i2}
    Requests = {a, d}
    Cancels = {c, e}
    Target <- CancelsFirst
    SignedFor <- BySort
    Malformed = {d, e}
    ReplayLimit = 1
    MaxWork = 4
SPECIFICATION Spec
SYMMETRY Symmetry
\* The bounds run out.
CHECK_DEADLOCK FALSE
INVARIANTS
    
    AtMostOnce
    NothingForgotten
    PairingInv
    PairingKept
