\* Two mutating and two read-only calls, one slot for each lane, room for two
\* in the backlog: both pools and the backlog overflow, and running work
\* settles.
CONSTANTS
    w1 = w1
    w2 = w2
    r1 = r1
    r2 = r2
    Ops <- TwoAndTwo
    Readers <- Readers2
    MaxConcurrent = 1
    MaxReadonlyConcurrent = 1
    QueueMax = 2
SPECIFICATION SettlingSpec
\* The calls run out.
CHECK_DEADLOCK FALSE
INVARIANTS
    QueueInv
    BacklogInOrder
    HeadBlocked
PROPERTIES
    EveryCallAnswered
    ImplementsService
