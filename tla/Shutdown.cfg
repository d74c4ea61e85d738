\* Three hooks under two names, a deadline of 1 and one cut from 9 to 3 under a
\* watchdog of 4; both signals.
CONSTANTS
    quick = quick
    slow = slow
    term = term
    int = int
    Names = {quick, slow}
    TimeoutMs <- Asked
    ForceExitAfterMs = 4
    Slack = 1
    Signals = {term, int}
    MaxHooks = 3
SPECIFICATION FairSpec
\* The process ends.
CHECK_DEADLOCK FALSE
INVARIANTS
    DrainInv
    ForcedTakesTime
PROPERTIES
    NoneSkipped
    EofEndsProcess
