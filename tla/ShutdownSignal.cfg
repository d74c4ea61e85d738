\* Does a signal end the process?
CONSTANTS
    quick = quick
    slow = slow
    term = term
    int = int
    Names = {quick, slow}
    TimeoutMs <- Asked
    ForceExitAfterMs = 4
    Slack = 1
    Signals = {term, int}
    MaxHooks = 3
SPECIFICATION FairSpec
\* The process ends.
CHECK_DEADLOCK FALSE
PROPERTIES
    ExitsOnceTriggered
