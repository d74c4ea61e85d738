\* Two hosts, one by http and one by https, one tab, attached and detached at
\* will, and two dispatches; two words of the user, two navigations or closings,
\* one restart of the worker.
SPECIFICATION Spec
CHECK_DEADLOCK FALSE
CONSTANTS
    n1 = n1
    n2 = n2
    h1 = h1
    h2 = h2
    tab1 = tab1
    t1 = t1
    d1 = d1
    d2 = d2
    None = None
    Pages <- MCPages
    NameOf <- MCNameOf
    Tabs <- MCTabs
    Tokens <- MCTokens
    Dispatches <- MCDispatches
    Kinds <- MCKinds
    MaxWords = 2
    MaxMoves = 2
    MaxDeaths = 1
SYMMETRY Symmetry
INVARIANTS
    SiteInv
    WordsAreKept
PROPERTIES
    LastWordCounts
    GateNeverWider
