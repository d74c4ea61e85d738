\* Three snapshots that may overlap, a click or typing, a drag, one
\* navigation.
CONSTANTS
    s1 = s1
    s2 = s2
    s3 = s3
    u1 = u1
    u2 = u2
    n1 = n1
    Snaps <- ThreeSnaps
    Users <- TwoUsers
    Draggers <- OneDragger
    Navs <- OneNav
    Nodes = 2
    MaxReadonlyConcurrent = 3
    MaxGeneration = 3
SPECIFICATION Spec
SYMMETRY Alike
\* The calls run out.
CHECK_DEADLOCK FALSE
INVARIANTS
    RegistryInv
PROPERTIES
    ReturnsUsableRefs
    ActsOnTheCapturedPage
    RefsLast
