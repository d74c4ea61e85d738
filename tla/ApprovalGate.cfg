\* Two tools, both modes; the page decides the risk, the cache holds one, and an
\* approval is good for the shortest time there is, up to the next tick.
CONSTANTS
    x1 = x1
    click = click
    type = type
    Tools <- MCTools
    Args = {"plain"}
    Pages = {"public", "loopback"}
    ClientIds = {x1}
    Risk <- MCRisk
    SecretChoices = {TRUE, FALSE}
    DenyTools = {}
    PolicyModes = {"audit", "enforce"}
    Ttl = 0
    ProposalCap = 1
    MaxProposals = 1
    MaxWork = 4
SPECIFICATION Spec
SYMMETRY Symmetry
\* The bounds run out.
CHECK_DEADLOCK FALSE
INVARIANTS
    SpendingInv
    PaidFor
